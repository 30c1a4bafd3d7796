------------------------------ MODULE Startup ------------------------------
(* From the command line to a processing process at work, and the updates     *)
(* that control clients send to it: main.c, the parsing of an update in       *)
(* modules/dynamic_conf/server.c, the check of the license, the start of a    *)
(* capture and the two timers that a capture drives.  How monitor, control    *)
(* and processing processes interleave is the subject of Supervisor; here an  *)
(* update reaches the monitor in one step and the restart it asks for is      *)
(* another one.                                                               *)
EXTENDS Configuration, AppStat

CONSTANTS Launches,    \* [build, user, files, options, license]: what was compiled and how it is called
          Messages,    \* [braces, newline, lines]: updates that clients send
          Macs,        \* the MAC addresses of the machine
          ParamSize,   \* MMT_CMD_PARAM_MAX_LENGTH, in cells
          NbIdentities, \* conf_get_identities: the monitor has room for as many parameters
          MaxUpdates,  \* bound on updates
          MaxPackets,  \* bound on packets
          MaxTime,     \* bound on the clock
          MaxStep      \* bound on the time between two steps of the clock

ASSUME StartupAssumption ==
    /\ ParamSize \in Nat /\ NbIdentities \in Nat \ {0} /\ MaxStep \in Nat
    /\ \A m \in Messages :
           /\ m.lines \in Seq({m.lines[i] : i \in DOMAIN m.lines})
           /\ \A i \in DOMAIN m.lines : m.lines[i].text \in DOMAIN Lengths

VARIABLES launch,
          pc,       \* where main() is: load, options, start, then capture (offline) or monitor (online);
                    \* or how the probe ended
          memory,   \* the configuration of the process that started the probe: [conf, outputs, null]
          todo,     \* options not looked at yet
          proc,     \* the processing process, a copy made by fork
          restart,  \* the processing process was told to restart
          written,  \* history: the accepted texts, [ident, text, update]
          updates, packets, now

vars == <<launch, pc, memory, todo, proc, restart, written, updates, packets, now>>

Build == launch.build
Running == pc \in {"capture", "monitor"}
NoProcess == [state |-> "none"]
Timers == [next_stat |-> 0, next_output |-> 0, first |-> 0, stats |-> 0, samples |-> 0]

Init ==
    /\ launch \in Launches
    /\ pc = "load" /\ memory = [result |-> "null"] /\ todo = launch.options
    /\ proc = NoProcess /\ restart = FALSE /\ written = <<>>
    /\ updates = 0 /\ packets = 0 /\ now = 1

Ends(how) == pc' = how /\ UNCHANGED <<memory, todo, written>>

(***************************************************************************)
(* Before the fork.                                                        *)
(***************************************************************************)
\* the first round of _parse_options: -v, -h and -x print something and exit
PrintAndExit ==
    /\ pc = "load" /\ \E i \in DOMAIN todo : todo[i].flag \in {"v", "h", "x"}
    /\ Ends("success")
    /\ UNCHANGED <<launch, proc, restart, updates, packets, now>>

\* conf_load_from_file in _parse_options: without -c there is a second file to try
ReadFile(l) ==
    LET first == LoadFromFile(l.files[1])
    IN  IF first.result = "null" /\ ~l.user THEN LoadFromFile(l.files[2]) ELSE first

LoadConfiguration ==
    /\ pc = "load" /\ \A i \in DOMAIN todo : todo[i].flag \notin {"v", "h", "x"}
    /\ LET read == ReadFile(launch)
       IN  /\ memory' = read
           /\ pc' = CASE read.result = "ok" -> "options"
                      [] read.result = "crash" -> "crash"
                      [] OTHER -> "abort"
    /\ UNCHANGED <<launch, todo, proc, restart, written, updates, packets, now>>

\* the options of a build: getopt does not know -t when packets come from DPDK
Flags == {"i", "X"} \cup IF Build.capture = "DPDK" THEN {} ELSE {"t"}

\* _parse_options: what is not an option is skipped
SkipOption ==
    /\ pc = "options" /\ todo # <<>> /\ Head(todo).flag \notin Flags
    /\ todo' = Tail(todo)
    /\ UNCHANGED <<launch, pc, memory, proc, restart, written, updates, packets, now>>

\* -t and -i of _parse_options: the source, and the mode that goes with it
OverrideInput ==
    /\ pc = "options" /\ todo # <<>> /\ Head(todo).flag \in Flags \ {"X"}
    /\ todo' = Tail(todo)
    /\ LET mode == IF Head(todo).flag = "t" THEN "OFFLINE" ELSE "ONLINE"
       IN  /\ memory' = [memory EXCEPT !.conf["input.source"] = Head(todo).text, !.conf["input.mode"] = mode]
           /\ written' = written \o <<[ident |-> "input.source", text |-> Head(todo).text, update |-> FALSE],
                                      [ident |-> "input.mode", text |-> mode, update |-> FALSE]>>
    /\ UNCHANGED <<launch, pc, proc, restart, updates, packets, now>>

\* -X of _parse_options and conf_override_element: with no "=", or nothing behind it, the text
\* is empty and is used, after a warning that it is ignored
OverrideOption ==
    /\ pc = "options" /\ todo # <<>> /\ Head(todo).flag = "X"
    /\ LET o == Head(todo)
       IN  CASE ~Known(o.ident, Build) -> Ends("failure")
             [] Known(o.ident, Build) /\ BadPointer(memory, o.ident) -> Ends("crash")
             [] Known(o.ident, Build) /\ ~BadPointer(memory, o.ident) /\ NotSupported(memory, o.ident) ->
                     todo' = Tail(todo) /\ UNCHANGED <<pc, memory, written>>
             [] OTHER -> /\ todo' = Tail(todo) /\ pc' = pc
                         /\ memory' = [memory EXCEPT !.conf = OverrideByIdent(@, o.ident, o.text)]
                         /\ written' = Append(written, [ident |-> o.ident, text |-> o.text, update |-> FALSE])
    /\ UNCHANGED <<launch, proc, restart, updates, packets, now>>

\* the end of _parse_options: conf_validate, abort when it finds errors.  main
\* validates once more, which changes nothing
Validate ==
    /\ pc = "options" /\ todo = <<>>
    /\ pc' = CASE ~ForwardAsserted(memory.conf, Build) -> "abort"
               [] ForwardAsserted(memory.conf, Build) /\ NullRead(memory.conf, memory.null, Build) -> "crash"
               [] OTHER -> IF Errors(memory.conf, Build) # {} THEN "abort" ELSE "start"
    /\ memory' = IF pc' = "start" THEN [memory EXCEPT !.conf = Normalised(@)] ELSE memory
    /\ UNCHANGED <<launch, todo, proc, restart, written, updates, packets, now>>

(***************************************************************************)
(* The processing process.                                                 *)
(***************************************************************************)
\* _decode_license_file: a file too short is taken for one without addresses
DecodeLicense(l) ==
    CASE ~l.exists -> "KEY_DOES_NOT_EXIST"
      [] l.exists /\ ~l.short /\ (l.truncated \/ ~l.sum) -> "MODIFIED"
      [] OTHER -> "read"

\* _check_license: one address of the machine is in the license; the days that remain
LicenseMacs(l) == IF l.short THEN {} ELSE l.macs
ConformLicense(l, macs) == macs \cap LicenseMacs(l) # {}

\* license_check_expiry, with the days the license is still valid
CheckLicense(l, macs) ==
    CASE DecodeLicense(l) # "read" -> DecodeLicense(l)
      [] DecodeLicense(l) = "read" /\ macs = {} -> "NO_MAC"
      [] DecodeLicense(l) = "read" /\ macs # {} /\ ~ConformLicense(l, macs) -> "BUY_LICENSE"
      [] OTHER -> IF l.days <= 0 THEN "EXPIRED" ELSE IF l.days <= 7 THEN "WILL_EXPIRE_SOON" ELSE "INFO"
LicenseOk(l, macs) == CheckLicense(l, macs) \in {"WILL_EXPIRE_SOON", "INFO"}

\* worker_on_start of the first worker: the license is checked when the build asks for it
WorkerStarts(b, l) == "LICENSE" \in b.modules => LicenseOk(l, Macs)

\* IS_SMP_MODE
SmpMode(conf) == conf["thread-nb"] # 0

\* packet_capture_start of stream_capture.c: one thread, from a file
StreamStarts(conf) == ~SmpMode(conf) /\ conf["input.mode"] = "OFFLINE"

\* packet_capture_start up to its loop; opening the source may fail
CaptureStarts(conf, b, l, opened) ==
    /\ b.capture = "STREAM" => StreamStarts(conf)
    /\ WorkerStarts(b, l)
    /\ opened

\* _main_processing: DPI and, with DPDK, the EAL may fail to initialise; then capture starts.
\* All of it ends the process normally: ABORT raises SIGABRT, whose handler exits with success
MainProcessing(conf, b, l, initialised, opened) ==
    IF ~initialised \/ ~CaptureStarts(conf, b, l, opened) THEN NoProcess
    ELSE [state |-> "run", conf |-> conf, reader |-> Timers, worker |-> Timers]

\* dpi_alloc_init, for a worker: reads the block of each reconstruction that is compiled
DpiCrashes(null, b) ==
    \/ "ftp" \in null /\ "FTP_RECONSTRUCT" \in b.modules
    \/ "http" \in null /\ "HTTP_RECONSTRUCT" \in b.modules

\* _main_processing with DPDK: string_split of options that are not there
EalCrashes(conf, b) == b.capture = "DPDK" /\ conf["dpdk-option"] = Null

\* main and _create_sub_processes: offline the process itself captures, online its child.
\* A null pointer in its start raises SIGSEGV: offline the handler exits with success, online
\* the child is created again, to end in the same way, for ever
Start ==
    /\ pc = "start"
    /\ \E initialised, opened \in BOOLEAN :
           LET p == MainProcessing(memory.conf, Build, launch.license, initialised, opened)
               offline == memory.conf["input.mode"] = "OFFLINE"
               crashes == EalCrashes(memory.conf, Build) \/ (p # NoProcess /\ DpiCrashes(memory.null, Build))
           IN  /\ proc' = IF crashes THEN NoProcess ELSE p
               /\ pc' = CASE crashes -> IF offline THEN "success" ELSE "respawning"
                          [] ~crashes /\ p = NoProcess -> "success"
                          [] OTHER -> IF offline THEN "capture" ELSE "monitor"
    /\ UNCHANGED <<launch, memory, todo, restart, written, updates, packets, now>>

\* a child that was told to restart ends; the monitor forks a new one from its own memory
Restart ==
    /\ pc = "monitor" /\ restart
    /\ \E opened \in BOOLEAN :
           LET p == MainProcessing(memory.conf, Build, launch.license, TRUE, opened)
           IN  /\ proc' = p
               /\ pc' = IF p = NoProcess THEN "success" ELSE pc
    /\ restart' = FALSE
    /\ UNCHANGED <<launch, memory, todo, written, updates, packets, now>>

(***************************************************************************)
(* Updates: server.c encodes what the client sends, the monitor decodes it *)
(***************************************************************************)
Num(n) == [kind |-> "number", v |-> n]
Char(text, i) == [kind |-> "char", text |-> text, i |-> i]
Nul == [kind |-> "nul"]

\* Mutant: the end of the string is not counted
EncodeParameterNoNul(line) ==
    <<Num(line.ident), Num(Lengths[line.text])>>
        \o [i \in 1..Lengths[line.text] |-> Char(line.text, i)]

\* _parse_update_parameters, one parameter: identity, length with the '\0', text
EncodeParameter(line) ==
    <<Num(line.ident), Num(Lengths[line.text] + 1)>>
        \o [i \in 1..Lengths[line.text] |-> Char(line.text, i)] \o <<Nul>>

\* what is refused in a line
BadLine(line) ==
    \/ ~line.eq
    \/ ~Known(line.ident, Build) \/ line.ident = "no-support"
    \/ Lengths[line.text] = 0
    \/ RefusedText(line.ident, line.text)

\* _parse_update_parameters: the buffer, empty when a reply says what is wrong
ParseUpdate(message) ==
    LET encoded == FlattenSeq([i \in DOMAIN message.lines |-> EncodeParameter(message.lines[i])])
    IN  IF \/ message.lines = <<>> \/ ~message.braces \/ ~message.newline
           \/ \E i \in DOMAIN message.lines : BadLine(message.lines[i])
        THEN <<>>
        ELSE IF Len(encoded) > ParamSize THEN <<>> ELSE encoded

\* the string that starts behind cell o of a buffer: up to its '\0'
StringAt(buffer, o) ==
    LET end == {i \in (o + 1)..Len(buffer) : buffer[i].kind = "nul"}
        n == IF end = {} THEN 0 ELSE (CHOOSE i \in end : \A j \in end : i <= j) - o - 1
        text == IF n = 0 THEN {} ELSE {t \in DOMAIN Lengths : /\ Lengths[t] = n
                                                               /\ \A i \in 1..n : buffer[o + i] = Char(t, i)}
    IN  IF text = {} THEN "garbage" ELSE The(text)

\* parse_command_parameters: where it stands when it has read n parameters
Offsets(buffer) ==
    LET offset[n \in Nat] ==
            IF n = 0 THEN 0
            ELSE LET o == offset[n - 1]
                 IN  IF o >= Len(buffer) THEN o ELSE o + 2 + buffer[o + 2].v
    IN  offset

\* parse_command_parameters: no more parameters than there are identities
ParseParameters(buffer) ==
    LET offset == Offsets(buffer)
    IN  [n \in {k \in 1..NbIdentities : offset[k - 1] < Len(buffer)} |->
            [id |-> buffer[offset[n - 1] + 1].v, text |-> StringAt(buffer, offset[n - 1] + 2)]]

\* _receive_message of dynamic_conf.c on an update: the parameters, in order
ApplyUpdate(conf, params) ==
    LET applied[n \in Nat] ==
            IF n = 0 THEN conf ELSE OverrideById(applied[n - 1], params[n].id, params[n].text)
    IN  applied[Len(params)]

\* dynamic_conf_need_to_restart_to_update
NeedRestart(params) == \E i \in DOMAIN params : params[i].id # "no-support"

\* History: the lines of an update that the monitor has room for.  The server accepts more of
\* them when they fit its buffer; the monitor then leaves the last ones out
Considered(message) ==
    [i \in {k \in DOMAIN message.lines : k <= NbIdentities} |->
        [ident |-> message.lines[i].ident, text |-> message.lines[i].text, update |-> TRUE]]

\* a client's update, when the monitor looks at the bus: only with dynamic-config.enable
Update(message) ==
    /\ pc = "monitor" /\ memory.conf["dynamic-config.enable"]
    /\ updates < MaxUpdates /\ updates' = updates + 1
    /\ LET params == ParseParameters(ParseUpdate(message))
       IN  IF \E i \in DOMAIN params : BadPointer(memory, params[i].id) THEN Ends("crash") /\ UNCHANGED restart
           ELSE /\ memory' = [memory EXCEPT !.conf = ApplyUpdate(@, params)]
                /\ restart' = (restart \/ NeedRestart(params))
                /\ written' = IF params = <<>> THEN written ELSE written \o Considered(message)
                /\ UNCHANGED <<pc, todo>>
    /\ UNCHANGED <<launch, proc, packets, now>>

(***************************************************************************)
(* A capture at work: packets and timers.                                  *)
(***************************************************************************)
\* the first time a moment is known, both milestones are set
Milestones(t, conf, moment) ==
    IF t.next_output # 0 \/ moment = 0 THEN t
    ELSE [t EXCEPT !.next_stat = moment + conf["stats-period"], !.next_output = moment + conf["output.cache-period"],
                   !.first = moment]

\* Mutant: the milestone stays where it is
StatTimerStuck(t, conf, moment) == IF moment > t.next_stat THEN [t EXCEPT !.stats = @ + 1] ELSE t

\* worker_on_timer_stat_period: one period further, however late it is
StatTimer(t, conf, moment) ==
    IF moment > t.next_stat THEN [t EXCEPT !.next_stat = @ + conf["stats-period"], !.stats = @ + 1] ELSE t

\* worker_on_timer_sample_file_period, for sampled files only
SampleTimer(t, conf, moment) ==
    IF conf["file-output.sample-file"] /\ moment > t.next_output
    THEN [t EXCEPT !.next_output = @ + conf["output.cache-period"], !.samples = @ + 1]
    ELSE t

\* the end of _got_a_packet and of _got_a_line, on the thread that reads: files are sampled by workers in SMP mode
ReaderTimers(t, conf, moment) ==
    LET s == StatTimer(Milestones(t, conf, moment), conf, moment)
    IN  IF SmpMode(conf) THEN s ELSE SampleTimer(s, conf, moment)

\* _worker_thread: the step that sets the milestones does nothing else
WorkerTimers(t, conf, moment) ==
    IF t.next_output = 0 THEN Milestones(t, conf, moment)
    ELSE SampleTimer(StatTimer(t, conf, moment), conf, moment)

\* the handlers that the first packet of a session meets: IP in GTP, then the application that
\* DPI found above it
Analyse(conf, app) ==
    LET st == [app_type |-> "IP", app |-> NoApp]
        on(name) == conf["session-report.enable"] /\ conf[SessionReport(name)]
        gtp == IF on("gtp") THEN GtpIpSrc(st, 4, 1) ELSE st
    IN  CASE app = "http" /\ on("http") -> WebSession(gtp)
          [] app = "ssl" /\ on("ssl") -> SslServerName(gtp, TRUE)
          [] app = "rtp" /\ on("rtp") -> RtpPacket(gtp, [jitter |-> 0, loss |-> 0, order |-> 0, burst |-> 0])
          [] OTHER -> gtp

\* DPDK captures otherwise: module DpdkCapture
Capturing == Running /\ proc.state = "run" /\ Build.capture # "DPDK"
Ran(p, app) == IF Analyse(p.conf, app).app_type = "exit" THEN [p EXCEPT !.state = "impossible"] ELSE p

\* a packet in the reading thread: handed to a worker in SMP mode, else analysed at once
GotAPacket(app) ==
    /\ Capturing /\ Build.capture = "PCAP" /\ packets < MaxPackets
    /\ packets' = packets + 1
    /\ LET p == [proc EXCEPT !.reader = ReaderTimers(@, proc.conf, now)]
       IN  proc' = IF SmpMode(proc.conf) THEN p ELSE Ran(p, app)
    /\ UNCHANGED <<launch, pc, memory, todo, restart, written, updates, now>>

\* _got_a_line: a line of a stream, always by the only thread
GotALine(app) ==
    /\ Capturing /\ Build.capture = "STREAM" /\ packets < MaxPackets
    /\ packets' = packets + 1
    /\ proc' = Ran([proc EXCEPT !.reader = ReaderTimers(@, proc.conf, now)], app)
    /\ UNCHANGED <<launch, pc, memory, todo, restart, written, updates, now>>

\* online, no packet: _got_a_packet is called for the timers only
GotNothing ==
    /\ Capturing /\ proc.conf["input.mode"] = "ONLINE"
    /\ proc' = [proc EXCEPT !.reader = ReaderTimers(@, proc.conf, now)]
    /\ UNCHANGED <<launch, pc, memory, todo, restart, written, updates, packets, now>>

\* one turn of _worker_thread, with a packet in its ring or none
WorkerTurn(app) ==
    /\ Capturing /\ SmpMode(proc.conf) /\ packets > 0
    /\ LET p == [proc EXCEPT !.worker = WorkerTimers(@, proc.conf, now)]
       IN  proc' = Ran(p, app)
    /\ UNCHANGED <<launch, pc, memory, todo, restart, written, updates, packets, now>>

\* stream_capture.c: there is no more line; the worker is stopped and released
EndOfStream ==
    /\ Capturing /\ Build.capture = "STREAM"
    /\ Ends("success") /\ proc' = NoProcess
    /\ UNCHANGED <<launch, restart, updates, packets, now>>

Tick ==
    /\ Running /\ \E d \in 1..MaxStep : now' = now + d /\ now' <= MaxTime
    /\ UNCHANGED <<launch, pc, memory, todo, proc, restart, written, updates, packets>>

\* Ctrl+C, the end of a file, or a handler that finds the impossible: the capture ends,
\* conf_release frees the configuration
Stop ==
    /\ Running
    /\ Ends("success") /\ proc' = NoProcess
    /\ UNCHANGED <<launch, restart, updates, packets, now>>

Next ==
    \/ PrintAndExit \/ LoadConfiguration \/ SkipOption \/ OverrideInput \/ OverrideOption \/ Validate
    \/ Start \/ Restart \/ \E m \in Messages : Update(m)
    \/ \E a \in {"http", "ssl", "rtp"} : GotAPacket(a) \/ GotALine(a) \/ WorkerTurn(a)
    \/ GotNothing \/ EndOfStream \/ Tick \/ Stop

Spec == Init /\ [][Next]_vars

(***************************************************************************)
(* Properties.                                                             *)
(***************************************************************************)
\* parameters whose text means another thing when it is an override: a directory gets no
\* "/", two enumerations are overridden by number, the list of protocols is never applied
FileOnly == {p \in Parameters : TypeTable[p] \in {"dir", "format", "sockettype", "list"}}

\* What the tables of the two ways to give a parameter, the file and the override, have in
\* common.  The names in them are joined from two parts: TLC evaluates this, and the proofs,
\* which know nothing about the characters of a string, cite it
ASSUME TablesAgree ==
    /\ \A p \in {"stats-period", "output.cache-period", "input.snap-len", "system-report.period", "dump-pcap.period",
                 "micro-flows.report-byte-count", "micro-flows.byte-threshold"} \cup Timeouts :
           p \in Parameters /\ TypeTable[p] = "int"
    /\ Timeouts \cap Narrow = {}
    /\ {"input.source", "input.mode", "session-report.enable"} \subseteq Parameters
    /\ TypeTable["input.source"] = "str" /\ TypeTable["input.mode"] = "mode" /\ TypeTable["session-report.enable"] = "bool"
    /\ \A a \in {"gtp", "http", "ssl", "rtp"} : SessionReport(a) \in Parameters /\ TypeTable[SessionReport(a)] = "bool"
    /\ \A i \in Idents : (Field(i) \in Parameters \ FileOnly /\ i # "system-report.output-channel") =>
           /\ \/ TypeTable[Field(i)] = "bool" /\ DataTypes[i] = "BOOL"
              \/ TypeTable[Field(i)] \in {"int", "mode", "rtt"} /\ DataTypes[i] \in {"UINT16_T", "UINT32_T"}
              \/ TypeTable[Field(i)] = "str" /\ DataTypes[i] = "CHAR_STAR"
              \/ TypeTable[Field(i)] = "channels" /\ DataTypes[i] = "LIST"
           /\ TypeTable[Field(i)] = "mode" <=> i = "input.mode"
           /\ TypeTable[Field(i)] = "rtt" <=> i = "session-report.rtt-base"
           /\ i \notin {"dump-pcap.protocols", "output.format", "socket-output.type"}

\* The last of the texts w that were accepted for a parameter, and what it would mean in the file
LastWrite(w, p) ==
    LET at == {i \in DOMAIN w : Field(w[i].ident) = p}
    IN  IF at = {} THEN {} ELSE {w[CHOOSE i \in at : \A j \in at : j <= i]}
FileRead == IF Parsed(launch.files[1]) THEN launch.files[1] ELSE launch.files[2]
Expected(w, p) ==
    IF LastWrite(w, p) = {} THEN {Loaded(FileRead, p)}
    ELSE {v \in FileValues(TypeTable[p], The(LastWrite(w, p)).text) : The(LastWrite(w, p)).text # ""}

\* 0 in these is replaced by a default, in the file or when it is validated
ZeroIsDefault == Timeouts \cup {"micro-flows.report-byte-count", "micro-flows.byte-threshold", "dump-pcap.period",
                                "input.snap-len", "system-report.period"}

\* A value of the parameter that comes from v
Matches(p, value, v) ==
    \/ TypeTable[p] # "int" /\ value = v
    \/ TypeTable[p] = "int" /\ (value = Narrowed(p, v) \/ (Narrowed(p, v) = 0 /\ p \in ZeroIsDefault))

\* The process runs as configured: unless a restart is under way, every parameter has the
\* value that the last accepted text for it (in an option or in a client's update, however
\* many parameters that update carried, up to the room the monitor has) would have in the
\* file, or else the value of the file.  Nothing is said of a parameter whose last text is
\* empty: such an option is announced as ignored, and is applied.
\* And the handlers of two applications never meet in one session ("Impossible" in
\* session_report_web.c) unless an update, which is not validated, enabled both.
RunsAsConfigured ==
    /\ (Running /\ proc.state = "run" /\ ~restart) =>
           \A p \in Parameters \ FileOnly : \A v \in Expected(written, p) : Matches(p, proc.conf[p], v)
    /\ (Running /\ proc.state = "impossible") => \E i \in DOMAIN written : written[i].update

\* The periods of the configuration the process was started with are kept by both threads:
\* after n reports on statistics more than n periods have gone by since the first packet, however
\* large the gaps between packets are, and so have the periods of the sampling of files.
PeriodsKept ==
    (Running /\ proc.state = "run") =>
        \A t \in {proc.reader, proc.worker} :
            /\ t.stats > 0 => t.first + t.stats * proc.conf["stats-period"] < now
            /\ t.samples > 0 => t.first + t.samples * proc.conf["output.cache-period"] < now
=============================================================================
