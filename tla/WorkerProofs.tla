---------------------------- MODULE WorkerProofs ----------------------------
(***************************************************************************)
(* Proofs about Worker: the dump files, the forwarding of packets, the     *)
(* files rebuilt from HTTP, the lists of unacknowledged TCP packets and    *)
(* the packets reported, for any configurations, sessions, packets and     *)
(* limits.                                                                 *)
(***************************************************************************)
EXTENDS Worker, SumProofs, SequenceTheorems

\* The names of the dump files grow, the last one lies a period behind the due
\* date of the next, and when no file is open because one could not be opened,
\* that date has passed.
DumpInv ==
    /\ dump_file \in Int /\ next_ts \in Int /\ newest \in Int /\ names \in Seq(Int)
    /\ newest >= Jitter
    /\ \A j \in 1 .. Len(names) :
          /\ names[j] + Frequency <= next_ts
          /\ \A i \in 1 .. j - 1 : names[i] < names[j]
          /\ phase # "closed" /\ dump_file = NoDump => next_ts < newest

\* A new file: its name is the newest.
LEMMA NewDump ==
    ASSUME DumpInv, phase # "closed", NEW ts \in Int, ts >= newest - Jitter, dump_file = NoDump \/ ts > next_ts,
           names' = Append(names, ts), dump_file' = ts, next_ts' = ts + Frequency,
           newest' = IF ts > newest THEN ts ELSE newest
    PROVE  DumpInv'
<1> DEFINE n == Len(names)
<1>1. /\ Frequency \in Nat /\ Jitter \in Nat /\ Jitter <= Frequency
      /\ dump_file \in Int /\ next_ts \in Int /\ newest \in Int /\ newest >= Jitter
      /\ names \in Seq(Int) /\ n \in Nat
  BY PcapDumpAssumption DEF DumpInv
<1>2. /\ names' \in Seq(Int) /\ Len(names') = n + 1 /\ names'[n + 1] = ts
      /\ \A i \in 1 .. n : names'[i] = names[i] /\ names[i] \in Int
  BY <1>1
<1>3. \A j \in 1 .. n : /\ names[j] + Frequency <= next_ts
                        /\ \A i \in 1 .. j - 1 : names[i] < names[j]
                        /\ dump_file = NoDump => next_ts < newest
  BY DEF DumpInv
<1>4. ts # NoDump
  BY <1>1 DEF NoDump
<1>5. \A j \in 1 .. n : names[j] < ts /\ names[j] + Frequency <= ts + Frequency
  <2> SUFFICES ASSUME NEW j \in 1 .. n PROVE names[j] < ts /\ names[j] + Frequency <= ts + Frequency
    OBVIOUS
  <2>1. names[j] \in Int /\ names[j] + Frequency <= next_ts /\ (dump_file = NoDump => next_ts < newest)
    BY <1>2, <1>3
  <2> QED
    BY <1>1, <2>1
<1> HIDE DEF n
<1>6. ASSUME NEW j \in 1 .. n + 1
      PROVE  names'[j] + Frequency <= ts + Frequency /\ \A i \in 1 .. j - 1 : names'[i] < names'[j]
  <2>1. CASE j \in 1 .. n
    <3>1. \A i \in 1 .. j - 1 : i \in 1 .. n
      BY <1>1, <2>1
    <3> QED
      BY <1>2, <1>3, <1>5, <2>1, <3>1
  <2>2. CASE j = n + 1
    <3>1. \A i \in 1 .. j - 1 : i \in 1 .. n
      BY <1>1, <2>2
    <3>2. names'[j] = ts /\ ts + Frequency <= ts + Frequency
      BY <1>1, <1>2, <2>2
    <3> QED
      BY <1>2, <1>5, <3>1, <3>2
  <2>3. j \in 1 .. n \/ j = n + 1
    BY <1>1
  <2> QED
    BY <2>1, <2>2, <2>3
<1>7. newest' \in Int /\ newest' >= Jitter /\ next_ts' \in Int
  BY <1>1
<1> QED
  BY <1>2, <1>4, <1>6, <1>7 DEF DumpInv

\* A packet, dumped or not, whether or not its file could be opened.
LEMMA DumpPacketInv ==
    ASSUME DumpInv, phase # "closed", phase' = phase, NEW ts \in newest - Jitter .. MaxTime, NEW path, NEW protocols,
           DumpPacket(ts, path, protocols)
    PROVE  DumpInv'
<1>1. /\ Jitter \in Nat /\ ts \in Int /\ newest \in Int /\ next_ts \in Int /\ ts >= newest - Jitter
      /\ newest' = IF ts > newest THEN ts ELSE newest
  BY PcapDumpAssumption DEF DumpInv, DumpPacket
<1>2. newest' \in Int /\ newest' >= newest /\ newest' >= ts
  BY <1>1
<1>3. CASE UNCHANGED <<dump_file, next_ts, names>>
  BY <1>1, <1>2, <1>3, PcapDumpAssumption DEF DumpInv
<1>4. CASE /\ dump_file = NoDump \/ ts > next_ts
           /\ names' = Append(names, ts) /\ dump_file' = ts /\ next_ts' = ts + Frequency
  BY <1>1, <1>4, NewDump
<1>5. CASE /\ dump_file = NoDump \/ ts > next_ts
           /\ dump_file' = NoDump /\ UNCHANGED <<next_ts, names>>
  BY <1>1, <1>2, <1>5, PcapDumpAssumption DEF DumpInv, NoDump
<1> QED
  BY <1>3, <1>4, <1>5 DEF DumpPacket, CreatePcapFile, NextFile

\* Every step of the worker keeps the order of the dump files.
LEMMA DumpStep == DumpInv /\ [Next]_vars => DumpInv'
<1> SUFFICES ASSUME DumpInv, [Next]_vars PROVE DumpInv'
  OBVIOUS
<1>1. CASE UNCHANGED dvars /\ (phase = "closed" => phase' = "closed")
  BY <1>1 DEF DumpInv, dvars
<1>2. ASSUME NEW s \in Sessions, Packet(s) PROVE DumpInv'
  <2>1. phase = "run" /\ phase' = phase
    BY <1>2 DEF Packet
  <2>2. CASE UNCHANGED dvars
    BY <1>1, <2>1, <2>2
  <2>3. CASE \E ts \in newest - Jitter .. MaxTime, path \in Paths : DumpPacket(ts, path, {"ip", "udp"})
    BY <2>1, <2>3, DumpPacketInv
  <2> QED
    BY <1>2, <2>2, <2>3 DEF Packet
<1>3. CASE Release
  BY <1>3 DEF Release, DumpStop, DumpInv, NoDump
<1>4. ASSUME NEW s \in Sessions, SessionEnds(s) PROVE DumpInv'
  BY <1>1, <1>4 DEF SessionEnds
<1>5. CASE NoSessionPacket \/ AttributeSeen \/ TimerStatPeriod \/ OnStop \/ SecurityStep \/ UNCHANGED vars
  BY <1>1, <1>5 DEF NoSessionPacket, AttributeSeen, TimerStatPeriod, OnStop, SecurityStep, vars
<1> QED
  BY <1>2, <1>3, <1>4, <1>5 DEF Next

\* At the start there are no dump files.
LEMMA DumpInitInv == Init => DumpInv
BY PcapDumpAssumption DEF Init, DumpStart, DumpInv, NoDump

(* pcap_dump.c: no dump file is opened a second time, although timestamps run *)
(* back by up to Jitter and files fail to open.                               *)
THEOREM DumpNeverOverwrites == Spec => []DumpNoOverwrite
<1>1. DumpInv => DumpNoOverwrite
  <2> SUFFICES ASSUME DumpInv, NEW i \in DOMAIN names, NEW j \in DOMAIN names, names[i] = names[j] PROVE i = j
    BY DEF DumpNoOverwrite
  <2>1. /\ names \in Seq(Int) /\ Len(names) \in Nat /\ DOMAIN names = 1 .. Len(names)
        /\ \A l \in 1 .. Len(names) : \A k \in 1 .. l - 1 : names[k] < names[l]
    BY DEF DumpInv
  <2>2. names[i] \in Int /\ i \in 1 .. Len(names) /\ j \in 1 .. Len(names)
    BY <2>1
  <2>3. ~(i \in 1 .. j - 1) /\ ~(j \in 1 .. i - 1)
    BY <2>1, <2>2
  <2> QED
    BY <2>1, <2>2, <2>3
<1> QED
  BY <1>1, DumpInitInv, DumpStep, PTL DEF Spec
-----------------------------------------------------------------------------
\* Between two packets all are decided on; within one, its copy and its mark are
\* its own and the default action has not been applied to it.
ForwardInv ==
    /\ secured \in Nat /\ nb_forwarded \in Nat /\ nb_dropped \in Nat
    /\ "forward" \in conf =>
         /\ decided \cap defaulted = {} /\ decided \cup defaulted \subseteq 1 .. secured
         /\ \A q \in 1 .. secured : q \in decided \cup defaulted \/ (q = secured /\ security_at # "idle")
         /\ security_at # "idle" =>
              /\ secured \notin defaulted /\ secured # 0
              /\ has_a_satisfied_rule <=> secured \in decided
              /\ packet_data.of = secured /\ packet_data.by \subseteq decided \cap {secured}
         /\ \A c \in injected : c.data.of = c.packet /\ c.data.by \subseteq decided \cap {c.packet}

\* The copies of a packet are a natural number.
LEMMA CopiesAreNumbers == \A p : SentCopies(p) \subseteq Nat
BY SecurityAssumption DEF SentCopies, DpdkCopies, ProtoCopies, PcapCopies, SctpCopies, UdpCopies

\* A packet comes in: everything before it is decided on, and its copy is fresh.
LEMMA PacketForwards ==
    ASSUME ForwardInv, security_at = "idle", NEW s, SecurityPacket(s, On("forward")), conf' = conf
    PROVE  ForwardInv'
<1>1. /\ secured' = secured + 1 /\ security_at' \in {"rules", "finish"}
      /\ IF On("forward") THEN BeforeRules ELSE UNCHANGED forwardvars
  BY DEF SecurityPacket
<1>2. CASE On("forward")
  <2>1. /\ packet_data' = [of |-> secured', by |-> {}] /\ has_a_satisfied_rule' = FALSE
        /\ UNCHANGED <<nb_forwarded, nb_dropped, decided, defaulted, injected>>
    BY <1>1, <1>2 DEF BeforeRules
  <2>2. "forward" \in conf /\ secured \in Nat /\ decided \cup defaulted \subseteq 1 .. secured
    BY <1>2 DEF ForwardInv, On
  <2>3. secured' \notin decided \cup defaulted /\ secured' \in Nat /\ secured' # 0
    BY <1>1, <2>2
  <2>4. decided' \cup defaulted' \subseteq 1 .. secured'
    BY <1>1, <2>1, <2>2
  <2>5. \A q \in 1 .. secured' : q \in decided' \cup defaulted' \/ q = secured'
    BY <1>1, <2>1, <2>2 DEF ForwardInv
  <2>6. has_a_satisfied_rule' <=> secured' \in decided'
    BY <2>1, <2>3
  <2> QED
    BY <1>1, <2>1, <2>2, <2>3, <2>4, <2>5, <2>6 DEF ForwardInv
<1>3. CASE ~On("forward")
  BY <1>1, <1>3 DEF ForwardInv, On, forwardvars
<1> QED
  BY <1>2, <1>3

\* Copies of packet_data that leave are copies of the packet in work.
LEMMA SendKeeps ==
    ASSUME ForwardInv, "forward" \in conf, security_at # "idle", NEW n \in Nat, Send(n)
    PROVE  /\ nb_forwarded' \in Nat
           /\ \A c \in injected' : c.data.of = c.packet /\ c.data.by \subseteq decided \cap {c.packet}
BY DEF ForwardInv, Send

\* A rule calls back: the packet is marked, and what the rule does touches the
\* copy of this packet only.
LEMMA VerdictForwards ==
    ASSUME ForwardInv, Verdict(On("forward")), conf' = conf
    PROVE  ForwardInv'
<1>1. security_at = "rules" /\ UNCHANGED <<security_at, secured>>
  BY DEF Verdict
<1>2. CASE AlertVerdict
  BY <1>1, <1>2 DEF AlertVerdict, ForwardInv, forwardvars
<1>3. CASE ForwardVerdict(On("forward")) /\ ~On("forward")
  BY <1>1, <1>3 DEF ForwardVerdict, ForwardInv, On, forwardvars
<1>4. CASE ForwardVerdict(On("forward")) /\ On("forward")
  <2>1. /\ has_a_satisfied_rule' = TRUE /\ decided' = decided \cup {secured} /\ defaulted' = defaulted
        /\ RuleAction /\ "forward" \in conf
    BY <1>4 DEF ForwardVerdict, On
  <2>2. /\ secured \in Nat /\ secured # 0 /\ secured \notin defaulted
        /\ decided \cap defaulted = {} /\ decided \cup defaulted \subseteq 1 .. secured
        /\ \A q \in 1 .. secured : q \in decided \cup defaulted \/ q = secured
        /\ packet_data.of = secured /\ packet_data.by \subseteq {secured}
        /\ nb_forwarded \in Nat /\ nb_dropped \in Nat
        /\ \A c \in injected : c.data.of = c.packet /\ c.data.by \subseteq decided \cap {c.packet}
    BY <1>1, <2>1 DEF ForwardInv
  <2>3. /\ decided' \cap defaulted' = {} /\ decided' \cup defaulted' \subseteq 1 .. secured
        /\ \A q \in 1 .. secured : q \in decided' \cup defaulted'
    BY <2>1, <2>2
  <2>4. /\ nb_forwarded' \in Nat /\ nb_dropped' \in Nat
        /\ \A c \in injected' : c.data.of = c.packet /\ c.data.by \subseteq decided' \cap {c.packet}
    <3>1. CASE UNCHANGED <<nb_forwarded, injected>> /\ nb_dropped' \in {nb_dropped, nb_dropped + 1}
      BY <2>1, <2>2, <3>1
    <3>2. CASE Forward
      <4>1. PICK n \in Nat : Send(n)
        BY <3>2, CopiesAreNumbers DEF Forward
      <4> QED
        BY <1>1, <2>1, <2>2, <3>2, <4>1, SendKeeps DEF Forward
    <3> QED
      BY <2>1, <3>1, <3>2 DEF RuleAction, DoNotForward, SetAttribute
  <2>5. packet_data'.of = secured /\ packet_data'.by \subseteq {secured}
    <3>1. CASE UNCHANGED packet_data
      BY <2>2, <3>1
    <3>2. CASE packet_data' = [packet_data EXCEPT !.by = @ \cup {secured}]
      BY <2>2, <3>2
    <3> QED
      BY <2>1, <3>1, <3>2 DEF RuleAction, DoNotForward, SetAttribute, Forward
  <2>6. has_a_satisfied_rule' <=> secured \in decided'
    BY <2>1
  <2> QED
    BY <1>1, <2>1, <2>2, <2>3, <2>4, <2>5, <2>6 DEF ForwardInv
<1> QED
  BY <1>2, <1>3, <1>4 DEF Verdict

\* The end of a packet: the default action is for those without a mark.
LEMMA FinishForwards ==
    ASSUME ForwardInv, SecurityFinish(On("forward")), conf' = conf
    PROVE  ForwardInv'
<1>1. security_at # "idle" /\ security_at' = "idle" /\ UNCHANGED secured
  BY DEF SecurityFinish
<1>2. CASE ~On("forward")
  BY <1>1, <1>2 DEF SecurityFinish, ForwardInv, On, forwardvars
<1>3. CASE On("forward")
  <2>1. AfterRules /\ "forward" \in conf /\ UNCHANGED decided
    BY <1>3 DEF SecurityFinish, AfterRules, On
  <2>2. CASE has_a_satisfied_rule
    BY <1>1, <2>1, <2>2 DEF AfterRules, ForwardInv
  <2>3. CASE ~has_a_satisfied_rule
    <3>1. defaulted' = defaulted \cup {secured} /\ secured \notin decided
      BY <1>1, <2>1, <2>3 DEF AfterRules, ForwardInv
    <3>2. /\ nb_forwarded' \in Nat /\ nb_dropped' \in Nat
          /\ \A c \in injected' : c.data.of = c.packet /\ c.data.by \subseteq decided \cap {c.packet}
      <4>1. CASE UNCHANGED <<nb_forwarded, injected>> /\ nb_dropped' = nb_dropped + 1
        BY <2>1, <4>1 DEF ForwardInv
      <4>2. ASSUME NEW n \in Nat, Send(n), nb_dropped' = IF n = 0 THEN nb_dropped + 1 ELSE nb_dropped
            PROVE  <3>2!:
        BY <1>1, <2>1, <4>2, SendKeeps DEF ForwardInv
      <4> QED
        BY <2>1, <2>3, <4>1, <4>2, CopiesAreNumbers DEF AfterRules
    <3> QED
      BY <1>1, <2>1, <3>1, <3>2 DEF ForwardInv
  <2> QED
    BY <2>2, <2>3
<1> QED
  BY <1>2, <1>3

\* Every step of the worker keeps the packets apart.
LEMMA ForwardStep == ForwardInv /\ [Next]_vars => ForwardInv'
<1> SUFFICES ASSUME ForwardInv, [Next]_vars PROVE ForwardInv'
  OBVIOUS
<1>1. ASSUME UNCHANGED <<conf, secvars>> PROVE ForwardInv'
  BY <1>1 DEF ForwardInv, secvars, forwardvars
<1>2. ASSUME NEW s \in Sessions, Packet(s), security_at = "idle" PROVE ForwardInv'
  <2>1. conf' = conf
    BY <1>2 DEF Packet, ReceivePacket
  <2> QED
    BY <1>1, <1>2, <2>1, PacketForwards DEF Packet
<1>3. CASE SecurityStep
  BY <1>3, VerdictForwards, FinishForwards DEF SecurityStep, svars
<1>4. ASSUME NEW s \in Sessions, SessionEnds(s) PROVE ForwardInv'
  BY <1>1, <1>4 DEF SessionEnds, EndSession
<1>5. CASE OnStop /\ security_at = "idle"
  <2>1. /\ conf' = conf /\ UNCHANGED <<security_at, secured>>
        /\ UNCHANGED <<nb_forwarded, nb_dropped, decided, defaulted, injected>>
    BY <1>5 DEF OnStop, SecurityRelease, ForwardRelease, StatPeriod, forwardvars
  <2> QED
    BY <1>5, <2>1 DEF ForwardInv
<1>6. CASE Release
  BY <1>1, <1>6 DEF Release, ReleaseReports
<1>7. CASE NoSessionPacket \/ AttributeSeen \/ TimerStatPeriod \/ UNCHANGED vars
  BY <1>1, <1>7 DEF NoSessionPacket, ReceiveNoSession, AttributeSeen, TimerStatPeriod, StatPeriod, vars, svars
<1> QED
  BY <1>2, <1>3, <1>4, <1>5, <1>6, <1>7 DEF Next

(* forward_packet.c: whatever rules call back and however often, a packet is  *)
(* left to the default action exactly when none of them was a FORWARD rule,   *)
(* and no mark and no byte of a packet reaches another one.                   *)
THEOREM PacketsForwardedIntact == Spec => []ForwardedIntact
<1>1. Init => ForwardInv
  BY DEF Init, SecurityInit, ForwardInit, ForwardInv
<1>2. ForwardInv => ForwardedIntact
  BY DEF ForwardInv, ForwardedIntact, On
<1> QED
  BY <1>1, <1>2, ForwardStep, PTL DEF Spec
-----------------------------------------------------------------------------
HttpFields == {"state", "name", "file", "data", "length", "encoding"}

\* The file of a session is open.
IsOpen(s) == http[s] # NoHttp /\ http[s].file # 0

\* What is kept of each session: the name of its file is the session's own.
HttpType ==
    /\ DOMAIN http = HttpSessions
    /\ \A s \in HttpSessions : http[s] # NoHttp => DOMAIN http[s] = HttpFields /\ http[s].name[1] = s
    /\ opened \in Nat
    /\ reports \in Seq({reports[i] : i \in DOMAIN reports})

\* Every file opened is either open or reported, in one session or in one report.
HttpIds ==
    /\ \A i \in DOMAIN reports : reports[i].id \in 1 .. opened
    /\ \A i, j \in DOMAIN reports : reports[i].id = reports[j].id => i = j
    /\ \A s \in HttpSessions : IsOpen(s) =>
          /\ http[s].file \in 1 .. opened
          /\ \A i \in DOMAIN reports : reports[i].id # http[s].file
          /\ \A t \in HttpSessions : IsOpen(t) /\ http[t].file = http[s].file => t = s
    /\ \A n \in 1 .. opened : \/ \E i \in DOMAIN reports : reports[i].id = n
                              \/ \E s \in HttpSessions : IsOpen(s) /\ http[s].file = n

\* No later report is about the same name.
IsLast(i) == \A j \in DOMAIN reports : reports[j].name = reports[i].name => j <= i

\* The file of an open session and the file of the last report of a name are there.
HttpFiles ==
    /\ \A s \in HttpSessions : IsOpen(s) => <<http[s].name, Form(http[s].encoding)>> \in disk
    /\ \A i \in DOMAIN reports : IsLast(i) =>
          /\ reports[i].status = "success" => <<reports[i].name, "plain">> \in disk
          /\ reports[i].status = "corrupted" => <<reports[i].name, "gzip">> \in disk

HttpInv == HttpType /\ HttpIds /\ HttpFiles

\* DPI ends the session of every file before the worker is released.
HttpLive ==
    /\ \A s \in HttpSessions : http[s] # NoHttp => s \in live
    /\ phase = "closed" => live = {}

\* Appending to a sequence whose elements have no type.
LEMMA AppendAny ==
    ASSUME NEW q, q \in Seq({q[i] : i \in DOMAIN q}), NEW e
    PROVE  LET r == Append(q, e)
               n == Len(q)
           IN  /\ n \in Nat /\ DOMAIN q = 1 .. n /\ Len(r) = n + 1 /\ DOMAIN r = 1 .. n + 1
               /\ r[n + 1] = e
               /\ \A i \in 1 .. n : r[i] = q[i]
               /\ r \in Seq({r[i] : i \in DOMAIN r})
<1> DEFINE S == {q[i] : i \in DOMAIN q} \cup {e}
           r == Append(q, e)
           n == Len(q)
<1>1. q \in Seq(S) /\ e \in S
  OBVIOUS
<1> HIDE DEF S
<1>2. /\ n \in Nat /\ DOMAIN q = 1 .. n /\ Len(r) = n + 1 /\ DOMAIN r = 1 .. n + 1
      /\ r[n + 1] = e /\ r \in Seq(S)
      /\ \A i \in 1 .. n : r[i] = q[i]
  BY <1>1
<1> HIDE DEF r
<1>3. r \in Seq({r[i] : i \in DOMAIN r})
  BY <1>2
<1> QED
  BY <1>2, <1>3 DEF r

\* A session whose file is not open is replaced by one whose file is not open.
LEMMA NoFileClosed ==
    ASSUME HttpInv, NEW s \in HttpSessions, ~IsOpen(s), NEW h, http' = [http EXCEPT ![s] = h],
           h = NoHttp \/ (DOMAIN h = HttpFields /\ h.name[1] = s /\ h.file = 0),
           UNCHANGED <<opened, disk, reports>>
    PROVE  HttpInv'
<1>1. HttpType'
  BY DEF HttpInv, HttpType
<1>2. \A t \in HttpSessions : (IsOpen(t)' <=> IsOpen(t)) /\ (t # s => http'[t] = http[t])
  BY DEF HttpInv, HttpType, IsOpen
<1>3. HttpIds'
  BY <1>2 DEF HttpInv, HttpIds, IsOpen
<1>4. HttpFiles'
  BY <1>2 DEF HttpInv, HttpFiles, IsLast, IsOpen
<1> QED
  BY <1>1, <1>3, <1>4 DEF HttpInv

\* The file of a session is closed and reported.
LEMMA FileClosed ==
    ASSUME HttpInv, NEW s \in HttpSessions, IsOpen(s), NEW ok \in BOOLEAN, Flush(http[s], ok),
           NEW h, http' = [http EXCEPT ![s] = h],
           h = NoHttp \/ (DOMAIN h = HttpFields /\ h.name[1] = s /\ h.file = 0),
           opened' = opened
    PROVE  HttpInv'
<1> DEFINE o == http[s]
           n == Len(reports)
           status == FlushStatus(o, ok)
           e == [id |-> o.file, name |-> o.name, status |-> status, encoding |-> o.encoding]
<1>1. reports' = Append(reports, e)
  BY DEF Flush, IsOpen
<1> HIDE DEF e
<1>2. /\ n \in Nat /\ DOMAIN reports = 1 .. n /\ DOMAIN reports' = 1 .. n + 1
      /\ reports'[n + 1] = e /\ (\A i \in 1 .. n : reports'[i] = reports[i])
      /\ reports' \in Seq({reports'[i] : i \in DOMAIN reports'})
  BY <1>1, AppendAny DEF HttpInv, HttpType
<1>3. e.id = o.file /\ e.name = o.name /\ e.status = status
  BY DEF e
<1>4. HttpType'
  BY <1>2 DEF HttpInv, HttpType
<1>5. \A t \in HttpSessions : (IsOpen(t)' <=> (IsOpen(t) /\ t # s)) /\ (t # s => http'[t] = http[t])
  BY DEF HttpInv, HttpType, IsOpen
<1>6. HttpIds'
  <2>1. /\ o.file \in 1 .. opened
        /\ \A i \in 1 .. n : reports[i].id # o.file /\ reports[i].id \in 1 .. opened
        /\ \A t \in HttpSessions : IsOpen(t) /\ http[t].file = o.file => t = s
    BY <1>2 DEF HttpInv, HttpIds
  <2>2. \A i \in 1 .. n + 1 : i \in 1 .. n \/ i = n + 1
    BY <1>2
  <2>3. \A i \in 1 .. n + 1 : reports'[i].id \in 1 .. opened'
    BY <1>2, <1>3, <2>1, <2>2
  <2>4. \A i, j \in 1 .. n + 1 : reports'[i].id = reports'[j].id => i = j
    <3>1. \A i, j \in 1 .. n : reports[i].id = reports[j].id => i = j
      BY <1>2 DEF HttpInv, HttpIds
    <3> QED
      BY <1>2, <1>3, <2>1, <2>2, <3>1
  <2>5. \A t \in HttpSessions : IsOpen(t)' =>
          /\ http'[t].file \in 1 .. opened
          /\ \A i \in 1 .. n + 1 : reports'[i].id # http'[t].file
          /\ \A u \in HttpSessions : IsOpen(u)' /\ http'[u].file = http'[t].file => u = t
    <3>1. \A t \in HttpSessions : IsOpen(t) =>
            /\ http[t].file \in 1 .. opened
            /\ \A i \in 1 .. n : reports[i].id # http[t].file
            /\ \A u \in HttpSessions : IsOpen(u) /\ http[u].file = http[t].file => u = t
      BY <1>2 DEF HttpInv, HttpIds
    <3> QED
      BY <1>2, <1>3, <1>5, <2>1, <2>2, <3>1
  <2>6. \A m \in 1 .. opened : \/ \E i \in 1 .. n + 1 : reports'[i].id = m
                               \/ \E t \in HttpSessions : IsOpen(t)' /\ http'[t].file = m
    <3> SUFFICES ASSUME NEW m \in 1 .. opened
                 PROVE  \/ \E i \in 1 .. n + 1 : reports'[i].id = m
                        \/ \E t \in HttpSessions : IsOpen(t)' /\ http'[t].file = m
      OBVIOUS
    <3>1. n + 1 \in 1 .. n + 1 /\ \A i \in 1 .. n : i \in 1 .. n + 1
      BY <1>2
    <3>2. \/ \E i \in 1 .. n : reports[i].id = m
          \/ \E t \in HttpSessions : IsOpen(t) /\ http[t].file = m
      BY <1>2 DEF HttpInv, HttpIds
    <3> QED
      BY <1>2, <1>3, <1>5, <3>1, <3>2
  <2> QED
    BY <1>2, <2>3, <2>4, <2>5, <2>6 DEF HttpIds
<1>7. /\ \A x : x[1] # o.name => (x \in disk' <=> x \in disk)
      /\ status = "success" => <<o.name, "plain">> \in disk'
      /\ status = "corrupted" => <<o.name, "gzip">> \in disk'
  <2>1. <<o.name, Form(o.encoding)>> \in disk
    BY DEF HttpInv, HttpFiles
  <2>2. disk' = IF o.encoding = "gzip" /\ status \in {"success", "corrupted"}
                THEN IF ok THEN (disk \cup {<<o.name, "plain">>}) \ {<<o.name, "gzip">>}
                           ELSE disk \ {<<o.name, "plain">>}
                ELSE disk
    BY DEF Flush, ZipDecode, IsOpen
  <2>3. /\ status = "success" => o.encoding = "none" \/ (o.encoding = "gzip" /\ ok)
        /\ status = "corrupted" => o.encoding = "gzip" /\ ~ok
    BY DEF FlushStatus
  <2> HIDE DEF status, o
  <2>4. \A x : x[1] # o.name => (x \in disk' <=> x \in disk)
    BY <2>2
  <2>5. status = "success" => <<o.name, "plain">> \in disk'
    BY <2>1, <2>2, <2>3 DEF Form
  <2>6. status = "corrupted" => <<o.name, "gzip">> \in disk'
    BY <2>1, <2>2, <2>3 DEF Form
  <2> QED
    BY <2>4, <2>5, <2>6
<1>8. HttpFiles'
  <2>1. \A t \in HttpSessions : IsOpen(t)' => <<http'[t].name, Form(http'[t].encoding)>> \in disk'
    <3> SUFFICES ASSUME NEW t \in HttpSessions, IsOpen(t)'
                 PROVE  <<http'[t].name, Form(http'[t].encoding)>> \in disk'
      OBVIOUS
    <3>1. http'[t] = http[t] /\ IsOpen(t) /\ t # s
      BY <1>5
    <3>2. http[t].name # o.name
      BY <3>1 DEF HttpInv, HttpType, IsOpen
    <3>3. <<http[t].name, Form(http[t].encoding)>> \in disk
      BY <3>1 DEF HttpInv, HttpFiles
    <3>4. <<http[t].name, Form(http[t].encoding)>>[1] # o.name
      BY <3>2
    <3> QED
      BY <1>7, <3>1, <3>3, <3>4
  <2>2. ASSUME NEW i \in 1 .. n + 1, IsLast(i)'
        PROVE  /\ reports'[i].status = "success" => <<reports'[i].name, "plain">> \in disk'
               /\ reports'[i].status = "corrupted" => <<reports'[i].name, "gzip">> \in disk'
    <3>1. CASE i = n + 1
      BY <1>2, <1>3, <1>7, <3>1
    <3>2. CASE i \in 1 .. n
      <4>1. reports'[i] = reports[i] /\ n + 1 \in 1 .. n + 1 /\ ~(n + 1 <= i) /\ \A j \in 1 .. n : j \in 1 .. n + 1
        BY <1>2, <3>2
      <4>2. reports[i].name # o.name
        BY <1>2, <1>3, <2>2, <4>1 DEF IsLast
      <4>3. IsLast(i)
        BY <1>2, <2>2, <4>1, <3>2 DEF IsLast
      <4>4. /\ reports[i].status = "success" => <<reports[i].name, "plain">> \in disk
            /\ reports[i].status = "corrupted" => <<reports[i].name, "gzip">> \in disk
        BY <1>2, <3>2, <4>3 DEF HttpInv, HttpFiles
      <4>5. \A f : <<reports[i].name, f>>[1] # o.name
        BY <4>2
      <4> QED
        BY <1>7, <4>1, <4>4, <4>5
    <3>3. i = n + 1 \/ i \in 1 .. n
      BY <1>2
    <3> QED
      BY <3>1, <3>2, <3>3
  <2> QED
    BY <1>2, <2>1, <2>2 DEF HttpFiles
<1> QED
  BY <1>4, <1>6, <1>8 DEF HttpInv

\* The answer opens the file of a session.
LEMMA FileOpened ==
    ASSUME HttpInv, NEW s \in HttpSessions, http[s] # NoHttp, http[s].file = 0, NEW answer, CreateFile(s, answer),
           UNCHANGED reports
    PROVE  HttpInv'
<1> DEFINE k == opened + 1
           x == <<http[s].name, Form(answer.encoding)>>
<1>1. /\ opened \in Nat /\ k \in Nat /\ opened' = k /\ k \in 1 .. k /\ k \notin 1 .. opened
      /\ \A m \in 1 .. k : m \in 1 .. opened \/ m = k
      /\ \A m \in 1 .. opened : m \in 1 .. k
  BY DEF HttpInv, HttpType, CreateFile
<1>2. /\ DOMAIN http' = HttpSessions /\ DOMAIN http'[s] = HttpFields
      /\ http'[s].file = k /\ http'[s].name = http[s].name /\ http'[s].encoding = answer.encoding
      /\ \A t \in HttpSessions : t # s => http'[t] = http[t]
  BY DEF HttpInv, HttpType, HttpFields, CreateFile
<1>3. http'[s] # NoHttp
  BY <1>2 DEF NoHttp, HttpFields
<1>4. disk' = disk \cup {x}
  BY DEF CreateFile
<1> HIDE DEF k
<1>5. HttpType'
  BY <1>1, <1>2 DEF HttpInv, HttpType
<1>6. k # 0
  BY <1>1
<1>7. \A t \in HttpSessions : IsOpen(t)' <=> (IsOpen(t) \/ t = s)
  BY <1>2, <1>3, <1>6 DEF IsOpen
<1>8. HttpIds'
  <2>1. /\ \A i \in DOMAIN reports : reports'[i].id = reports[i].id /\ reports[i].id \in 1 .. opened
        /\ \A t \in HttpSessions : IsOpen(t) => http[t].file \in 1 .. opened /\ t # s
    BY DEF HttpInv, HttpIds, IsOpen
  <2>2. \A i \in DOMAIN reports' : reports'[i].id \in 1 .. opened'
    BY <1>1, <2>1
  <2>3. \A i, j \in DOMAIN reports' : reports'[i].id = reports'[j].id => i = j
    BY DEF HttpInv, HttpIds
  <2>4. ASSUME NEW t \in HttpSessions, IsOpen(t)'
        PROVE  /\ http'[t].file \in 1 .. opened'
               /\ \A i \in DOMAIN reports' : reports'[i].id # http'[t].file
               /\ \A u \in HttpSessions : IsOpen(u)' /\ http'[u].file = http'[t].file => u = t
    <3>1. \A u \in HttpSessions : IsOpen(u) =>
            /\ \A i \in DOMAIN reports : reports[i].id # http[u].file
            /\ \A w \in HttpSessions : IsOpen(w) /\ http[w].file = http[u].file => w = u
      BY DEF HttpInv, HttpIds
    <3> QED
      BY <1>1, <1>2, <1>7, <2>1, <2>4, <3>1
  <2>5. ASSUME NEW m \in 1 .. opened'
        PROVE  \/ \E i \in DOMAIN reports' : reports'[i].id = m
               \/ \E t \in HttpSessions : IsOpen(t)' /\ http'[t].file = m
    <3>1. CASE m = k
      BY <1>2, <1>7, <3>1
    <3>2. CASE m \in 1 .. opened
      <4>1. \/ \E i \in DOMAIN reports : reports[i].id = m
            \/ \E t \in HttpSessions : IsOpen(t) /\ http[t].file = m
        BY <3>2 DEF HttpInv, HttpIds
      <4> QED
        BY <1>2, <1>7, <2>1, <4>1
    <3> QED
      BY <1>1, <2>5, <3>1, <3>2
  <2> QED
    BY <2>2, <2>3, <2>4, <2>5 DEF HttpIds
<1>9. HttpFiles'
  <2>1. \A t \in HttpSessions : IsOpen(t)' => <<http'[t].name, Form(http'[t].encoding)>> \in disk'
    BY <1>2, <1>4, <1>7 DEF HttpInv, HttpFiles
  <2>2. \A i \in DOMAIN reports : IsLast(i)' => IsLast(i)
    BY DEF IsLast
  <2> QED
    BY <1>4, <2>1, <2>2 DEF HttpInv, HttpFiles
<1> QED
  BY <1>5, <1>8, <1>9 DEF HttpInv

\* Data is appended to the file of a session.
LEMMA DataAppended ==
    ASSUME HttpInv, NEW s \in HttpSessions, IsOpen(s), NEW data, http' = [http EXCEPT ![s].data = data],
           UNCHANGED <<opened, disk, reports>>
    PROVE  HttpInv'
<1>1. /\ DOMAIN http' = HttpSessions /\ DOMAIN http'[s] = HttpFields
      /\ http'[s].file = http[s].file /\ http'[s].name = http[s].name /\ http'[s].encoding = http[s].encoding
      /\ \A t \in HttpSessions : t # s => http'[t] = http[t]
  BY DEF HttpInv, HttpType, HttpFields, IsOpen
<1>2. http'[s] # NoHttp
  BY <1>1 DEF NoHttp, HttpFields
<1>3. \A t \in HttpSessions : /\ IsOpen(t)' <=> IsOpen(t)
                              /\ http'[t].file = http[t].file /\ http'[t].name = http[t].name
                              /\ http'[t].encoding = http[t].encoding
  BY <1>1, <1>2 DEF IsOpen
<1>4. HttpType'
  BY <1>1, <1>3 DEF HttpInv, HttpType, IsOpen
<1>5. HttpIds'
  BY <1>3 DEF HttpInv, HttpIds
<1>6. HttpFiles'
  BY <1>3 DEF HttpInv, HttpFiles, IsLast
<1> QED
  BY <1>4, <1>5, <1>6 DEF HttpInv

\* The three ways to close a file: whatever is left is flushed and replaced.
LEMMA FlushKeeps ==
    ASSUME HttpInv, NEW s \in HttpSessions, NEW ok \in BOOLEAN, Flush(http[s], ok),
           NEW h, http' = [http EXCEPT ![s] = h],
           h = NoHttp \/ (DOMAIN h = HttpFields /\ h.name[1] = s /\ h.file = 0), opened' = opened
    PROVE  HttpInv'
<1>1. CASE IsOpen(s)
  BY <1>1, FileClosed
<1>2. CASE ~IsOpen(s)
  <2>1. UNCHANGED <<disk, reports>>
    BY <1>2 DEF Flush, IsOpen
  <2> QED
    BY <1>2, <2>1, NoFileClosed
<1> QED
  BY <1>1, <1>2

\* One attribute of an HTTP packet.
LEMMA HttpAttributeInv ==
    ASSUME HttpInv, NEW s \in HttpSessions, HttpAttribute(s)
    PROVE  HttpInv'
<1>1. ASSUME NEW uri \in Uris, NEW ok \in BOOLEAN, HttpMethod(s, uri, ok) PROVE HttpInv'
  <2> DEFINE h == [state |-> "requested", name |-> FileName(s, uri), file |-> 0,
                   data |-> 0, length |-> 0, encoding |-> "none"]
  <2>1. DOMAIN h = HttpFields /\ h.name[1] = s /\ h.file = 0
    BY DEF HttpFields, FileName
  <2>2. http' = [http EXCEPT ![s] = h] /\ Flush(http[s], ok) /\ opened' = opened
    BY <1>1 DEF HttpMethod
  <2> HIDE DEF h
  <2> QED
    BY <2>1, <2>2, FlushKeeps
<1>2. ASSUME NEW answer \in Answers, HttpResponse(s, answer) PROVE HttpInv'
  <2>1. CASE UNCHANGED <<http, disk, opened, reports>>
    BY <2>1 DEF HttpInv, HttpType, HttpIds, HttpFiles, IsLast, IsOpen
  <2>2. CASE http[s] # NoHttp /\ http[s].file = 0 /\ CreateFile(s, answer) /\ UNCHANGED reports
    BY <2>2, FileOpened
  <2>3. CASE http[s] # NoHttp /\ http[s].file = 0 /\ CreateFileFails(s, answer) /\ UNCHANGED reports
    <3> DEFINE h == [http[s] EXCEPT !.name = <<s, http[s].name>>, !.length = answer.length,
                                   !.encoding = answer.encoding]
    <3>1. http' = [http EXCEPT ![s] = h] /\ UNCHANGED <<opened, disk, reports>>
      BY <2>3 DEF CreateFileFails
    <3>2. DOMAIN http[s] = HttpFields
      BY <2>3 DEF HttpInv, HttpType
    <3>3. DOMAIN h = HttpFields /\ h.name[1] = s /\ h.file = 0
      BY <2>3, <3>2 DEF HttpFields
    <3>4. ~IsOpen(s)
      BY <2>3 DEF IsOpen
    <3> HIDE DEF h
    <3> QED
      BY <3>1, <3>3, <3>4, NoFileClosed
  <2> QED
    BY <1>2, <2>1, <2>2, <2>3 DEF HttpResponse
<1>3. ASSUME NEW from_server \in BOOLEAN, HttpData(s, 1, from_server) PROVE HttpInv'
  <2>1. CASE UNCHANGED <<http, disk, opened, reports>>
    BY <2>1 DEF HttpInv, HttpType, HttpIds, HttpFiles, IsLast, IsOpen
  <2>2. CASE IsOpen(s) /\ http' = [http EXCEPT ![s].data = @ + 1] /\ UNCHANGED <<disk, opened, reports>>
    BY <2>2, DataAppended
  <2> QED
    BY <1>3, <2>1, <2>2 DEF HttpData, IsOpen
<1>4. ASSUME NEW ok \in BOOLEAN, HttpEndMessage(s, ok) PROVE HttpInv'
  <2>1. CASE UNCHANGED <<http, disk, opened, reports>>
    BY <2>1 DEF HttpInv, HttpType, HttpIds, HttpFiles, IsLast, IsOpen
  <2>2. CASE http' = [http EXCEPT ![s] = NoHttp] /\ Flush(http[s], ok) /\ opened' = opened
    BY <2>2, FlushKeeps
  <2> QED
    BY <1>4, <2>1, <2>2 DEF HttpEndMessage
<1> QED
  BY <1>1, <1>2, <1>3, <1>4 DEF HttpAttribute

\* Every step of the worker keeps what is known of the files.
LEMMA HttpStep == HttpInv /\ HttpLive /\ [Next]_vars => HttpInv' /\ HttpLive'
<1> SUFFICES ASSUME HttpInv, HttpLive, [Next]_vars PROVE HttpInv' /\ HttpLive'
  OBVIOUS
<1>1. ASSUME UNCHANGED <<http, disk, opened, reports>> PROVE HttpInv'
  BY <1>1 DEF HttpInv, HttpType, HttpIds, HttpFiles, IsLast, IsOpen
<1>2. ASSUME UNCHANGED <<http, disk, opened, reports, live>>, phase' = "closed" => live = {}
      PROVE  HttpInv' /\ HttpLive'
  BY <1>1, <1>2 DEF HttpLive
<1>3. ASSUME NEW s \in Sessions, Packet(s) PROVE HttpInv' /\ HttpLive'
  <2>1. s \in HttpSessions /\ live' = live \cup {s} /\ phase' = "run"
    BY <1>3, SessionsAssumption DEF Packet, ReceivePacket
  <2>2. CASE HttpAttribute(s)
    <3>1. \A t \in HttpSessions : t # s => http'[t] = http[t]
      BY <2>2 DEF HttpAttribute, HttpMethod, HttpResponse, CreateFile, CreateFileFails, HttpData, HttpEndMessage,
                  HttpInv, HttpType
    <3>2. HttpLive'
      BY <2>1, <3>1 DEF HttpLive
    <3> QED
      BY <2>1, <2>2, <3>2, HttpAttributeInv
  <2>3. CASE FtpPacket(s) \/ UNCHANGED hvars
    <3>1. UNCHANGED <<http, disk, opened, reports>>
      BY <2>3 DEF FtpPacket, FtpData, hvars
    <3> QED
      BY <1>1, <2>1, <3>1 DEF HttpLive
  <2> QED
    BY <1>3, <2>2, <2>3 DEF Packet
<1>4. ASSUME NEW s \in Sessions, SessionEnds(s) PROVE HttpInv' /\ HttpLive'
  <2>1. PICK ok \in BOOLEAN : Flush(http[s], ok)
    BY <1>4 DEF SessionEnds, HttpEndSession
  <2>2. /\ s \in HttpSessions /\ live' = live \ {s} /\ phase' \in {"run", "stopped"}
        /\ http' = [http EXCEPT ![s] = NoHttp] /\ opened' = opened
    BY <1>4, SessionsAssumption DEF SessionEnds, EndSession, HttpEndSession
  <2>3. HttpInv'
    BY <2>1, <2>2, FlushKeeps
  <2>4. HttpLive'
    BY <2>2 DEF HttpLive, HttpInv, HttpType
  <2> QED
    BY <2>3, <2>4
<1>5. CASE OnStop
  BY <1>2, <1>5 DEF OnStop, StatPeriod, hvars
<1>6. CASE Release
  BY <1>2, <1>6 DEF Release, ReleaseReports, hvars
<1>7. CASE NoSessionPacket \/ AttributeSeen \/ TimerStatPeriod \/ SecurityStep \/ UNCHANGED vars
  BY <1>2, <1>7 DEF NoSessionPacket, ReceiveNoSession, AttributeSeen, TimerStatPeriod, SecurityStep, StatPeriod,
                    HttpLive, vars, svars, hvars
<1> QED
  BY <1>3, <1>4, <1>5, <1>6, <1>7 DEF Next

\* Reports that name every file once are as many as the files.
LEMMA ReportsCount ==
    ASSUME HttpInv, \A s \in HttpSessions : http[s] = NoHttp
    PROVE  Len(reports) = opened
<1> DEFINE n == Len(reports)
           f == [i \in 1 .. n |-> reports[i].id]
<1>1. n \in Nat /\ DOMAIN reports = 1 .. n /\ opened \in Nat
  BY AppendAny DEF HttpInv, HttpType
<1>2. f \in Bijection(1 .. n, 1 .. opened)
  <2>1. f \in [1 .. n -> 1 .. opened]
    BY <1>1 DEF HttpInv, HttpIds
  <2>2. \A i, j \in 1 .. n : f[i] = f[j] => i = j
    BY <1>1 DEF HttpInv, HttpIds
  <2>3. \A m \in 1 .. opened : \E i \in 1 .. n : f[i] = m
    BY <1>1 DEF HttpInv, HttpIds, IsOpen
  <2> QED
    BY <2>1, <2>2, <2>3 DEF Bijection, Injection, IsInjective, Surjection
<1>3. IsFiniteSet(1 .. n) /\ Cardinality(1 .. n) = n /\ Cardinality(1 .. opened) = opened
  <2>1. \A m \in Nat : IsFiniteSet(1 .. m) /\ Cardinality(1 .. m) = m
    <3> SUFFICES ASSUME NEW m \in Nat PROVE IsFiniteSet(1 .. m) /\ Cardinality(1 .. m) = m
      OBVIOUS
    <3>1. Cardinality(1 .. m) = (IF 1 > m THEN 0 ELSE m - 1 + 1) /\ IsFiniteSet(1 .. m)
      BY FS_Interval
    <3> QED
      BY <3>1
  <2> QED
    BY <1>1, <2>1
<1>4. Cardinality(1 .. n) = Cardinality(1 .. opened)
  BY <1>2, <1>3, FS_Bijection DEF ExistsBijection
<1> QED
  BY <1>3, <1>4

\* No file at first.
LEMMA HttpStarts == Init => HttpInv /\ HttpLive
  BY DEF Init, HttpInit, HttpInv, HttpType, HttpIds, HttpFiles, HttpLive, IsOpen

(* http_reconstruct.c: every file opened for HTTP data is closed and reported *)
(* exactly once, and the file of the last report of a name is on the disk in  *)
(* the form that the report says.                                             *)
THEOREM HttpFilesReportedOnce == Spec => []HttpOnce
<1>1. HttpInv /\ HttpLive => HttpOnce
  <2> SUFFICES ASSUME HttpInv, HttpLive PROVE HttpOnce
    OBVIOUS
  <2>1. phase = "closed" => Len(reports) = opened
    BY ReportsCount DEF HttpLive
  <2> QED
    BY <2>1 DEF HttpInv, HttpIds, HttpFiles, IsLast, HttpOnce
<1> QED
  BY <1>1, HttpStarts, HttpStep, PTL DEF Spec
-----------------------------------------------------------------------------
NodeFields == {"seq", "len", "ts"}

\* A list of nodes with sequence numbers and lengths.
IsList(l) ==
    /\ l \in Seq({l[i] : i \in DOMAIN l})
    /\ \A i \in DOMAIN l : DOMAIN l[i] = NodeFields /\ l[i].seq \in Nat /\ l[i].len \in Nat

\* What acknowledges a packet is a number.
LEMMA ExpectedAckIsNumber ==
    ASSUME NEW p, p.seq \in Nat, p.len \in Nat
    PROVE  ExpectedAck(p) \in Nat
<1>1. SeqSpace \in Nat /\ SeqSpace > 0
  BY SeqSpaceAssumption
<1>2. p.seq + p.len + 1 \in Nat
  OBVIOUS
<1> DEFINE x == p.seq + p.len + 1
<1> HIDE DEF x
<1>3. \A y \in Nat : y % SeqSpace \in Nat
  BY <1>1
<1> QED
  BY <1>2, <1>3 DEF ExpectedAck

\* The numbers of a list.
LEMMA ListNumbers ==
    ASSUME NEW l, IsList(l)
    PROVE  /\ Len(l) \in Nat /\ DOMAIN l = 1 .. Len(l)
           /\ \A i \in 1 .. Len(l) : ExpectedAck(l[i]) \in Nat /\ l[i].seq \in Nat
BY ExpectedAckIsNumber DEF IsList

\* There is one place for a new packet: behind the nodes acknowledged later.
LEMMA InsertPositionExists ==
    ASSUME NEW l, IsList(l), NEW e \in Nat
    PROVE  LET k == InsertPosition(l, e)
           IN  /\ k \in 0 .. Len(l)
               /\ \A i \in 1 .. k : ExpectedAck(l[i]) > e
               /\ k < Len(l) => ExpectedAck(l[k + 1]) <= e
<1> DEFINE n == Len(l)
           P == {i \in 1 .. n : ExpectedAck(l[i]) <= e}
<1>1. n \in Nat /\ \A i \in 1 .. n : ExpectedAck(l[i]) \in Nat
  BY ListNumbers
<1> HIDE DEF n
<1>2. \E k \in 0 .. n : /\ \A i \in 1 .. k : ExpectedAck(l[i]) > e
                        /\ k < n => ExpectedAck(l[k + 1]) <= e
  <2>1. CASE P = {}
    <3>1. n \in 0 .. n /\ ~(n < n) /\ \A i \in 1 .. n : ExpectedAck(l[i]) > e
      BY <1>1, <2>1
    <3> QED
      BY <3>1
  <2>2. CASE P # {}
    <3>1. PICK m \in P : \A i \in P : m <= i
      <4>1. P \subseteq Nat
        OBVIOUS
      <4> HIDE DEF P
      <4> QED
        BY <2>2, <4>1, NatMinimum
    <3>2. m \in 1 .. n /\ ExpectedAck(l[m]) <= e
      OBVIOUS
    <3>3. \A i \in 1 .. n : i < m => ExpectedAck(l[i]) > e
      <4> SUFFICES ASSUME NEW i \in 1 .. n, i < m PROVE ExpectedAck(l[i]) > e
        OBVIOUS
      <4>1. i \notin P
        BY <3>1, <3>2
      <4> QED
        BY <1>1, <4>1
    <3>4. m - 1 \in 0 .. n /\ (m - 1) + 1 = m /\ \A i \in 1 .. m - 1 : i \in 1 .. n /\ i < m
      BY <1>1, <3>2
    <3>5. \A i \in 1 .. m - 1 : ExpectedAck(l[i]) > e
      BY <3>3, <3>4
    <3> QED
      BY <3>2, <3>4, <3>5
  <2> QED
    BY <2>1, <2>2
<1> QED
  BY <1>2 DEF InsertPosition, n

\* The list with a packet inserted behind the first k nodes, without the nodes a + 1 to b,
\* and with the time of node k refreshed.
InsertAt(l, k, p) == SubSeq(l, 1, k) \o <<p>> \o SubSeq(l, k + 1, Len(l))
CutOut(l, a, b) == SubSeq(l, 1, a) \o SubSeq(l, b + 1, Len(l))
Refresh(l, k, ts) == [l EXCEPT ![k] = [l[k] EXCEPT !.ts = ts]]

\* A list with a packet inserted behind the first k nodes.
LEMMA Inserted ==
    ASSUME NEW S, NEW l \in Seq(S), NEW p \in S, NEW k \in 0 .. Len(l)
    PROVE  /\ InsertAt(l, k, p) \in Seq(S) /\ Len(InsertAt(l, k, p)) = Len(l) + 1
           /\ \A x \in 1 .. Len(l) + 1 :
                 InsertAt(l, k, p)[x] = IF x <= k THEN l[x] ELSE IF x = k + 1 THEN p ELSE l[x - 1]
<1> DEFINE n == Len(l)
           a == SubSeq(l, 1, k)
           b == SubSeq(l, k + 1, n)
           c == a \o <<p>>
           r == InsertAt(l, k, p)
<1>1. n \in Nat /\ k \in Nat /\ k <= n
  OBVIOUS
<1>2. a \in Seq(S) /\ Len(a) = k /\ \A x \in 1 .. k : a[x] = l[x]
  OBVIOUS
<1>3. b \in Seq(S) /\ Len(b) = n - k /\ \A x \in 1 .. n - k : b[x] = l[k + x]
  OBVIOUS
<1>7. r = c \o b
  BY DEF InsertAt
<1> HIDE DEF a, b, n, r
<1>4. c \in Seq(S) /\ Len(c) = k + 1 /\ c[k + 1] = p /\ \A x \in 1 .. k : c[x] = l[x]
  BY <1>1, <1>2
<1> HIDE DEF c
<1>5. /\ r \in Seq(S) /\ Len(r) = n + 1
      /\ \A x \in 1 .. n + 1 : r[x] = IF x <= k + 1 THEN c[x] ELSE b[x - (k + 1)]
  <2>1. /\ r \in Seq(S) /\ Len(r) = Len(c) + Len(b)
        /\ \A x \in 1 .. Len(c) + Len(b) : r[x] = IF x <= Len(c) THEN c[x] ELSE b[x - Len(c)]
    BY <1>3, <1>4, <1>7, ConcatProperties
  <2>2. Len(c) = k + 1 /\ Len(c) + Len(b) = n + 1
    BY <1>1, <1>3, <1>4
  <2> QED
    BY <2>1, <2>2
<1>6. ASSUME NEW x \in 1 .. n + 1
      PROVE  r[x] = IF x <= k THEN l[x] ELSE IF x = k + 1 THEN p ELSE l[x - 1]
  <2>1. CASE x <= k
    BY <1>1, <1>4, <1>5, <2>1
  <2>2. CASE x = k + 1
    BY <1>1, <1>4, <1>5, <2>2
  <2>3. CASE x > k + 1
    <3>1. x - (k + 1) \in 1 .. n - k /\ k + (x - (k + 1)) = x - 1 /\ ~(x <= k + 1) /\ ~(x <= k) /\ x # k + 1
      BY <1>1, <2>3
    <3>2. r[x] = b[x - (k + 1)]
      BY <1>5, <3>1
    <3> QED
      BY <1>3, <3>1, <3>2
  <2> QED
    BY <1>1, <2>1, <2>2, <2>3
<1> QED
  BY <1>5, <1>6 DEF n, r

\* A list without the nodes a + 1 to b.
LEMMA Removed ==
    ASSUME NEW S, NEW l \in Seq(S), NEW a \in 0 .. Len(l), NEW b \in a .. Len(l)
    PROVE  /\ CutOut(l, a, b) \in Seq(S) /\ Len(CutOut(l, a, b)) = Len(l) - (b - a)
           /\ \A x \in 1 .. Len(l) - (b - a) : CutOut(l, a, b)[x] = IF x <= a THEN l[x] ELSE l[x + (b - a)]
<1> DEFINE n == Len(l)
           u == SubSeq(l, 1, a)
           v == SubSeq(l, b + 1, n)
           r == CutOut(l, a, b)
<1>1. n \in Nat /\ a \in Nat /\ b \in Nat /\ a <= b /\ b <= n
  OBVIOUS
<1>2. u \in Seq(S) /\ Len(u) = a /\ \A x \in 1 .. a : u[x] = l[x]
  OBVIOUS
<1>3. v \in Seq(S) /\ Len(v) = n - b /\ \A x \in 1 .. n - b : v[x] = l[b + x]
  OBVIOUS
<1>6. r = u \o v
  BY DEF CutOut
<1> HIDE DEF u, v, n, r
<1>4. /\ r \in Seq(S) /\ Len(r) = n - (b - a)
      /\ \A x \in 1 .. n - (b - a) : r[x] = IF x <= a THEN u[x] ELSE v[x - a]
  <2>1. /\ r \in Seq(S) /\ Len(r) = Len(u) + Len(v)
        /\ \A x \in 1 .. Len(u) + Len(v) : r[x] = IF x <= Len(u) THEN u[x] ELSE v[x - Len(u)]
    BY <1>2, <1>3, <1>6, ConcatProperties
  <2>2. Len(u) = a /\ Len(u) + Len(v) = n - (b - a)
    BY <1>1, <1>2, <1>3
  <2> QED
    BY <2>1, <2>2
<1>5. ASSUME NEW x \in 1 .. n - (b - a) PROVE r[x] = IF x <= a THEN l[x] ELSE l[x + (b - a)]
  <2>1. CASE x <= a
    BY <1>1, <1>2, <1>4, <2>1
  <2>2. CASE x > a
    <3>1. x - a \in 1 .. n - b /\ b + (x - a) = x + (b - a) /\ ~(x <= a)
      BY <1>1, <2>2
    <3> QED
      BY <1>3, <1>4, <3>1
  <2> QED
    BY <1>1, <2>1, <2>2
<1> QED
  BY <1>4, <1>5 DEF n, r

\* A sequence is one of its own elements.
LEMMA SeqOfOwn ==
    ASSUME NEW S, NEW r \in Seq(S)
    PROVE  r \in Seq({r[i] : i \in DOMAIN r})
OBVIOUS

\* A retransmission refreshes the time of a node, which changes no number.
LEMMA RefreshKeeps ==
    ASSUME NEW l, IsList(l), Descending(l), NEW k \in 1 .. Len(l), NEW ts
    PROVE  IsList(Refresh(l, k, ts)) /\ Descending(Refresh(l, k, ts)) /\ Len(Refresh(l, k, ts)) = Len(l)
<1> DEFINE r == Refresh(l, k, ts)
           nd == [l[k] EXCEPT !.ts = ts]
           S == {l[i] : i \in DOMAIN l} \cup {nd}
<1>1. Len(l) \in Nat /\ DOMAIN l = 1 .. Len(l) /\ l \in Seq(S) /\ nd \in S
  BY ListNumbers DEF IsList
<1>2. /\ DOMAIN nd = NodeFields /\ nd.seq = l[k].seq /\ nd.len = l[k].len
      /\ \A i \in 1 .. Len(l) : DOMAIN l[i] = NodeFields /\ l[i].seq \in Nat /\ l[i].len \in Nat
  BY <1>1 DEF IsList, NodeFields
<1> HIDE DEF S, nd, r
<1>3. r = [l EXCEPT ![k] = nd]
  BY DEF nd, r, Refresh
<1>4. /\ r \in Seq(S) /\ Len(r) = Len(l)
      /\ \A j \in 1 .. Len(l) : r[j] = IF j = k THEN nd ELSE l[j]
  BY <1>1, <1>3, ExceptSeq
<1>5. DOMAIN r = 1 .. Len(l)
  BY <1>1, <1>3
<1>6. \A j \in 1 .. Len(l) : /\ DOMAIN r[j] = NodeFields /\ r[j].seq = l[j].seq /\ r[j].len = l[j].len
                             /\ r[j].seq \in Nat /\ r[j].len \in Nat
                             /\ ExpectedAck(r[j]) = ExpectedAck(l[j])
  BY <1>2, <1>4 DEF ExpectedAck
<1>7. IsList(r)
  <2>1. r \in Seq({r[i] : i \in DOMAIN r})
    BY <1>4, SeqOfOwn
  <2> QED
    BY <1>5, <1>6, <2>1 DEF IsList
<1>8. Descending(r)
  BY <1>1, <1>5, <1>6 DEF Descending
<1> QED
  BY <1>4, <1>7, <1>8 DEF r

\* A new packet is inserted where the order stays.
LEMMA InsertKeeps ==
    ASSUME NEW l, IsList(l), Descending(l), NEW p, DOMAIN p = NodeFields, p.seq \in Nat, p.len \in Nat,
           NEW k \in 0 .. Len(l), \A i \in 1 .. k : ExpectedAck(l[i]) > ExpectedAck(p),
           k < Len(l) => ExpectedAck(l[k + 1]) < ExpectedAck(p)
    PROVE  /\ IsList(InsertAt(l, k, p)) /\ Descending(InsertAt(l, k, p))
           /\ Len(InsertAt(l, k, p)) = Len(l) + 1
<1> DEFINE r == InsertAt(l, k, p)
           n == Len(l)
           e == ExpectedAck(p)
           E(x) == ExpectedAck(r[x])
           S == {l[i] : i \in DOMAIN l} \cup {p}
<1>1. /\ n \in Nat /\ k \in Nat /\ k <= n /\ DOMAIN l = 1 .. n /\ l \in Seq(S) /\ p \in S
      /\ \A i \in 1 .. n : ExpectedAck(l[i]) \in Nat
  <2>1. n \in Nat /\ DOMAIN l = 1 .. n /\ \A i \in 1 .. n : ExpectedAck(l[i]) \in Nat
    BY ListNumbers
  <2>2. l \in Seq(S) /\ p \in S
    BY DEF IsList
  <2>3. k \in Nat /\ k <= n
    BY <2>1
  <2> QED
    BY <2>1, <2>2, <2>3
<1>2. e \in Nat
  BY ExpectedAckIsNumber
<1> HIDE DEF S
<1>3. /\ r \in Seq(S) /\ Len(r) = n + 1
      /\ \A x \in 1 .. n + 1 : r[x] = IF x <= k THEN l[x] ELSE IF x = k + 1 THEN p ELSE l[x - 1]
  <2>1. l \in Seq(S) /\ p \in S /\ k \in 0 .. Len(l)
    BY <1>1
  <2> QED
    BY ONLY <2>1, Inserted
<1> HIDE DEF r
<1>4. DOMAIN r = 1 .. n + 1
  BY <1>3
<1>5. \A i \in 1 .. n : \A j \in 1 .. n : i < j => ExpectedAck(l[i]) > ExpectedAck(l[j])
  BY <1>1 DEF Descending
<1>6. \A i \in 1 .. n : i > k => ExpectedAck(l[i]) < e
  <2> SUFFICES ASSUME NEW i \in 1 .. n, i > k PROVE ExpectedAck(l[i]) < e
    OBVIOUS
  <2>1. k < n /\ k + 1 \in 1 .. n /\ (i = k + 1 \/ k + 1 < i)
    BY <1>1
  <2>2. ExpectedAck(l[k + 1]) < e /\ (k + 1 < i => ExpectedAck(l[k + 1]) > ExpectedAck(l[i]))
    BY <1>5, <2>1
  <2> QED
    BY <1>1, <1>2, <2>1, <2>2
<1>7. \A i \in 1 .. k : ExpectedAck(l[i]) > e
  OBVIOUS
<1> HIDE DEF n, e
<1>8. \A x \in 1 .. n + 1 : /\ x <= k => x \in 1 .. n /\ x \in 1 .. k /\ r[x] = l[x]
                            /\ x = k + 1 => r[x] = p
                            /\ x > k + 1 => x - 1 \in 1 .. n /\ x - 1 > k /\ r[x] = l[x - 1]
                            /\ x <= k \/ x = k + 1 \/ x > k + 1
  <2> SUFFICES ASSUME NEW x \in 1 .. n + 1
               PROVE  /\ x <= k => x \in 1 .. n /\ x \in 1 .. k /\ r[x] = l[x]
                      /\ x = k + 1 => r[x] = p
                      /\ x > k + 1 => x - 1 \in 1 .. n /\ x - 1 > k /\ r[x] = l[x - 1]
                      /\ x <= k \/ x = k + 1 \/ x > k + 1
    OBVIOUS
  <2>1. /\ x <= k => x \in 1 .. n /\ x \in 1 .. k
        /\ x = k + 1 => ~(x <= k)
        /\ x > k + 1 => x - 1 \in 1 .. n /\ x - 1 > k /\ ~(x <= k) /\ x # k + 1
        /\ x <= k \/ x = k + 1 \/ x > k + 1
    BY <1>1
  <2> QED
    BY <1>3, <2>1
<1>9. IsList(r)
  <2>1. \A i \in 1 .. n : DOMAIN l[i] = NodeFields /\ l[i].seq \in Nat /\ l[i].len \in Nat
    BY <1>1 DEF IsList
  <2>2. \A x \in 1 .. n + 1 : DOMAIN r[x] = NodeFields /\ r[x].seq \in Nat /\ r[x].len \in Nat
    BY <1>8, <2>1
  <2>3. r \in Seq({r[i] : i \in DOMAIN r})
    BY <1>3, SeqOfOwn
  <2> QED
    BY <1>4, <2>2, <2>3 DEF IsList
<1>10. ASSUME NEW x \in 1 .. n + 1, NEW y \in 1 .. n + 1, x < y PROVE E(x) > E(y)
  <2>1. CASE y <= k
    <3>1. x <= k
      BY <1>1, <1>10, <2>1
    <3> QED
      BY <1>5, <1>8, <1>10, <2>1, <3>1
  <2>2. CASE y = k + 1
    <3>1. x <= k
      BY <1>1, <1>10, <2>2
    <3> QED
      BY <1>7, <1>8, <2>2, <3>1 DEF e
  <2>3. CASE y > k + 1 /\ x <= k
    <3>1. x \in 1 .. n /\ x \in 1 .. k /\ r[x] = l[x] /\ y - 1 \in 1 .. n /\ y - 1 > k /\ r[y] = l[y - 1]
      BY <1>8, <2>3
    <3>2. x < y - 1
      BY <1>1, <2>3
    <3> QED
      BY <1>5, <3>1, <3>2
  <2>4. CASE y > k + 1 /\ x = k + 1
    <3>1. r[x] = p /\ y - 1 \in 1 .. n /\ y - 1 > k /\ r[y] = l[y - 1]
      BY <1>8, <2>4
    <3>2. ExpectedAck(l[y - 1]) < e /\ ExpectedAck(l[y - 1]) \in Nat
      BY <1>1, <1>6, <3>1 DEF n
    <3> QED
      BY <1>2, <3>1, <3>2 DEF e
  <2>5. CASE y > k + 1 /\ x > k + 1
    <3>1. x - 1 \in 1 .. n /\ r[x] = l[x - 1] /\ y - 1 \in 1 .. n /\ r[y] = l[y - 1]
      BY <1>8, <2>5
    <3>2. x - 1 < y - 1
      BY <1>1, <1>10
    <3> QED
      BY <1>5, <3>1, <3>2
  <2> QED
    BY <1>8, <2>1, <2>2, <2>3, <2>4, <2>5
<1>11. Descending(r)
  BY <1>4, <1>10 DEF Descending
<1> QED
  BY <1>3, <1>9, <1>11 DEF n, r

\* Storing a packet keeps the list sorted.
LEMMA StoreKeeps ==
    ASSUME NEW l, IsList(l), Descending(l), NEW p, DOMAIN p = NodeFields, p.seq \in Nat, p.len \in Nat
    PROVE  IsList(StorePacket(l, p)) /\ Descending(StorePacket(l, p)) /\ Len(StorePacket(l, p)) \in Nat
<1> DEFINE e == ExpectedAck(p)
           k == InsertPosition(l, e)
           ts == IF l[k + 1].ts < p.ts THEN p.ts ELSE l[k + 1].ts
<1>1. e \in Nat /\ Len(l) \in Nat /\ \A i \in 1 .. Len(l) : ExpectedAck(l[i]) \in Nat
  BY ExpectedAckIsNumber, ListNumbers
<1>2. /\ k \in 0 .. Len(l) /\ \A i \in 1 .. k : ExpectedAck(l[i]) > e
      /\ k < Len(l) => ExpectedAck(l[k + 1]) <= e
  BY <1>1, InsertPositionExists
<1>3. StorePacket(l, p) = IF k < Len(l) /\ ExpectedAck(l[k + 1]) = e
                          THEN Refresh(l, k + 1, ts) ELSE InsertAt(l, k, p)
  <2>1. k + 1 \in 1 .. Len(l) \/ ~(k < Len(l))
    BY <1>1, <1>2
  <2> QED
    BY <2>1 DEF StorePacket, Refresh, InsertAt
<1> HIDE DEF k, ts
<1>4. CASE k < Len(l) /\ ExpectedAck(l[k + 1]) = e
  <2>1. k + 1 \in 1 .. Len(l)
    BY <1>1, <1>2, <1>4
  <2> QED
    BY <1>1, <1>3, <1>4, <2>1, RefreshKeeps
<1>5. CASE ~(k < Len(l) /\ ExpectedAck(l[k + 1]) = e)
  <2>1. k < Len(l) => ExpectedAck(l[k + 1]) < e
    <3> SUFFICES ASSUME k < Len(l) PROVE ExpectedAck(l[k + 1]) < e
      OBVIOUS
    <3>1. k + 1 \in 1 .. Len(l)
      BY <1>1, <1>2
    <3>2. ExpectedAck(l[k + 1]) \in Nat /\ ExpectedAck(l[k + 1]) <= e /\ ExpectedAck(l[k + 1]) # e
      BY <1>1, <1>2, <1>5, <3>1
    <3> HIDE DEF e
    <3> QED
      BY <1>1, <3>2
  <2>2. StorePacket(l, p) = InsertAt(l, k, p)
    BY <1>3, <1>5
  <2>3. /\ IsList(InsertAt(l, k, p)) /\ Descending(InsertAt(l, k, p))
        /\ Len(InsertAt(l, k, p)) = Len(l) + 1
    BY <1>2, <2>1, InsertKeeps
  <2> QED
    BY <1>1, <2>2, <2>3
<1> QED
  BY <1>4, <1>5

\* Taking out nodes that follow one another keeps the order of the others.
LEMMA CutKeeps ==
    ASSUME NEW l, IsList(l), Descending(l), NEW a \in 0 .. Len(l), NEW b \in a .. Len(l)
    PROVE  /\ IsList(CutOut(l, a, b)) /\ Descending(CutOut(l, a, b))
           /\ Len(CutOut(l, a, b)) = Len(l) - (b - a)
<1> DEFINE r == CutOut(l, a, b)
           S == {l[i] : i \in DOMAIN l}
           n == Len(l)
           N == n - (b - a)
           At(x) == IF x <= a THEN x ELSE x + (b - a)
<1>1. n \in Nat /\ DOMAIN l = 1 .. n /\ l \in Seq(S)
  BY ListNumbers DEF IsList
<1>2. a \in Nat /\ b \in Nat /\ a <= b /\ b <= n
  BY <1>1
<1> HIDE DEF S
<1>3. /\ r \in Seq(S) /\ Len(r) = Len(l) - (b - a)
      /\ \A x \in 1 .. Len(l) - (b - a) : r[x] = IF x <= a THEN l[x] ELSE l[x + (b - a)]
  BY ONLY <1>1, a \in 0 .. Len(l), b \in a .. Len(l), Removed
<1> HIDE DEF r, n
<1>4. Len(r) = N /\ \A x \in 1 .. N : r[x] = l[At(x)]
  BY <1>3 DEF n
<1>5. N \in Nat /\ DOMAIN r = 1 .. N
  <2>1. N \in Nat
    BY <1>1, <1>2
  <2> HIDE DEF N
  <2> QED
    BY <1>3, <1>4, <2>1
<1>6. \A x, y \in 1 .. N : At(x) \in 1 .. n /\ (x < y => At(x) < At(y))
  BY <1>1, <1>2
<1> HIDE DEF N, At
<1>7. IsList(r)
  <2>1. \A x \in 1 .. N : DOMAIN r[x] = NodeFields /\ r[x].seq \in Nat /\ r[x].len \in Nat
    BY <1>1, <1>4, <1>6 DEF IsList
  <2>2. r \in Seq({r[i] : i \in DOMAIN r})
    BY <1>3, SeqOfOwn
  <2> QED
    BY <1>5, <2>1, <2>2 DEF IsList
<1>8. Descending(r)
  <2> SUFFICES ASSUME NEW x \in 1 .. N, NEW y \in 1 .. N, x < y
               PROVE  ExpectedAck(r[x]) > ExpectedAck(r[y])
    BY <1>5 DEF Descending
  <2>1. At(x) \in 1 .. n /\ At(y) \in 1 .. n /\ At(x) < At(y)
    BY <1>6
  <2> QED
    BY <1>1, <1>4, <2>1 DEF Descending
<1> QED
  BY <1>3, <1>7, <1>8 DEF r

\* The node that is acknowledged is one of the list.
LEMMA AckedNodeExists ==
    ASSUME NEW l, IsList(l), NEW ack, AckedNode(l, ack) # 0
    PROVE  AckedNode(l, ack) \in 1 .. Len(l)
<1> DEFINE P == {i \in 1 .. Len(l) : ExpectedAck(l[i]) = ack}
<1>1. Len(l) \in Nat /\ DOMAIN l = 1 .. Len(l)
  BY ListNumbers
<1>2. P # {}
  BY <1>1 DEF AckedNode
<1>3. P \subseteq Nat
  BY <1>1
<1>4. PICK m \in P : \A i \in P : m <= i
  <2> HIDE DEF P
  <2> QED
    BY <1>2, <1>3, NatMinimum
<1>5. \A j \in 1 .. m - 1 : ExpectedAck(l[j]) # ack
  <2> SUFFICES ASSUME NEW j \in 1 .. m - 1 PROVE ExpectedAck(l[j]) # ack
    OBVIOUS
  <2>1. m \in 1 .. Len(l) /\ j \in 1 .. Len(l) /\ ~(m <= j)
    BY <1>1
  <2> QED
    BY <1>4, <2>1
<1>6. m \in DOMAIN l /\ ExpectedAck(l[m]) = ack
  BY <1>1
<1> QED
  BY <1>1, <1>5, <1>6 DEF AckedNode

\* The nodes acknowledged together end in the list.
LEMMA LastAckedExists ==
    ASSUME NEW l, IsList(l), NEW i \in 1 .. Len(l)
    PROVE  LastAcked(l, i) \in i .. Len(l)
<1> DEFINE n == Len(l)
           P == {j \in i .. n : j < n => ExpectedAck(l[j + 1]) # l[j].seq}
<1>1. n \in Nat /\ i \in Nat /\ i <= n
  BY ListNumbers
<1> HIDE DEF n
<1>2. P \subseteq Nat /\ n \in P
  BY <1>1
<1>3. PICK j \in P : \A m \in P : j <= m
  <2> HIDE DEF P
  <2> QED
    BY <1>2, NatMinimum
<1>4. j \in i .. n /\ (j < n => ExpectedAck(l[j + 1]) # l[j].seq)
  OBVIOUS
<1>5. ASSUME NEW m \in i + 1 .. j PROVE ExpectedAck(l[m]) = l[m - 1].seq
  <2>1. m - 1 \in i .. n /\ (m - 1) + 1 = m /\ ~(j <= m - 1)
    BY <1>1, <1>4
  <2>2. m - 1 \notin P
    BY <1>3, <2>1
  <2> QED
    BY <2>1, <2>2
<1> QED
  BY <1>4, <1>5 DEF LastAcked, n

\* The lists of a session: sorted, in both directions.
IsPackets(pkts) ==
    /\ DOMAIN pkts = Directions
    /\ \A d \in Directions : IsList(pkts[d]) /\ Descending(pkts[d]) /\ Len(pkts[d]) \in Nat

\* A packet is stored in its direction, and what it acknowledges leaves the other one.
LEMMA AddPacketKeeps ==
    ASSUME NEW pkts, IsPackets(pkts), NEW dir \in Directions, NEW seq \in Nat, NEW ack \in Nat, NEW len \in Nat,
           NEW ts
    PROVE  LET r == RttAddPacket(pkts, dir, seq, ack, len, ts)
               other == Opposite(dir)
           IN  /\ IsPackets(r.pkts) /\ r.counter \in Nat
               /\ Len(r.pkts[other]) = Len(pkts[other]) - r.counter
<1> DEFINE other == Opposite(dir)
           node == Node(seq, len, ts)
           mine == StorePacket(pkts[dir], node)
           stored == [pkts EXCEPT ![dir] = mine]
           l == pkts[other]
           i == IF ack = 0 THEN 0 ELSE AckedNode(l, ack)
           j == LastAcked(l, i)
           r == RttAddPacket(pkts, dir, seq, ack, len, ts)
<1>1. other \in Directions /\ other # dir /\ \A d \in Directions : d = dir \/ d = other
  BY DEF Opposite, Directions
<1>2. DOMAIN node = NodeFields /\ node.seq \in Nat /\ node.len \in Nat
  BY DEF Node, NodeFields
<1> HIDE DEF node, other
<1>3. IsList(mine) /\ Descending(mine) /\ Len(mine) \in Nat
  BY <1>2, StoreKeeps DEF IsPackets
<1>4. IsList(l) /\ Descending(l) /\ Len(l) \in Nat
  BY <1>1 DEF IsPackets
<1>5. DOMAIN stored = Directions /\ stored[dir] = mine /\ stored[other] = l
  BY <1>1 DEF IsPackets
<1>6. r = IF i = 0 THEN [pkts |-> stored, counter |-> 0, usec |-> 0]
          ELSE [pkts |-> [stored EXCEPT ![other] = CutOut(l, i - 1, j)],
                counter |-> j - i + 1, usec |-> ts - l[i].ts]
  BY <1>5 DEF RttAddPacket, CutOut, node, other
<1> HIDE DEF stored, mine, i, j, r
<1>7. CASE i = 0
  <2>1. r.pkts = stored /\ r.counter = 0
    BY <1>6, <1>7
  <2>2. IsPackets(stored)
    BY <1>1, <1>3, <1>4, <1>5 DEF IsPackets
  <2>3. Len(l) = Len(l) - 0
    BY <1>4
  <2> QED
    BY <1>5, <2>1, <2>2, <2>3 DEF r, other
<1>8. CASE i # 0
  <2>1. i \in 1 .. Len(l)
    BY <1>4, <1>8, AckedNodeExists DEF i
  <2>2. j \in i .. Len(l)
    BY <1>4, <2>1, LastAckedExists DEF j
  <2>3. i - 1 \in 0 .. Len(l) /\ j \in i - 1 .. Len(l) /\ j - i + 1 \in Nat /\ j - (i - 1) = j - i + 1
    BY <1>4, <2>1, <2>2
  <2>4. /\ IsList(CutOut(l, i - 1, j)) /\ Descending(CutOut(l, i - 1, j))
        /\ Len(CutOut(l, i - 1, j)) = Len(l) - (j - (i - 1))
    BY ONLY <1>4, <2>3, CutKeeps
  <2>5. r.pkts = [stored EXCEPT ![other] = CutOut(l, i - 1, j)] /\ r.counter = j - i + 1
    BY <1>6, <1>8
  <2>6. DOMAIN r.pkts = Directions /\ r.pkts[dir] = mine /\ r.pkts[other] = CutOut(l, i - 1, j)
    BY <1>1, <1>5, <2>5
  <2>7. Len(CutOut(l, i - 1, j)) \in Nat
    BY <2>4, ListNumbers
  <2>8. IsPackets(r.pkts)
    BY <1>1, <1>3, <2>4, <2>6, <2>7 DEF IsPackets
  <2>9. Len(r.pkts[other]) = Len(l) - r.counter
    BY <2>3, <2>4, <2>5, <2>6
  <2> QED
    BY <2>3, <2>5, <2>8, <2>9 DEF r, other
<1> QED
  BY <1>7, <1>8
-----------------------------------------------------------------------------
StatFields == {"app_type", "app", "ul", "dl", "bytes", "pkts", "rtt", "retransmission", "tcp", "printed", "stored"}

IsStat(st) == DOMAIN st = StatFields /\ "kind" \in DOMAIN st.app

\* The type of a session statistic says what its pointer points to, and both follow from the
\* application a that DPI has found.
AppOK(st, a) ==
    \/ st.app_type \in {"null", "IP"} /\ st.app = NoApp
    \/ st.app_type = "WEB" /\ st.app.kind = "web" /\ a = "http" /\ On("web")
    \/ st.app_type = "SSL" /\ st.app.kind = "ssl" /\ a = "ssl" /\ On("ssl")
    \/ st.app_type = "RTP" /\ st.app.kind = "rtp" /\ a = "rtp" /\ On("rtp")
    \/ /\ st.app_type = "GTP" /\ st.app.kind = "gtp" /\ On("gtp")
       /\ DOMAIN st.app = {"kind", "ip_version", "teids"}
       /\ st.app.teids \in Seq(Teids) /\ Len(st.app.teids) <= MaxTeids

\* The lists are sorted and as long as what was stored and not acknowledged.
RttOK(st) ==
    /\ IsPackets(st.pkts) /\ DOMAIN st.stored = Directions
    /\ \A d \in Directions : st.stored[d] = Len(st.pkts[d])

SameRtt(st, r) == r.pkts = st.pkts /\ r.stored = st.stored

\* What handlers other than the ones that report leave alone: the packets reported so far, too.
Same(st, r) == SameRtt(st, r) /\ r.ul = st.ul /\ r.dl = st.dl

\* The packets reported so far: all of them when there is a report on new ones, else as before.
Counts(st, c, r, report) ==
    IF report /\ NewPackets(st, c) # 0 THEN r.ul = c.ul /\ r.dl = c.dl ELSE r.ul = st.ul /\ r.dl = st.dl

\* A report keeps the type of a session and its unacknowledged packets.
LEMMA DoReportKeeps ==
    ASSUME NEW st, IsStat(st), NEW a, AppOK(st, a), NEW c
    PROVE  LET r == DoReport(st, c)
           IN  IsStat(r) /\ AppOK(r, a) /\ SameRtt(st, r) /\ r.app_type = st.app_type /\ Counts(st, c, r, TRUE)
<1> DEFINE u == PrintTcpTimes(st)
           v == PrintApp(u)
           r == Remember(v, c)
<1>1. /\ DOMAIN u = StatFields /\ u.app_type = st.app_type /\ u.app = st.app
      /\ u.pkts = st.pkts /\ u.stored = st.stored
  BY DEF IsStat, StatFields, PrintTcpTimes
<1> HIDE DEF u
<1>2. IsStat(u) /\ AppOK(u, a)
  BY <1>1 DEF IsStat, AppOK
<1>3. IsStat(v) /\ AppOK(v, a) /\ v.pkts = u.pkts /\ v.stored = u.stored /\ v.app_type = u.app_type
  <2>1. CASE u.app_type = "WEB"
    <3>1. v = PrintWeb(u)
      BY <2>1 DEF PrintApp
    <3>2. DOMAIN v = DOMAIN u /\ v.app_type = u.app_type /\ v.pkts = u.pkts /\ v.stored = u.stored
      BY <1>1, <3>1 DEF PrintWeb, StatFields
    <3>3. DOMAIN v.app = DOMAIN u.app /\ v.app.kind = u.app.kind
      BY <1>1, <1>2, <3>1 DEF PrintWeb, StatFields, IsStat
    <3> HIDE DEF v
    <3> QED
      BY <1>2, <2>1, <3>2, <3>3 DEF IsStat, AppOK
  <2>2. CASE u.app_type = "RTP"
    <3>1. v = [u EXCEPT !.app = RtpReset]
      BY <2>2 DEF PrintApp, PrintRtp
    <3> HIDE DEF v
    <3>2. DOMAIN v = DOMAIN u /\ v.app_type = u.app_type /\ v.app = RtpReset /\ v.pkts = u.pkts /\ v.stored = u.stored
      BY <1>1, <3>1 DEF StatFields
    <3>3. "kind" \in DOMAIN RtpReset /\ RtpReset.kind = "rtp"
      BY DEF RtpReset
    <3> QED
      BY <1>2, <2>2, <3>2, <3>3 DEF IsStat, AppOK
  <2>3. CASE u.app_type \notin {"WEB", "RTP"}
    <3>1. v = u
      BY <2>3 DEF PrintApp, PrintSsl, PrintGtp
    <3> QED
      BY <1>2, <3>1
  <2> QED
    BY <2>1, <2>2, <2>3
<1> HIDE DEF v
<1>4. /\ DOMAIN r = StatFields /\ r.app_type = v.app_type /\ r.app = v.app
      /\ r.pkts = v.pkts /\ r.stored = v.stored /\ r.ul = c.ul /\ r.dl = c.dl
  BY <1>3 DEF IsStat, StatFields, Remember
<1> HIDE DEF r
<1>5. IsStat(r) /\ AppOK(r, a) /\ SameRtt(st, r) /\ r.app_type = st.app_type
  BY <1>1, <1>3, <1>4 DEF IsStat, AppOK, SameRtt
<1>6. DoReport(st, c) = IF NewPackets(st, c) = 0 THEN st ELSE r
  BY DEF DoReport, r, v, u
<1> QED
  BY <1>4, <1>5, <1>6 DEF SameRtt, Counts

\* A statistic of a web session.
IsWeb(st) == IsStat(st) /\ st.app_type = "WEB" /\ st.app.kind = "web"

\* A handler that changes fields of the web statistic other than its kind.
LEMMA WebFields ==
    ASSUME NEW st, IsWeb(st), NEW r, DOMAIN r = StatFields, DOMAIN r.app = DOMAIN st.app, r.app.kind = st.app.kind,
           r.app_type = st.app_type, r.pkts = st.pkts, r.stored = st.stored, r.ul = st.ul, r.dl = st.dl
    PROVE  IsWeb(r) /\ Same(st, r)
BY DEF IsWeb, IsStat, SameRtt, Same

\* The handlers of a web session.
LEMMA WebHandlersKeep ==
    ASSUME NEW st, IsWeb(st), NEW x
    PROVE  /\ IsWeb(WebHeaders(st, x)) /\ Same(st, WebHeaders(st, x))
           /\ IsWeb(WebMethod(st)) /\ Same(st, WebMethod(st))
           /\ IsWeb(WebResponse(st)) /\ Same(st, WebResponse(st))
           /\ IsWeb(WebXcdn(st, x)) /\ Same(st, WebXcdn(st, x))
<1>1. DOMAIN st = StatFields /\ "kind" \in DOMAIN st.app
  BY DEF IsWeb, IsStat
<1>2. IsWeb(WebHeaders(st, x)) /\ Same(st, WebHeaders(st, x))
  <2> DEFINE r == WebHeaders(st, x)
  <2>1. DOMAIN r = StatFields /\ DOMAIN r.app = DOMAIN st.app /\ r.app.kind = st.app.kind
        /\ r.app_type = st.app_type /\ r.pkts = st.pkts /\ r.stored = st.stored
        /\ r.ul = st.ul /\ r.dl = st.dl
    BY <1>1 DEF WebHeaders, StatFields
  <2> HIDE DEF r
  <2>2. IsWeb(r) /\ Same(st, r)
    BY <2>1, WebFields
  <2> QED
    BY <2>2 DEF r
<1>3. IsWeb(WebMethod(st)) /\ Same(st, WebMethod(st))
  <2> DEFINE r == WebMethod(st)
  <2>1. DOMAIN r = StatFields /\ DOMAIN r.app = DOMAIN st.app /\ r.app.kind = st.app.kind
        /\ r.app_type = st.app_type /\ r.pkts = st.pkts /\ r.stored = st.stored
        /\ r.ul = st.ul /\ r.dl = st.dl
    BY <1>1 DEF WebMethod, StatFields
  <2> HIDE DEF r
  <2>2. IsWeb(r) /\ Same(st, r)
    BY <2>1, WebFields
  <2> QED
    BY <2>2 DEF r
<1>4. IsWeb(WebResponse(st)) /\ Same(st, WebResponse(st))
  <2> DEFINE r == WebResponse(st)
  <2>1. DOMAIN r = StatFields /\ DOMAIN r.app = DOMAIN st.app /\ r.app.kind = st.app.kind
        /\ r.app_type = st.app_type /\ r.pkts = st.pkts /\ r.stored = st.stored
        /\ r.ul = st.ul /\ r.dl = st.dl
    BY <1>1 DEF WebResponse, StatFields
  <2> HIDE DEF r
  <2>2. IsWeb(r) /\ Same(st, r)
    BY <2>1, WebFields
  <2> QED
    BY <2>2 DEF r
<1>5. IsWeb(WebXcdn(st, x)) /\ Same(st, WebXcdn(st, x))
  <2> DEFINE r == WebXcdn(st, x)
  <2>1. DOMAIN r = StatFields /\ DOMAIN r.app = DOMAIN st.app /\ r.app.kind = st.app.kind
        /\ r.app_type = st.app_type /\ r.pkts = st.pkts /\ r.stored = st.stored
        /\ r.ul = st.ul /\ r.dl = st.dl
    BY <1>1 DEF WebXcdn, StatFields
  <2> HIDE DEF r
  <2>2. IsWeb(r) /\ Same(st, r)
    BY <2>1, WebFields
  <2> QED
    BY <2>2 DEF r
<1> QED
  BY <1>2, <1>3, <1>4, <1>5

\* A session that is not of another application becomes a web session.
LEMMA WebSessionKeeps ==
    ASSUME NEW st, IsStat(st), (st.app_type = "IP" /\ st.app = NoApp) \/ (st.app_type = "WEB" /\ st.app.kind = "web")
    PROVE  IsWeb(WebSession(st)) /\ Same(st, WebSession(st))
<1> DEFINE r == WebSession(st)
<1>1. "kind" \in DOMAIN WebReset /\ WebReset.kind = "web" /\ NoApp.kind = "null"
  BY DEF WebReset, NoApp
<1>2. DOMAIN st = StatFields /\ "kind" \in DOMAIN st.app
  BY DEF IsStat
<1>3. r = [st EXCEPT !.app_type = "WEB", !.app = IF st.app = NoApp THEN WebReset ELSE st.app]
  BY <1>2 DEF WebSession, StatFields
<1> HIDE DEF r
<1>4. /\ DOMAIN r = StatFields /\ r.app_type = "WEB" /\ r.pkts = st.pkts /\ r.stored = st.stored
      /\ r.ul = st.ul /\ r.dl = st.dl
      /\ r.app = IF st.app = NoApp THEN WebReset ELSE st.app
  BY <1>2, <1>3 DEF StatFields
<1>5. r.app.kind = "web" /\ "kind" \in DOMAIN r.app
  BY <1>1, <1>2, <1>4
<1> QED
  BY <1>4, <1>5 DEF IsWeb, IsStat, SameRtt, Same, r

\* A request, which may report the request before it.
LEMMA WebRequestKeeps ==
    ASSUME NEW st, IsStat(st), (st.app_type = "IP" /\ st.app = NoApp) \/ (st.app_type = "WEB" /\ st.app.kind = "web"),
           On("web"), NEW c, NEW headers
    PROVE  IsWeb(WebRequest(st, c, headers)) /\ SameRtt(st, WebRequest(st, c, headers))
           /\ Counts(st, c, WebRequest(st, c, headers), "host" \in WebSession(st).app.seen)
<1> DEFINE w == WebSession(st)
           uri == WebHeaders(w, {"uri"})
           rep == DoReport(uri, c)
           new == IF "host" \in uri.app.seen THEN [rep EXCEPT !.app = WebReset] ELSE uri
           met == WebMethod(new)
           r == WebHeaders(met, headers)
<1>1. IsWeb(w) /\ Same(st, w)
  BY WebSessionKeeps
<1>2. WebRequest(st, c, headers) = r
  BY <1>1 DEF WebRequest, IsWeb
<1> HIDE DEF w
<1>3. IsWeb(uri) /\ Same(w, uri) /\ ("host" \in uri.app.seen <=> "host" \in w.app.seen)
  <2>1. IsWeb(uri) /\ Same(w, uri)
    BY <1>1, WebHandlersKeep
  <2>2. uri.app = [w.app EXCEPT !.seen = w.app.seen \cup {"uri"}]
    BY <1>1 DEF WebHeaders, IsWeb, IsStat, StatFields
  <2> HIDE DEF uri
  <2>3. uri.app = w.app \/ uri.app.seen = w.app.seen \cup {"uri"}
    BY <2>2
  <2> QED
    BY <2>1, <2>3
<1> HIDE DEF uri
<1>4. AppOK(uri, "http") /\ IsStat(uri)
  BY <1>3 DEF IsWeb, AppOK
<1>5. IsStat(rep) /\ SameRtt(uri, rep) /\ rep.app_type = uri.app_type /\ Counts(uri, c, rep, TRUE)
  BY <1>4, DoReportKeeps
<1> HIDE DEF rep
<1>6. IsWeb(new) /\ SameRtt(uri, new) /\ Counts(uri, c, new, "host" \in uri.app.seen)
  <2> DEFINE q == [rep EXCEPT !.app = WebReset]
  <2>1. DOMAIN q = StatFields /\ q.app = WebReset /\ q.app_type = "WEB" /\ q.pkts = rep.pkts /\ q.stored = rep.stored
        /\ q.ul = rep.ul /\ q.dl = rep.dl
    BY <1>3, <1>5 DEF IsStat, IsWeb, StatFields
  <2>2. "kind" \in DOMAIN WebReset /\ WebReset.kind = "web"
    BY DEF WebReset
  <2> HIDE DEF q
  <2>3. IsWeb(q) /\ SameRtt(uri, q) /\ Counts(uri, c, q, TRUE)
    BY <1>5, <2>1, <2>2 DEF IsWeb, IsStat, SameRtt, Counts
  <2>4. new = IF "host" \in uri.app.seen THEN q ELSE uri
    BY DEF q
  <2> QED
    BY <1>3, <2>3, <2>4 DEF SameRtt, Counts
<1> HIDE DEF new
<1>7. IsWeb(met) /\ Same(new, met)
  BY <1>6, WebHandlersKeep
<1> HIDE DEF met
<1>8. IsWeb(r) /\ Same(met, r)
  BY <1>7, WebHandlersKeep
<1>9. SameRtt(st, r) /\ r.ul = new.ul /\ r.dl = new.dl
  BY <1>1, <1>3, <1>6, <1>7, <1>8 DEF SameRtt, Same
<1>10. uri.ul = st.ul /\ uri.dl = st.dl /\ NewPackets(uri, c) = NewPackets(st, c)
  BY <1>1, <1>3 DEF Same, NewPackets
<1>11. Counts(st, c, r, "host" \in w.app.seen)
  BY <1>3, <1>6, <1>9, <1>10 DEF Counts
<1> QED
  BY <1>2, <1>8, <1>9, <1>11 DEF w

\* A response.
LEMMA WebReplyKeeps ==
    ASSUME NEW st, IsStat(st), (st.app_type = "IP" /\ st.app = NoApp) \/ (st.app_type = "WEB" /\ st.app.kind = "web")
    PROVE  IsWeb(WebReply(st)) /\ Same(st, WebReply(st))
<1> DEFINE w == WebSession(st)
           x == WebResponse(w)
           y == WebHeaders(x, {"content_type", "content_len"})
           z == WebXcdn(y, TRUE)
<1>1. IsWeb(w) /\ Same(st, w)
  BY WebSessionKeeps
<1>2. WebReply(st) = z
  BY <1>1 DEF WebReply, IsWeb
<1> HIDE DEF w
<1>3. IsWeb(x) /\ Same(w, x)
  BY <1>1, WebHandlersKeep
<1> HIDE DEF x
<1>4. IsWeb(y) /\ Same(x, y)
  BY <1>3, WebHandlersKeep
<1> HIDE DEF y
<1>5. IsWeb(z) /\ Same(y, z)
  BY <1>4, WebHandlersKeep
<1> QED
  BY <1>1, <1>2, <1>3, <1>4, <1>5 DEF SameRtt, Same

\* The server name of a TLS session.
LEMMA SslKeeps ==
    ASSUME NEW st, IsStat(st), (st.app_type = "IP" /\ st.app = NoApp) \/ (st.app_type = "SSL" /\ st.app.kind = "ssl"),
           NEW named
    PROVE  LET r == SslServerName(st, named)
           IN  IsStat(r) /\ Same(st, r) /\ r.app_type = "SSL" /\ r.app.kind = "ssl"
<1> DEFINE new == IF st.app = NoApp THEN [st EXCEPT !.app_type = "SSL", !.app = SslReset] ELSE st
           r == SslServerName(st, named)
<1>1. "kind" \in DOMAIN SslReset /\ SslReset.kind = "ssl" /\ NoApp.kind = "null"
  BY DEF SslReset, NoApp
<1>2. DOMAIN st = StatFields /\ "kind" \in DOMAIN st.app
  BY DEF IsStat
<1>3. DOMAIN new = StatFields /\ new.app_type = "SSL" /\ new.pkts = st.pkts /\ new.stored = st.stored
      /\ new.ul = st.ul /\ new.dl = st.dl
      /\ new.app = IF st.app = NoApp THEN SslReset ELSE st.app
  BY <1>1, <1>2 DEF StatFields
<1>4. r = IF named THEN [new EXCEPT !.app.hostname = TRUE] ELSE new
  BY DEF SslServerName
<1>5. new.app.kind = "ssl" /\ "kind" \in DOMAIN new.app
  BY <1>1, <1>2, <1>3
<1> HIDE DEF new, r
<1>6. DOMAIN r = StatFields /\ r.app_type = "SSL" /\ r.pkts = new.pkts /\ r.stored = new.stored
      /\ r.ul = new.ul /\ r.dl = new.dl
      /\ r.app.kind = "ssl" /\ "kind" \in DOMAIN r.app
  BY <1>3, <1>4, <1>5 DEF StatFields
<1> QED
  BY <1>3, <1>6 DEF IsStat, SameRtt, Same, r

\* The packet of an RTP session.
LEMMA RtpKeeps ==
    ASSUME NEW st, IsStat(st), (st.app_type = "IP" /\ st.app = NoApp) \/ (st.app_type = "RTP" /\ st.app.kind = "rtp"),
           NEW v
    PROVE  LET r == RtpPacket(st, v)
           IN  IsStat(r) /\ Same(st, r) /\ r.app_type = "RTP" /\ r.app.kind = "rtp"
<1> DEFINE w == RtpSession(st)
           r == RtpPacket(st, v)
<1>1. "kind" \in DOMAIN RtpReset /\ RtpReset.kind = "rtp" /\ NoApp.kind = "null"
  BY DEF RtpReset, NoApp
<1>2. DOMAIN st = StatFields /\ "kind" \in DOMAIN st.app
  BY DEF IsStat
<1>3. w = [st EXCEPT !.app_type = "RTP", !.app = IF st.app = NoApp THEN RtpReset ELSE st.app]
  BY <1>2 DEF RtpSession, StatFields
<1> HIDE DEF w
<1>4. DOMAIN w = StatFields /\ w.app_type = "RTP" /\ w.pkts = st.pkts /\ w.stored = st.stored
      /\ w.ul = st.ul /\ w.dl = st.dl
      /\ w.app = IF st.app = NoApp THEN RtpReset ELSE st.app
  BY <1>2, <1>3 DEF StatFields
<1>5. w.app.kind = "rtp" /\ "kind" \in DOMAIN w.app
  BY <1>1, <1>2, <1>4
<1>6. r = [w EXCEPT !.app.packets_nb = @ + 1,
                    !.app.jitter = IF v.jitter > @ THEN v.jitter ELSE @,
                    !.app.lost = @ + v.loss, !.app.order_error = @ + v.order,
                    !.app.bursts = @ + v.burst]
  BY <1>4 DEF RtpPacket, w
<1> HIDE DEF r
<1>7. DOMAIN r = StatFields /\ r.app_type = "RTP" /\ r.pkts = w.pkts /\ r.stored = w.stored
      /\ r.ul = w.ul /\ r.dl = w.dl
      /\ r.app.kind = "rtp" /\ "kind" \in DOMAIN r.app
  BY <1>4, <1>5, <1>6 DEF StatFields
<1> QED
  BY <1>4, <1>7 DEF IsStat, SameRtt, Same, r

\* The TEID of a GTP session, kept while there is room.
LEMMA GtpKeeps ==
    ASSUME NEW st, IsStat(st), NEW a, AppOK(st, a), st.app_type \in {"IP", "GTP"}, On("gtp"), NEW teid \in Teids
    PROVE  LET r == GtpIpSrc(st, 4, teid)
           IN  IsStat(r) /\ Same(st, r) /\ AppOK(r, a) /\ r.app_type = "GTP"
<1> DEFINE w == GtpSession(st)
           u == GtpUpdateIp(w.app, 4)
           x == GtpUpdateTeid(u, teid)
           r == GtpIpSrc(st, 4, teid)
           IsGtp(g) == /\ g.kind = "gtp" /\ DOMAIN g = {"kind", "ip_version", "teids"}
                       /\ g.teids \in Seq(Teids) /\ Len(g.teids) <= MaxTeids
<1>1. IsGtp(GtpReset) /\ NoApp.kind = "null"
  BY AppStatAssumption DEF GtpReset, NoApp
<1>2. DOMAIN st = StatFields
  BY DEF IsStat
<1>3. (st.app = NoApp /\ st.app_type = "IP") \/ (IsGtp(st.app) /\ st.app_type = "GTP")
  BY DEF AppOK
<1>4. DOMAIN w = StatFields /\ w.app_type = "GTP" /\ w.pkts = st.pkts /\ w.stored = st.stored /\ IsGtp(w.app)
      /\ w.ul = st.ul /\ w.dl = st.dl
  <2>1. CASE st.app = NoApp
    <3>1. w = [st EXCEPT !.app_type = "GTP", !.app = GtpReset]
      BY <2>1 DEF GtpSession
    <3> HIDE DEF w, IsGtp
    <3> QED
      BY <1>1, <1>2, <3>1 DEF StatFields
  <2>2. CASE st.app # NoApp
    BY <1>2, <1>3, <2>2 DEF GtpSession
  <2> QED
    BY <2>1, <2>2
<1>5. r = [w EXCEPT !.app = x]
  BY <1>4 DEF GtpIpSrc, StatFields
<1> HIDE DEF w
<1>6. IsGtp(u)
  BY <1>4 DEF GtpUpdateIp
<1> HIDE DEF u
<1>7. IsGtp(x)
  <2>1. CASE x = u
    BY <1>6, <2>1
  <2>2. CASE Len(u.teids) # MaxTeids /\ x = [u EXCEPT !.teids = Append(@, teid)]
    <3>1. MaxTeids \in Nat /\ Len(u.teids) \in Nat /\ Len(u.teids) <= MaxTeids /\ u.teids \in Seq(Teids)
      BY <1>6, AppStatAssumption
    <3>2. /\ x.kind = "gtp" /\ DOMAIN x = {"kind", "ip_version", "teids"} /\ x.teids = Append(u.teids, teid)
      BY <1>6, <2>2
    <3>3. Append(u.teids, teid) \in Seq(Teids) /\ Len(Append(u.teids, teid)) = Len(u.teids) + 1
      BY <3>1
    <3>4. Len(u.teids) + 1 <= MaxTeids
      BY <2>2, <3>1
    <3> HIDE DEF x
    <3> QED
      BY <3>2, <3>3, <3>4
  <2> QED
    BY <2>1, <2>2 DEF GtpUpdateTeid
<1> HIDE DEF x, r
<1>8. DOMAIN r = StatFields /\ r.app_type = "GTP" /\ r.pkts = w.pkts /\ r.stored = w.stored /\ r.app = x
      /\ r.ul = w.ul /\ r.dl = w.dl
  BY <1>4, <1>5 DEF StatFields
<1>9. IsStat(r)
  BY <1>7, <1>8 DEF IsStat
<1>10. AppOK(r, a)
  BY <1>7, <1>8 DEF AppOK
<1> QED
  BY <1>4, <1>8, <1>9, <1>10 DEF SameRtt, Same, r

\* The numbers that stand for sequence and acknowledgement.
LEMMA RttNumbersAreNumbers ==
    ASSUME NEW t \in TcpHeaders
    PROVE  LET n == RttNumbers(t) IN n.seq \in Nat /\ n.ack \in Nat /\ n.len \in Nat
<1>1. SeqSpace \in Nat /\ SeqSpace > 0
  BY SeqSpaceAssumption
<1>2. t.seq \in Nat /\ t.ack \in Nat /\ t.len \in Nat /\ t.tsval \in Nat /\ t.tsecr \in Nat
  BY <1>1, SessionAssumption
<1>3. (t.tsecr + 1) % SeqSpace \in Nat
  <2>1. \A y \in Nat : y % SeqSpace \in Nat
    BY <1>1
  <2> QED
    BY <1>2, <2>1
<1> DEFINE m == (t.tsecr + 1) % SeqSpace
<1> HIDE DEF m
<1>4. m \in Nat
  BY <1>3 DEF m
<1> DEFINE sender == (On("rtt_sender") \/ On("rtt_prefer_sender")) /\ t.options
           seq == IF sender THEN t.tsval ELSE 0
           ack == IF sender THEN m ELSE 0
<1>5. seq \in Nat /\ ack \in Nat
  BY <1>2, <1>4
<1>6. RttNumbers(t) = CASE On("rtt_sender") -> [seq |-> seq, ack |-> ack, len |-> 0]
                        [] ~On("rtt_sender") /\ On("rtt_captor") -> [seq |-> t.seq, ack |-> t.ack, len |-> t.len]
                        [] OTHER -> [seq |-> IF seq = 0 THEN t.seq ELSE seq,
                                     ack |-> IF ack = 0 THEN t.ack ELSE ack, len |-> 0]
  BY DEF RttNumbers, m
<1> HIDE DEF seq, ack
<1> QED
  BY <1>2, <1>5, <1>6

\* A TCP packet changes the lists and nothing that says what the session is.
LEMMA ReceiveTcpKeeps ==
    ASSUME NEW st, IsStat(st), RttOK(st), NEW dir \in Directions, NEW t \in TcpHeaders, NEW now
    PROVE  LET r == ReceiveTcp(st, dir, t, now)
           IN  IsStat(r) /\ RttOK(r) /\ r.app_type = st.app_type /\ r.app = st.app /\ r.ul = st.ul /\ r.dl = st.dl
<1> DEFINE n == RttNumbers(t)
           q == IF n.seq # 0 /\ n.ack # 0 THEN RttAddPacket(st.pkts, dir, n.seq, n.ack, n.len, now)
                ELSE [pkts |-> st.pkts, counter |-> 0, usec |-> 0]
           other == Opposite(dir)
           r == ReceiveTcp(st, dir, t, now)
<1>1. other \in Directions /\ other # dir /\ \A d \in Directions : d = dir \/ d = other
  BY DEF Opposite, Directions
<1>2. IsPackets(st.pkts) /\ DOMAIN st.stored = Directions /\ \A d \in Directions : st.stored[d] = Len(st.pkts[d])
  BY DEF RttOK
<1>3. IsPackets(q.pkts) /\ q.counter \in Nat /\ Len(q.pkts[other]) = Len(st.pkts[other]) - q.counter
  <2>1. n.seq \in Nat /\ n.ack \in Nat /\ n.len \in Nat
    BY RttNumbersAreNumbers
  <2> HIDE DEF n
  <2>2. CASE n.seq # 0 /\ n.ack # 0
    <3>1. q = RttAddPacket(st.pkts, dir, n.seq, n.ack, n.len, now)
      BY <2>2
    <3> QED
      BY <1>2, <2>1, <3>1, AddPacketKeeps
  <2>3. CASE ~(n.seq # 0 /\ n.ack # 0)
    <3>1. q.pkts = st.pkts /\ q.counter = 0
      BY <2>3
    <3>2. Len(st.pkts[other]) \in Nat
      BY <1>1, <1>2 DEF IsPackets
    <3> HIDE DEF q
    <3> QED
      BY <1>2, <3>1, <3>2
  <2> QED
    BY <2>2, <2>3
<1>4. r = [st EXCEPT !.pkts = q.pkts,
                     !.rtt[other] = IF q.counter = 0 THEN @ ELSE AddRtt(@, q.counter, q.usec),
                     !.stored[dir] = @ + Len(q.pkts[dir]) - Len(st.pkts[dir]),
                     !.stored[other] = @ - q.counter,
                     !.retransmission = @ + t.retransmission,
                     !.tcp = TcpProgress(st, t)]
  BY DEF ReceiveTcp
<1> HIDE DEF q, r, other
<1>5. DOMAIN st = StatFields
  BY DEF IsStat
<1>6. /\ DOMAIN r = StatFields /\ r.app_type = st.app_type /\ r.app = st.app /\ r.pkts = q.pkts
      /\ r.ul = st.ul /\ r.dl = st.dl
  BY <1>4, <1>5 DEF StatFields
<1>7. /\ DOMAIN r.stored = Directions
      /\ r.stored[dir] = st.stored[dir] + Len(q.pkts[dir]) - Len(st.pkts[dir])
      /\ r.stored[other] = st.stored[other] - q.counter
  BY <1>1, <1>2, <1>4, <1>5 DEF StatFields
<1>8. \A d \in Directions : Len(st.pkts[d]) \in Nat /\ Len(q.pkts[d]) \in Nat
  BY <1>2, <1>3 DEF IsPackets
<1>9. r.stored[dir] = Len(q.pkts[dir]) /\ r.stored[other] = Len(q.pkts[other])
  <2> DEFINE a == Len(st.pkts[dir])
             b == Len(st.pkts[other])
             u == Len(q.pkts[dir])
             v == Len(q.pkts[other])
             k == q.counter
  <2>1. a \in Nat /\ b \in Nat /\ u \in Nat /\ v \in Nat /\ k \in Nat /\ v = b - k
    BY <1>1, <1>3, <1>8
  <2>2. r.stored[dir] = a + u - a /\ r.stored[other] = b - k
    BY <1>1, <1>2, <1>7
  <2> HIDE DEF a, b, u, v, k
  <2>3. r.stored[dir] = u /\ r.stored[other] = v
    BY <2>1, <2>2
  <2> QED
    BY <2>3 DEF u, v
<1>10. RttOK(r)
  BY <1>1, <1>3, <1>6, <1>7, <1>9 DEF RttOK
<1> QED
  BY <1>5, <1>6, <1>10 DEF IsStat, r
-----------------------------------------------------------------------------
\* The states of the sessions.
StatInv ==
    /\ conf \in Confs /\ handlers \subseteq conf
    /\ live \subseteq Sessions /\ DOMAIN stat = Sessions /\ DOMAIN app = Sessions
    /\ \A s \in Sessions : /\ IsStat(stat[s]) /\ AppOK(stat[s], app[s]) /\ RttOK(stat[s])
                           /\ s \in live => stat[s].app_type # "null"

\* What a packet can carry.
LEMMA PacketFacts ==
    ASSUME NEW s, NEW p \in PacketsOf(s)
    PROVE  /\ p.size \in Nat /\ p.app \in Apps
           /\ p.dir \in Directions /\ p.tcp \in {{}} \cup {{t} : t \in TcpHeaders}
           /\ Handled("gtp") => p.teid \in Teids
           /\ p.what \in {"request", "response"} => p.app = "http"
           /\ p.what = "server_name" => p.app = "ssl"
           /\ p.what = "rtp" => p.app = "rtp"
           /\ app[s] \in {"unknown", p.app} \/ p.app = "unknown"
<1>1. PICK d \in IF On("session") \/ On("micro") THEN Directions ELSE {0},
           z \in IF On("micro") THEN Sizes ELSE {1},
           w \in {c \in Carried(s) : app[s] \in {"unknown", c[2]} \/ c[2] = "unknown"},
           h \in IF Handled("web") \/ Handled("ssl") THEN {{}, {"host"}} ELSE {{}},
           r \in IF Handled("rtp") THEN RtpValues ELSE {0},
           t \in IF Handled("gtp") THEN Teids ELSE {0},
           x \in IF On("qos") THEN {{y} : y \in TcpHeaders} ELSE {{}} :
        p = [dir |-> d, size |-> z, what |-> w[1], app |-> w[2], headers |-> h, rtp |-> r, teid |-> t, tcp |-> x]
  BY DEF PacketsOf
<1>2. w \in Carried(s) /\ (app[s] \in {"unknown", w[2]} \/ w[2] = "unknown")
  OBVIOUS
<1>3. /\ w[2] \in {"unknown", "http", "ssl", "rtp"}
      /\ w[1] \in {"request", "response"} => w[2] = "http"
      /\ w[1] = "server_name" => w[2] = "ssl"
      /\ w[1] = "rtp" => w[2] = "rtp"
  BY <1>2 DEF Carried
<1>4. p.dir = d /\ p.size = z /\ p.what = w[1] /\ p.app = w[2] /\ p.teid = t /\ p.tcp = x
  BY <1>1
<1>5. d \in Directions /\ x \in {{}} \cup {{y} : y \in TcpHeaders}
  BY DEF Directions
<1>6. z \in Nat /\ w[2] \in Apps
  BY <1>3, SessionAssumption
<1> QED
  BY <1>2, <1>3, <1>4, <1>5, <1>6

\* A second request, after the host of the first one was seen: the session is reported.
HostSeen(st, p) == Handled("web") /\ p.what = "request" /\ st.app.kind = "web" /\ "host" \in WebSession(st).app.seen

\* A packet goes through the handlers of one application, which is the session's.
LEMMA AppHandlersKeep ==
    ASSUME conf \in Confs, handlers \subseteq conf, NEW s, NEW p \in PacketsOf(s), NEW c,
           NEW st, IsStat(st), AppOK(st, app[s]), st.app_type # "null"
    PROVE  LET r == AppHandlers(st, c, p)
           IN  /\ IsStat(r) /\ SameRtt(st, r) /\ r.app_type # "null"
               /\ Counts(st, c, r, HostSeen(st, p))
               /\ AppOK(r, IF app[s] = "unknown" THEN p.app ELSE app[s])
<1> DEFINE r == AppHandlers(st, c, p)
           a == IF app[s] = "unknown" THEN p.app ELSE app[s]
<1>1. GtpAlone(conf)
  BY ConfsAssumption
<1>2. /\ p.what \in {"request", "response"} => p.app = "http"
      /\ p.what = "server_name" => p.app = "ssl"
      /\ p.what = "rtp" => p.app = "rtp"
      /\ app[s] \in {"unknown", p.app} \/ p.app = "unknown"
  BY PacketFacts
<1>3. CASE Handled("web") /\ p.what \in {"request", "response"}
  <2> DEFINE host == "host" \in WebSession(st).app.seen
  <2>1. On("web") /\ ~On("gtp") /\ a = "http" /\ app[s] \in {"unknown", "http"}
    BY <1>1, <1>2, <1>3 DEF On, Handled, GtpAlone
  <2>2. (st.app_type = "IP" /\ st.app = NoApp) \/ (st.app_type = "WEB" /\ st.app.kind = "web")
    BY <2>1 DEF AppOK
  <2>3. r = IF p.what = "request" THEN WebRequest(st, c, p.headers) ELSE WebReply(st)
    BY <1>3 DEF AppHandlers
  <2>4. HostSeen(st, p) <=> (p.what = "request" /\ host)
    <3>1. CASE st.app = NoApp
      <4>1. st.app_type = "IP" /\ DOMAIN st = StatFields
        BY <2>2, <3>1 DEF IsStat, NoApp
      <4>2. WebSession(st) = [st EXCEPT !.app_type = "WEB", !.app = WebReset]
        BY <3>1, <4>1 DEF WebSession, StatFields
      <4>3. WebSession(st).app = WebReset
        BY <4>1, <4>2 DEF StatFields
      <4> QED
        BY <4>3 DEF WebReset, HostSeen
    <3>2. CASE st.app.kind = "web"
      BY <1>3, <3>2 DEF HostSeen
    <3> QED
      BY <2>2, <3>1, <3>2
  <2> HIDE DEF r, host
  <2>5. IsWeb(r) /\ SameRtt(st, r) /\ Counts(st, c, r, p.what = "request" /\ host)
    <3>1. CASE p.what = "request"
      <4>1. r = WebRequest(st, c, p.headers)
        BY <2>3, <3>1
      <4>2. IsWeb(r) /\ SameRtt(st, r) /\ Counts(st, c, r, host)
        BY <2>1, <2>2, <4>1, WebRequestKeeps DEF host
      <4> QED
        BY <3>1, <4>2 DEF Counts
    <3>2. CASE p.what # "request"
      <4>1. IsWeb(r) /\ Same(st, r)
        BY <2>2, <2>3, <3>2, WebReplyKeeps
      <4> QED
        BY <3>2, <4>1 DEF Same, Counts
    <3> QED
      BY <3>1, <3>2
  <2>6. Counts(st, c, r, HostSeen(st, p))
    BY <2>4, <2>5 DEF Counts
  <2> QED
    BY <2>1, <2>5, <2>6 DEF IsWeb, AppOK, r
<1>4. CASE Handled("ssl") /\ p.what = "server_name"
  <2>1. On("ssl") /\ ~On("gtp") /\ a = "ssl" /\ app[s] \in {"unknown", "ssl"}
    BY <1>1, <1>2, <1>4 DEF On, Handled, GtpAlone
  <2>2. (st.app_type = "IP" /\ st.app = NoApp) \/ (st.app_type = "SSL" /\ st.app.kind = "ssl")
    BY <2>1 DEF AppOK
  <2>3. r = SslServerName(st, "host" \in p.headers)
    BY <1>4 DEF AppHandlers
  <2> HIDE DEF r
  <2>4. IsStat(r) /\ Same(st, r) /\ r.app_type = "SSL" /\ r.app.kind = "ssl"
    BY <2>2, <2>3, SslKeeps
  <2>5. ~HostSeen(st, p)
    BY <1>4 DEF HostSeen
  <2> QED
    BY <2>1, <2>4, <2>5 DEF AppOK, Same, Counts, r
<1>5. CASE Handled("rtp") /\ p.what = "rtp"
  <2>1. On("rtp") /\ ~On("gtp") /\ a = "rtp" /\ app[s] \in {"unknown", "rtp"}
    BY <1>1, <1>2, <1>5 DEF On, Handled, GtpAlone
  <2>2. (st.app_type = "IP" /\ st.app = NoApp) \/ (st.app_type = "RTP" /\ st.app.kind = "rtp")
    BY <2>1 DEF AppOK
  <2>3. r = RtpPacket(st, p.rtp)
    BY <1>5 DEF AppHandlers
  <2> HIDE DEF r
  <2>4. IsStat(r) /\ Same(st, r) /\ r.app_type = "RTP" /\ r.app.kind = "rtp"
    BY <2>2, <2>3, RtpKeeps
  <2>5. ~HostSeen(st, p)
    BY <1>5 DEF HostSeen
  <2> QED
    BY <2>1, <2>4, <2>5 DEF AppOK, Same, Counts, r
<1>6. CASE ~(Handled("web") /\ p.what \in {"request", "response"}) /\ ~(Handled("ssl") /\ p.what = "server_name")
           /\ ~(Handled("rtp") /\ p.what = "rtp")
  <2>1. r = st
    BY <1>6 DEF AppHandlers
  <2> HIDE DEF r
  <2>2. AppOK(st, a)
    BY DEF AppOK
  <2>3. ~HostSeen(st, p)
    BY <1>6 DEF HostSeen
  <2> QED
    BY <2>1, <2>2, <2>3 DEF SameRtt, Counts, r
<1> QED
  BY <1>3, <1>4, <1>5, <1>6

\* The statistic of a session that starts.
LEMMA StartStatOK ==
    ASSUME NEW a
    PROVE  /\ IsStat(NoStat) /\ AppOK(NoStat, a) /\ RttOK(NoStat)
           /\ IsStat(EndStat) /\ AppOK(EndStat, a) /\ RttOK(EndStat)
           /\ IsStat(StartStat) /\ AppOK(StartStat, a) /\ RttOK(StartStat) /\ StartStat.app_type = "IP"
<1>1. "kind" \in DOMAIN NoApp
  BY DEF NoApp
<1>2. /\ DOMAIN RttEmpty = Directions
      /\ \A d \in Directions : RttEmpty[d] = <<>>
  BY DEF RttEmpty
<1>3. IsList(<<>>) /\ Descending(<<>>) /\ Len(<<>>) = 0
  BY DEF IsList, Descending
<1>4. IsPackets(RttEmpty)
  BY <1>2, <1>3 DEF IsPackets
<1>5. /\ DOMAIN NoStat = StatFields /\ NoStat.app_type = "null" /\ NoStat.app = NoApp /\ NoStat.pkts = RttEmpty
      /\ NoStat.stored = [d \in Directions |-> 0]
  BY DEF NoStat, StatFields
<1>6. /\ DOMAIN EndStat = StatFields /\ EndStat.app_type = "null" /\ EndStat.app = NoApp
      /\ EndStat.pkts = RttEmpty /\ EndStat.stored = [d \in Directions |-> 0]
  BY <1>5 DEF EndStat, RttRelease, StatFields
<1>7. /\ DOMAIN StartStat = StatFields /\ StartStat.app_type = "IP" /\ StartStat.app = NoApp
      /\ StartStat.pkts = RttEmpty /\ StartStat.stored = [d \in Directions |-> 0]
  BY <1>5 DEF StartStat, StatFields
<1>8. RttOK(NoStat) /\ RttOK(EndStat) /\ RttOK(StartStat)
  BY <1>2, <1>3, <1>4, <1>5, <1>6, <1>7 DEF RttOK
<1> QED
  BY <1>1, <1>5, <1>6, <1>7, <1>8 DEF IsStat, AppOK

\* A packet of a session.
LEMMA PacketKeepsStat ==
    ASSUME StatInv, NEW s \in Sessions, NEW p \in PacketsOf(s), ReceivePacket(s, p)
    PROVE  /\ StatInv'
           /\ LET c == [ul |-> cnt[s].ul + (1 - p.dir), dl |-> cnt[s].dl + p.dir, bytes |-> cnt[s].bytes + p.size]
              IN  \E b \in BOOLEAN :
                     /\ b => Handled("web")
                     /\ Counts(OpenedStat(s), c, stat'[s], b)
                     /\ sent' = [sent EXCEPT ![s] = sent[s] + (IF b THEN NewPackets(OpenedStat(s), c) ELSE 0)]
<1> DEFINE c == [ul |-> cnt[s].ul + (1 - p.dir), dl |-> cnt[s].dl + p.dir, bytes |-> cnt[s].bytes + p.size]
           new == OpenedStat(s)
           gtp == IF Handled("gtp") THEN GtpIpSrc(new, 4, p.teid) ELSE new
           done == AppHandlers(gtp, c, p)
           now == SumFunction([x \in Sessions |-> Total(cnt[x])]) + 1
           tcp == ReceiveTcp(done, p.dir, CHOOSE t \in p.tcp : TRUE, now)
           r == IF On("session") /\ On("qos") /\ p.tcp # {} THEN tcp ELSE done
           a == IF app[s] = "unknown" THEN p.app ELSE app[s]
<1>1. /\ live' = live \cup {s} /\ UNCHANGED <<conf, handlers>>
      /\ stat' = [stat EXCEPT ![s] = r] /\ app' = [app EXCEPT ![s] = a]
      /\ sent' = [sent EXCEPT ![s] = sent[s] + ReportedByRequest(gtp, c, p)]
  BY DEF ReceivePacket, StatInv
<1> HIDE DEF c, now
<1>2. IsStat(new) /\ AppOK(new, app[s]) /\ RttOK(new) /\ new.app_type # "null"
  <2>1. CASE s \in live
    BY <2>1 DEF OpenedStat, StatInv
  <2>2. CASE s \notin live
    <3>1. new = StartStat
      BY <2>2 DEF OpenedStat
    <3> HIDE DEF new
    <3> QED
      BY <3>1, StartStatOK
  <2> QED
    BY <2>1, <2>2
<1> HIDE DEF new
<1>3. IsStat(gtp) /\ AppOK(gtp, app[s]) /\ RttOK(gtp) /\ gtp.app_type # "null" /\ gtp.ul = new.ul /\ gtp.dl = new.dl
  <2>1. CASE ~Handled("gtp")
    BY <1>2, <2>1
  <2>2. CASE Handled("gtp")
    <3>1. On("gtp") /\ GtpAlone(conf) /\ p.teid \in Teids
      BY <2>2, ConfsAssumption, PacketFacts DEF StatInv, On, Handled
    <3>2. new.app_type \in {"IP", "GTP"}
      BY <1>2, <3>1 DEF AppOK, GtpAlone, On
    <3>3. gtp = GtpIpSrc(new, 4, p.teid)
      BY <2>2
    <3> HIDE DEF gtp
    <3>4. IsStat(gtp) /\ Same(new, gtp) /\ AppOK(gtp, app[s]) /\ gtp.app_type = "GTP"
      BY <1>2, <3>1, <3>2, <3>3, GtpKeeps
    <3> QED
      BY <1>2, <3>4 DEF SameRtt, Same, RttOK
  <2> QED
    BY <2>1, <2>2
<1> HIDE DEF gtp
<1>4. IsStat(done) /\ SameRtt(gtp, done) /\ done.app_type # "null" /\ AppOK(done, a)
      /\ Counts(gtp, c, done, HostSeen(gtp, p))
  BY <1>3, AppHandlersKeep DEF StatInv
<1> HIDE DEF done, a
<1>5. RttOK(done)
  BY <1>3, <1>4 DEF SameRtt, RttOK
<1>6. IsStat(r) /\ RttOK(r) /\ AppOK(r, a) /\ r.app_type # "null" /\ r.ul = done.ul /\ r.dl = done.dl
  <2>1. CASE r = done
    BY <1>4, <1>5, <2>1
  <2>2. CASE p.tcp # {} /\ r = tcp
    <3>1. (CHOOSE t \in p.tcp : TRUE) \in TcpHeaders /\ p.dir \in Directions
      BY <2>2, PacketFacts
    <3> DEFINE t == CHOOSE t \in p.tcp : TRUE
    <3> HIDE DEF t
    <3>2. t \in TcpHeaders /\ r = ReceiveTcp(done, p.dir, t, now)
      BY <2>2, <3>1 DEF t
    <3> HIDE DEF r
    <3>3. IsStat(r) /\ RttOK(r) /\ r.app_type = done.app_type /\ r.app = done.app /\ r.ul = done.ul /\ r.dl = done.dl
      BY <1>4, <1>5, <3>1, <3>2, ReceiveTcpKeeps
    <3> QED
      BY <1>4, <3>3 DEF AppOK
  <2> QED
    BY <2>1, <2>2
<1> HIDE DEF r
<1>7. \A x \in Sessions : /\ IsStat(stat'[x]) /\ AppOK(stat'[x], app'[x]) /\ RttOK(stat'[x])
                          /\ x \in live' => stat'[x].app_type # "null"
  BY <1>1, <1>6 DEF StatInv
<1>8. \A x \in Sessions : AppOK(stat[x], app[x])'
  <2> SUFFICES ASSUME NEW x \in Sessions PROVE AppOK(stat[x], app[x])'
    OBVIOUS
  <2>1. AppOK(stat'[x], app'[x])
    BY <1>7
  <2> QED
    BY <1>1, <2>1 DEF AppOK, On
<1>9. StatInv'
  BY <1>1, <1>7, <1>8 DEF StatInv, IsStat, RttOK
<1>10. NewPackets(gtp, c) = NewPackets(new, c)
  BY <1>3 DEF NewPackets
<1>11. PICK b \in BOOLEAN : b <=> HostSeen(gtp, p)
  OBVIOUS
<1>12. b => Handled("web")
  BY <1>11 DEF HostSeen
<1>13. Counts(new, c, stat'[s], b)
  <2>1. stat'[s] = r
    BY <1>1 DEF StatInv
  <2> QED
    BY <1>3, <1>4, <1>6, <1>10, <1>11, <2>1 DEF Counts
<1>14. sent' = [sent EXCEPT ![s] = sent[s] + (IF b THEN NewPackets(new, c) ELSE 0)]
  <2>1. ReportedByRequest(gtp, c, p) = IF HostSeen(gtp, p) THEN NewPackets(gtp, c) ELSE 0
    BY DEF ReportedByRequest, HostSeen
  <2>2. ReportedByRequest(gtp, c, p) = IF b THEN NewPackets(new, c) ELSE 0
    BY <1>10, <1>11, <2>1
  <2> QED
    BY <1>1, <2>2
<1> QED
  BY <1>9, <1>12, <1>13, <1>14 DEF new, c

\* A period reports on some of the sessions.
LEMMA PeriodKeepsStat ==
    ASSUME StatInv, StatPeriod, handlers' \subseteq handlers
    PROVE  StatInv'
<1> DEFINE due == PeriodSessions
<1>1. /\ UNCHANGED <<conf, live, app>>
      /\ stat' = [s \in Sessions |-> IF s \in due THEN DoReport(stat[s], cnt[s]) ELSE stat[s]]
  BY DEF StatPeriod
<1> HIDE DEF due
<1>2. ASSUME NEW s \in Sessions
      PROVE  /\ IsStat(stat'[s]) /\ AppOK(stat'[s], app[s]) /\ RttOK(stat'[s])
             /\ s \in live => stat'[s].app_type # "null"
  <2>1. IsStat(stat[s]) /\ AppOK(stat[s], app[s]) /\ RttOK(stat[s]) /\ (s \in live => stat[s].app_type # "null")
    BY DEF StatInv
  <2>2. CASE s \in due
    <3> DEFINE st == stat[s]
               c == cnt[s]
               r == DoReport(st, c)
    <3>1. stat'[s] = r
      BY <1>1, <2>2
    <3> HIDE DEF st, c
    <3>2. IsStat(r) /\ AppOK(r, app[s]) /\ SameRtt(st, r) /\ r.app_type = st.app_type
      BY <2>1, DoReportKeeps DEF st
    <3> QED
      BY <2>1, <3>1, <3>2 DEF SameRtt, RttOK, st
  <2>3. CASE s \notin due
    BY <1>1, <2>1, <2>3
  <2> QED
    BY <2>2, <2>3
<1>3. \A s \in Sessions : AppOK(stat[s], app[s])'
  <2> SUFFICES ASSUME NEW s \in Sessions PROVE AppOK(stat[s], app[s])'
    OBVIOUS
  <2>1. AppOK(stat'[s], app[s])
    BY <1>2
  <2> QED
    BY <1>1, <2>1 DEF AppOK, On
<1>4. DOMAIN stat' = Sessions
  BY <1>1
<1> QED
  BY <1>1, <1>2, <1>3, <1>4 DEF StatInv, IsStat, RttOK

\* The end of a session.
LEMMA EndKeepsStat ==
    ASSUME StatInv, NEW s \in Sessions, EndSession(s)
    PROVE  StatInv'
<1>1. /\ live' = live \ {s} /\ UNCHANGED <<conf, handlers, app>>
      /\ stat' = stat \/ stat' = [stat EXCEPT ![s] = EndStat]
  BY DEF EndSession
<1>2. \A x \in Sessions : /\ IsStat(stat'[x]) /\ AppOK(stat'[x], app[x]) /\ RttOK(stat'[x])
                          /\ x \in live' => stat'[x].app_type # "null"
  BY <1>1, StartStatOK DEF StatInv
<1>3. \A x \in Sessions : AppOK(stat[x], app[x])'
  <2> SUFFICES ASSUME NEW x \in Sessions PROVE AppOK(stat[x], app[x])'
    OBVIOUS
  <2>1. AppOK(stat'[x], app[x])
    BY <1>2
  <2> QED
    BY <1>1, <2>1 DEF AppOK, On
<1> QED
  BY <1>1, <1>2, <1>3 DEF StatInv, IsStat, RttOK

\* No step of the worker breaks the states of the sessions.
LEMMA StatStep == StatInv /\ [Next]_vars => StatInv'
<1> SUFFICES ASSUME StatInv, [Next]_vars PROVE StatInv'
  OBVIOUS
<1>1. ASSUME UNCHANGED <<conf, handlers, live, app, stat>> PROVE StatInv'
  BY <1>1 DEF StatInv, IsStat, AppOK, RttOK, On
<1>2. ASSUME NEW s \in Sessions, Packet(s) PROVE StatInv'
  BY <1>2, PacketKeepsStat DEF Packet
<1>3. ASSUME NEW s \in Sessions, SessionEnds(s) PROVE StatInv'
  BY <1>3, EndKeepsStat DEF SessionEnds
<1>4. CASE TimerStatPeriod
  BY <1>4, PeriodKeepsStat DEF TimerStatPeriod
<1>5. CASE OnStop
  <2>1. StatPeriod /\ CloseHandlers
    BY <1>5 DEF OnStop
  <2>2. handlers' \subseteq handlers
    BY <2>1 DEF CloseHandlers, UnregisterConditional, UnregisterEvent, SessionUnregister
  <2> QED
    BY <2>1, <2>2, PeriodKeepsStat
<1>6. CASE NoSessionPacket \/ AttributeSeen \/ Release \/ SecurityStep \/ UNCHANGED vars
  BY <1>1, <1>6 DEF NoSessionPacket, ReceiveNoSession, AttributeSeen, Release, ReleaseReports, SecurityStep, vars, svars
<1> QED
  BY <1>2, <1>3, <1>4, <1>5, <1>6 DEF Next

\* No session at first.
LEMMA StatInit == Init => StatInv
<1> SUFFICES ASSUME Init PROVE StatInv
  OBVIOUS
<1>1. /\ conf \in Confs /\ live = {} /\ app = [s \in Sessions |-> "unknown"] /\ stat = [s \in Sessions |-> NoStat]
      /\ handlers = RegisterConditional(SessionRegister(RegisterEvent({})), OtherReports \cap conf)
  BY DEF Init, SessionInit
<1>2. handlers \subseteq conf
  BY <1>1 DEF RegisterConditional, SessionRegister, RegisterEvent, On
<1> QED
  BY <1>1, <1>2, StartStatOK DEF StatInv

(* tcp_rtt.c: the list of unacknowledged packets of a direction stays sorted  *)
(* in descending order and holds exactly what was stored and not yet          *)
(* acknowledged.                                                              *)
THEOREM RttListsStaySorted == Spec => []RttSorted
<1>1. StatInv => RttSorted
  BY DEF StatInv, RttOK, IsPackets, RttSorted
<1> QED
  BY <1>1, StatInit, StatStep, PTL DEF Spec

\* The worker itself: its phase, its periods, the quality-of-service triple.
PhaseInv ==
    /\ phase \in {"run", "stopped", "closed"}
    /\ periods \in Nat /\ periods <= MaxPeriods + 1
    /\ phase = "run" => periods <= MaxPeriods
    /\ qos.qci = 0 \/ qos.ue_id = 0 \/ qos.teid = 0
    /\ DOMAIN qos = {"ue_id", "teid", "qci"}

\* A complete triple is reported and broken up.
LEMMA QosKeeps ==
    ASSUME PhaseInv, NEW field \in {"ue_id", "teid", "qci"}, NEW value, GotQos(field, value)
    PROVE  (qos.qci = 0 \/ qos.ue_id = 0 \/ qos.teid = 0)' /\ DOMAIN qos' = {"ue_id", "teid", "qci"}
<1> DEFINE new == [qos EXCEPT ![field] = value]
           full == new.ue_id # 0 /\ new.teid # 0 /\ new.qci # 0
<1>1. qos' = IF full THEN [new EXCEPT !.qci = 0] ELSE new
  BY DEF GotQos
<1>2. DOMAIN new = {"ue_id", "teid", "qci"}
  BY DEF PhaseInv
<1> HIDE DEF new
<1> QED
  BY <1>1, <1>2

\* Every step of the worker keeps them.
LEMMA PhaseStep == PhaseInv /\ [Next]_vars => PhaseInv'
<1> SUFFICES ASSUME PhaseInv, [Next]_vars PROVE PhaseInv'
  OBVIOUS
<1>1. ASSUME UNCHANGED <<phase, periods, qos>> PROVE PhaseInv'
  BY <1>1 DEF PhaseInv
<1>2. ASSUME NEW s \in Sessions, Packet(s) \/ SessionEnds(s) PROVE PhaseInv'
  BY <1>1, <1>2 DEF Packet, ReceivePacket, SessionEnds, EndSession, avars
<1>3. CASE AttributeSeen
  <2>1. PICK k \in {"event", "radius", "lte"} : Attribute(k)
    BY <1>3 DEF AttributeSeen
  <2>2. UNCHANGED <<phase, periods>>
    BY <1>3 DEF AttributeSeen, svars
  <2>3. CASE EventAttribute \/ RadiusAttribute
    BY <1>1, <2>2, <2>3 DEF EventAttribute, EventReport, RadiusAttribute, RadiusReport
  <2>4. CASE LteAttribute
    <3>1. ASSUME NEW e, GotS1ap(e) PROVE PhaseInv'
      BY <1>1, <2>2, <3>1 DEF GotS1ap
    <3>2. ASSUME NEW field \in {"ue_id", "teid", "qci"}, NEW value \in Ues, GotQos(field, value) PROVE PhaseInv'
      BY <2>2, <3>2, QosKeeps DEF PhaseInv
    <3> QED
      BY <2>4, <3>1, <3>2 DEF LteAttribute
  <2> QED
    BY <2>1, <2>3, <2>4 DEF Attribute
<1>4. CASE TimerStatPeriod
  <2>1. phase = "run" /\ periods < MaxPeriods /\ periods' = periods + 1 /\ UNCHANGED <<phase, qos>>
    BY <1>4 DEF TimerStatPeriod, StatPeriod, avars
  <2> QED
    BY <2>1, SessionAssumption DEF PhaseInv
<1>5. CASE OnStop
  <2>1. phase = "run" /\ phase' = "stopped" /\ periods' = periods + 1 /\ UNCHANGED qos
    BY <1>5 DEF OnStop, StatPeriod, avars
  <2> QED
    BY <2>1, SessionAssumption DEF PhaseInv
<1>6. CASE Release
  <2>1. phase' = "closed" /\ UNCHANGED <<periods, qos>>
    BY <1>6 DEF Release, ReleaseReports, avars
  <2> QED
    BY <2>1 DEF PhaseInv
<1>7. CASE NoSessionPacket \/ SecurityStep \/ UNCHANGED vars
  BY <1>1, <1>7 DEF NoSessionPacket, ReceiveNoSession, SecurityStep, vars, svars, avars
<1> QED
  BY <1>2, <1>3, <1>4, <1>5, <1>6, <1>7 DEF Next

(* session_report_{web,ssl,rtp,gtp}.c: no handler takes the statistic of a    *)
(* session for that of another application, whatever configuration passes     *)
(* conf_validate, and the array of TEIDs is not overrun; lte_qos_report.c: a  *)
(* complete triple is reported at once.                                       *)
THEOREM WorkerTypeOK == Spec => []TypeOK
<1>1. Init => PhaseInv /\ ForwardInv
  BY SessionAssumption DEF Init, SessionInit, AttributeInit, SecurityInit, ForwardInit, PhaseInv, ForwardInv
<1>2. StatInv /\ PhaseInv /\ ForwardInv => TypeOK
  <2> SUFFICES ASSUME StatInv, PhaseInv, ForwardInv PROVE TypeOK
    OBVIOUS
  <2>1. NoApp.kind = "null"
    BY DEF NoApp
  <2>2. \A s \in Sessions : /\ stat[s].app_type \in {"null", "IP", "WEB", "SSL", "RTP", "GTP"}
                            /\ stat[s].app.kind = "gtp" => Len(stat[s].app.teids) <= MaxTeids
    BY <2>1 DEF StatInv, AppOK
  <2> QED
    BY <2>2 DEF StatInv, PhaseInv, ForwardInv, TypeOK
<1> QED
  BY <1>1, <1>2, StatInit, StatStep, PhaseStep, ForwardStep, PTL DEF Spec
-----------------------------------------------------------------------------
(***************************************************************************)
(* Every packet is reported once.                                          *)
(***************************************************************************)
\* the configurations in which a session is reported either as itself or as a micro flow
Apart == On("session") /\ ~(On("web") /\ On("micro"))

\* What was reported of a session: while it lives, what its statistic remembers, and nothing
\* of a session that is still small enough for a micro flow; all of it when it has ended.
SessionCounts(s) ==
    /\ stat[s].ul \in Nat /\ stat[s].dl \in Nat
    /\ Total(cnt[s]) = 0 => s \notin live /\ sent[s] = 0 /\ counted[s] = 0
    /\ s \in live => counted[s] = 0
    /\ (Apart /\ s \in live) => sent[s] = stat[s].ul + stat[s].dl /\ (IsMicroSession(s) => sent[s] = 0)
    /\ (Apart /\ s \notin live) => sent[s] + counted[s] = Total(cnt[s])

CountInv ==
    /\ cnt \in [Sessions -> [ul : Nat, dl : Nat, bytes : Nat]]
    /\ sent \in [Sessions -> Int] /\ counted \in [Sessions -> Nat]
    /\ \A s \in Sessions : SessionCounts(s)

\* The micro flows: reported, or waiting in the statistics of their application.
MicroTotals == [a \in Apps |-> Total(micro[a])]
MicroInv ==
    /\ app \in [Sessions -> Apps]
    /\ micro \in [Apps -> [flows_nb : Nat, ul : Nat, dl : Nat, bytes : Nat]] /\ micro_sent \in Int
    /\ micro_sent + SumFunction(MicroTotals) = SumFunction(counted)
    /\ (~On("micro") \/ phase = "closed") => \A a \in Apps : Total(micro[a]) = 0

\* ARP packets and fragments that wait for the next period; the last one is at the stop.
ArpInv ==
    /\ arp \in [{"arp", "frag"} -> Nat]
    /\ \A k \in {"arp", "frag"} : (~On(k) \/ phase # "run") => arp[k] = 0

\* What a report adds to the packets reported so far.
LEMMA CountsAdd ==
    ASSUME NEW st, NEW c, NEW r, NEW b \in BOOLEAN, Counts(st, c, r, b),
           st.ul \in Nat, st.dl \in Nat, c.ul \in Nat, c.dl \in Nat
    PROVE  /\ r.ul \in Nat /\ r.dl \in Nat
           /\ r.ul + r.dl = (st.ul + st.dl) + (IF b THEN NewPackets(st, c) ELSE 0)
           /\ NewPackets(st, c) \in Int
<1>1. NewPackets(st, c) = (c.ul + c.dl) - (st.ul + st.dl)
  BY DEF NewPackets, Total
<1>2. CASE b /\ NewPackets(st, c) # 0
  BY <1>1, <1>2 DEF Counts
<1>3. CASE ~(b /\ NewPackets(st, c) # 0)
  BY <1>1, <1>3 DEF Counts
<1> QED
  BY <1>2, <1>3

\* A flow that grows does not become small.
LEMMA MicroShrinks ==
    ASSUME NEW c, NEW d, c.bytes \in Nat, d.bytes \in Nat, Total(c) \in Nat, Total(d) \in Nat,
           c.bytes <= d.bytes, Total(c) <= Total(d), IsMicro(d)
    PROVE  IsMicro(c)
  BY SessionAssumption DEF IsMicro

\* Sessions that a step leaves alone.
LEMMA CountsKept ==
    ASSUME NEW s, SessionCounts(s), conf' = conf, cnt'[s] = cnt[s], sent'[s] = sent[s], counted'[s] = counted[s],
           stat'[s] = stat[s], s \in live' <=> s \in live
    PROVE  SessionCounts(s)'
  BY DEF SessionCounts, Apart, On, IsMicroSession

\* A packet of a session.
LEMMA PacketCounts ==
    ASSUME StatInv, CountInv, NEW s \in Sessions, NEW p \in PacketsOf(s), ReceivePacket(s, p)
    PROVE  CountInv'
<1> DEFINE c == [ul |-> cnt[s].ul + (1 - p.dir), dl |-> cnt[s].dl + p.dir, bytes |-> cnt[s].bytes + p.size]
           new == OpenedStat(s)
           add(b) == IF b THEN NewPackets(new, c) ELSE 0
<1>1. /\ live' = live \cup {s} /\ conf' = conf /\ counted' = counted /\ cnt' = [cnt EXCEPT ![s] = c]
      /\ s \in live \/ Total(cnt[s]) = 0
  BY DEF ReceivePacket
<1>2. PICK b \in BOOLEAN :
         /\ b => Handled("web")
         /\ Counts(new, c, stat'[s], b)
         /\ sent' = [sent EXCEPT ![s] = sent[s] + add(b)]
  BY PacketKeepsStat
<1>3. p.dir \in {0, 1} /\ p.size \in Nat
  BY PacketFacts DEF Directions
<1>4. /\ cnt[s].ul \in Nat /\ cnt[s].dl \in Nat /\ cnt[s].bytes \in Nat /\ sent[s] \in Int /\ counted[s] \in Nat
      /\ DOMAIN cnt = Sessions /\ DOMAIN sent = Sessions
  BY DEF CountInv
<1>5. /\ c \in [ul : Nat, dl : Nat, bytes : Nat] /\ c.ul \in Nat /\ c.dl \in Nat /\ c.bytes \in Nat
      /\ Total(c) = Total(cnt[s]) + 1 /\ cnt[s].bytes <= c.bytes /\ Total(cnt[s]) \in Nat
  BY <1>3, <1>4 DEF Total
<1> HIDE DEF c
<1>6. /\ new.ul \in Nat /\ new.dl \in Nat /\ counted[s] = 0
      /\ Apart => sent[s] = new.ul + new.dl /\ (IsMicroSession(s) => sent[s] = 0)
  <2>1. SessionCounts(s)
    BY DEF CountInv
  <2>2. CASE s \in live
    BY <2>1, <2>2 DEF SessionCounts, OpenedStat
  <2>3. CASE s \notin live
    <3>1. Total(cnt[s]) = 0 /\ new = StartStat
      BY <1>1, <2>3 DEF OpenedStat
    <3>2. StartStat.ul = 0 /\ StartStat.dl = 0
      BY DEF StartStat, NoStat
    <3> HIDE DEF new
    <3> QED
      BY <2>1, <3>1, <3>2 DEF SessionCounts
  <2> QED
    BY <2>2, <2>3
<1> HIDE DEF new
<1>7. /\ stat'[s].ul \in Nat /\ stat'[s].dl \in Nat /\ add(b) \in Int
      /\ stat'[s].ul + stat'[s].dl = (new.ul + new.dl) + add(b)
  BY <1>2, <1>5, <1>6, CountsAdd
<1>8. b => On("web")
  BY <1>2 DEF StatInv, Handled, On
<1>9. ~b => add(b) = 0
  OBVIOUS
<1> HIDE DEF add
<1>10. sent'[s] = sent[s] + add(b) /\ counted'[s] = 0 /\ cnt'[s] = c /\ s \in live'
  BY <1>1, <1>2, <1>4, <1>6
<1>11. SessionCounts(s)'
  <2>1. Total(cnt'[s]) # 0
    BY <1>5, <1>10
  <2>2. Apart => sent'[s] = stat'[s].ul + stat'[s].dl
    BY <1>6, <1>7, <1>10
  <2>3. (Apart /\ On("micro") /\ IsMicro(cnt'[s])) => sent'[s] = 0
    <3> SUFFICES ASSUME Apart, On("micro"), IsMicro(c) PROVE sent'[s] = 0
      BY <1>10
    <3>1. IsMicro(cnt[s])
      <4>1. Total(c) \in Nat /\ Total(cnt[s]) <= Total(c)
        BY <1>5
      <4> QED
        BY <1>4, <1>5, <4>1, MicroShrinks
    <3>2. sent[s] = 0 /\ ~b
      BY <1>6, <1>8, <3>1 DEF IsMicroSession, Apart
    <3> QED
      BY <1>9, <1>10, <3>2
  <2> QED
    BY <1>1, <1>7, <1>10, <2>1, <2>2, <2>3 DEF SessionCounts, Apart, On, IsMicroSession
<1>12. ASSUME NEW x \in Sessions, x # s PROVE SessionCounts(x)'
  <2>1. SessionCounts(x)
    BY DEF CountInv
  <2>2. stat'[x] = stat[x]
    BY <1>12 DEF ReceivePacket, StatInv
  <2> QED
    BY <1>1, <1>2, <1>4, <1>12, <2>1, <2>2, CountsKept
<1>13. cnt' \in [Sessions -> [ul : Nat, dl : Nat, bytes : Nat]] /\ sent' \in [Sessions -> Int] /\ counted' \in [Sessions -> Nat]
  <2>1. sent[s] + add(b) \in Int
    BY <1>4, <1>7
  <2> QED
    BY <1>1, <1>2, <1>5, <2>1 DEF CountInv
<1> QED
  BY <1>11, <1>12, <1>13 DEF CountInv

\* A period reports what is new in the sessions that are due.
LEMMA PeriodCounts == ASSUME StatInv, CountInv, StatPeriod PROVE CountInv'
<1> DEFINE due == PeriodSessions
<1>1. /\ UNCHANGED <<conf, live, cnt, counted>>
      /\ stat' = [s \in Sessions |-> IF s \in due THEN DoReport(stat[s], cnt[s]) ELSE stat[s]]
      /\ sent' = [s \in Sessions |-> IF s \in due THEN sent[s] + NewPackets(stat[s], cnt[s]) ELSE sent[s]]
  BY DEF StatPeriod
<1>2. \A s \in due : On("session") /\ s \in live /\ ~IsMicroSession(s)
  BY DEF PeriodSessions
<1> HIDE DEF due
<1>3. ASSUME NEW s \in Sessions PROVE SessionCounts(s)' /\ sent'[s] \in Int
  <2>1. SessionCounts(s) /\ sent[s] \in Int
    BY DEF CountInv
  <2>2. CASE s \notin due
    <3>1. stat'[s] = stat[s] /\ sent'[s] = sent[s]
      BY <1>1, <2>2
    <3> QED
      BY <1>1, <2>1, <3>1, CountsKept
  <2>3. CASE s \in due
    <3> DEFINE st == stat[s]
               c == cnt[s]
               r == DoReport(st, c)
    <3>1. stat'[s] = r /\ sent'[s] = sent[s] + NewPackets(st, c)
      BY <1>1, <2>3
    <3>2. IsStat(st) /\ AppOK(st, app[s])
      BY DEF StatInv
    <3>3. st.ul \in Nat /\ st.dl \in Nat /\ c.ul \in Nat /\ c.dl \in Nat
      BY <2>1 DEF CountInv, SessionCounts
    <3> HIDE DEF st, c
    <3>4. Counts(st, c, r, TRUE)
      BY <3>2, DoReportKeeps
    <3> HIDE DEF r
    <3>5. /\ r.ul \in Nat /\ r.dl \in Nat /\ NewPackets(st, c) \in Int
          /\ r.ul + r.dl = (st.ul + st.dl) + NewPackets(st, c)
      BY <3>3, <3>4, CountsAdd
    <3>6. s \in live /\ ~IsMicroSession(s) /\ Total(cnt[s]) # 0 /\ counted[s] = 0 /\ (Apart => sent[s] = st.ul + st.dl)
      BY <1>2, <2>1, <2>3 DEF SessionCounts, st
    <3>7. Apart => sent'[s] = stat'[s].ul + stat'[s].dl
      BY <3>1, <3>5, <3>6
    <3>8. sent'[s] \in Int /\ stat'[s].ul \in Nat /\ stat'[s].dl \in Nat
      BY <2>1, <3>1, <3>5
    <3> QED
      BY <1>1, <3>6, <3>7, <3>8 DEF SessionCounts, Apart, On, IsMicroSession
  <2> QED
    BY <2>2, <2>3
<1>4. sent' \in [Sessions -> Int]
  <2>1. sent' = [s \in Sessions |-> sent'[s]]
    BY <1>1
  <2> QED
    BY <1>3, <2>1
<1> QED
  BY <1>1, <1>3, <1>4 DEF CountInv

\* A session ends: as a micro flow when it is small, or with the last report on it.
LEMMA EndCounts == ASSUME StatInv, CountInv, NEW s \in Sessions, EndSession(s) PROVE CountInv'
<1>1. /\ s \in live /\ live' = live \ {s} /\ UNCHANGED <<conf, cnt>>
      /\ counted' = IF IsMicroSession(s) THEN [counted EXCEPT ![s] = counted[s] + Total(cnt[s])] ELSE counted
      /\ sent' = IF On("session") /\ ~IsMicroSession(s)
                 THEN [sent EXCEPT ![s] = sent[s] + NewPackets(stat[s], cnt[s])] ELSE sent
      /\ stat' = IF On("session") THEN [stat EXCEPT ![s] = EndStat] ELSE stat
  BY DEF EndSession, MicroUpdate
<1>2. /\ cnt[s].ul \in Nat /\ cnt[s].dl \in Nat /\ sent[s] \in Int /\ counted[s] \in Nat /\ SessionCounts(s)
      /\ sent \in [Sessions -> Int] /\ counted \in [Sessions -> Nat] /\ cnt \in [Sessions -> [ul : Nat, dl : Nat, bytes : Nat]]
  BY DEF CountInv
<1>3. stat[s].ul \in Nat /\ stat[s].dl \in Nat /\ counted[s] = 0 /\ Total(cnt[s]) # 0 /\ Total(cnt[s]) \in Nat
      /\ (Apart => sent[s] = stat[s].ul + stat[s].dl /\ (IsMicroSession(s) => sent[s] = 0))
  BY <1>1, <1>2 DEF SessionCounts, Total
<1>4. NewPackets(stat[s], cnt[s]) = Total(cnt[s]) - (stat[s].ul + stat[s].dl) /\ NewPackets(stat[s], cnt[s]) \in Int
  BY <1>3 DEF NewPackets
<1>5. /\ sent'[s] \in Int /\ counted'[s] \in Nat /\ stat'[s].ul \in Nat /\ stat'[s].dl \in Nat
      /\ Apart => sent'[s] + counted'[s] = Total(cnt[s])
  <2>1. EndStat.ul = 0 /\ EndStat.dl = 0
    BY DEF EndStat, NoStat
  <2>2. stat'[s].ul \in Nat /\ stat'[s].dl \in Nat
    BY <1>1, <1>3, <2>1 DEF StatInv
  <2> DEFINE n == NewPackets(stat[s], cnt[s])
             t == Total(cnt[s])
             d == stat[s].ul + stat[s].dl
  <2>3. n = t - d /\ t \in Nat /\ d \in Nat /\ (Apart => sent[s] = d)
    BY <1>3, <1>4
  <2> HIDE DEF n, t, d
  <2>4. CASE IsMicroSession(s)
    <3>1. sent' = sent /\ counted'[s] = counted[s] + t
      BY <1>1, <1>2, <2>4 DEF t
    <3> QED
      BY <1>2, <1>3, <2>2, <2>3, <2>4, <3>1 DEF t
  <2>5. CASE ~IsMicroSession(s)
    <3>1. counted' = counted /\ (On("session") => sent'[s] = sent[s] + n) /\ (~On("session") => sent' = sent)
      BY <1>1, <1>2, <2>5 DEF n
    <3>2. Apart => On("session")
      BY DEF Apart
    <3>3. On("session") \in BOOLEAN
      BY DEF On
    <3> QED
      BY <1>2, <1>3, <2>2, <2>3, <3>1, <3>2, <3>3 DEF t
  <2> QED
    BY <2>4, <2>5
<1>6. SessionCounts(s)'
  BY <1>1, <1>3, <1>5 DEF SessionCounts, Apart, On
<1>7. ASSUME NEW x \in Sessions, x # s PROVE SessionCounts(x)'
  <2>1. SessionCounts(x)
    BY DEF CountInv
  <2>2. stat'[x] = stat[x] /\ sent'[x] = sent[x] /\ counted'[x] = counted[x]
    BY <1>1, <1>2, <1>7 DEF StatInv
  <2> QED
    BY <1>1, <1>7, <2>1, <2>2, CountsKept
<1>8. sent' \in [Sessions -> Int] /\ counted' \in [Sessions -> Nat]
  <2>1. sent[s] + NewPackets(stat[s], cnt[s]) \in Int /\ counted[s] + Total(cnt[s]) \in Nat
    BY <1>2, <1>3, <1>4
  <2> QED
    BY <1>1, <1>2, <2>1
<1> QED
  BY <1>1, <1>2, <1>6, <1>7, <1>8 DEF CountInv

\* No step of the worker breaks the accounts of the sessions.
LEMMA CountStep == StatInv /\ CountInv /\ [Next]_vars => CountInv'
<1> SUFFICES ASSUME StatInv, CountInv, [Next]_vars PROVE CountInv'
  OBVIOUS
<1>1. ASSUME UNCHANGED <<conf, live, cnt, stat, sent, counted>> PROVE CountInv'
  <2>1. \A s \in Sessions : SessionCounts(s)'
    BY <1>1, CountsKept DEF CountInv
  <2> QED
    BY <1>1, <2>1 DEF CountInv
<1>2. ASSUME NEW s \in Sessions, Packet(s) PROVE CountInv'
  BY <1>2, PacketCounts DEF Packet
<1>3. ASSUME NEW s \in Sessions, SessionEnds(s) PROVE CountInv'
  BY <1>3, EndCounts DEF SessionEnds
<1>4. CASE TimerStatPeriod \/ OnStop
  BY <1>4, PeriodCounts DEF TimerStatPeriod, OnStop
<1>5. CASE NoSessionPacket \/ AttributeSeen \/ Release \/ SecurityStep \/ UNCHANGED vars
  BY <1>1, <1>5 DEF NoSessionPacket, ReceiveNoSession, AttributeSeen, Release, ReleaseReports, SecurityStep, vars, svars
<1> QED
  BY <1>2, <1>3, <1>4, <1>5 DEF Next

\* No packet at first.
LEMMA CountInit == Init => CountInv
<1> SUFFICES ASSUME Init PROVE CountInv
  OBVIOUS
<1>1. /\ live = {} /\ cnt = [s \in Sessions |-> NoCount] /\ stat = [s \in Sessions |-> NoStat]
      /\ sent = [s \in Sessions |-> 0] /\ counted = [s \in Sessions |-> 0]
  BY DEF Init, SessionInit
<1>2. NoCount \in [ul : Nat, dl : Nat, bytes : Nat] /\ Total(NoCount) = 0 /\ NoStat.ul = 0 /\ NoStat.dl = 0
  BY DEF NoCount, Total, NoStat
<1>3. ASSUME NEW s \in Sessions PROVE SessionCounts(s)
  <2>1. cnt[s] = NoCount /\ stat[s] = NoStat /\ sent[s] = 0 /\ counted[s] = 0 /\ s \notin live
    BY <1>1
  <2> QED
    BY <1>2, <2>1 DEF SessionCounts
<1> QED
  BY <1>1, <1>2, <1>3 DEF CountInv

\* Nothing waits in statistics that are all empty.
LEMMA NoTotals ==
    ASSUME \A a \in Apps : Total(micro[a]) = 0
    PROVE  SumFunction(MicroTotals) = 0
<1>1. MicroTotals \in [Apps -> {0}]
  BY DEF MicroTotals
<1> QED
  BY <1>1, SumOfZeros, SessionAssumption

\* A micro flow that ends is reported or waits in the statistics of its application.
LEMMA MicroUpdateAdds ==
    ASSUME MicroInv, NEW a \in Apps, NEW c \in [ul : Nat, dl : Nat, bytes : Nat], MicroUpdate(a, c)
    PROVE  /\ micro' \in [Apps -> [flows_nb : Nat, ul : Nat, dl : Nat, bytes : Nat]] /\ micro_sent' \in Int
           /\ micro_sent' + SumFunction(MicroTotals') = micro_sent + SumFunction(MicroTotals) + Total(c)
           /\ SumFunction(MicroTotals) \in Int
<1> DEFINE R == [flows_nb : Nat, ul : Nat, dl : Nat, bytes : Nat]
           m == [flows_nb |-> micro[a].flows_nb + 1, ul |-> micro[a].ul + c.ul,
                 dl |-> micro[a].dl + c.dl, bytes |-> micro[a].bytes + c.bytes]
           t == Total(micro[a])
<1>1. micro \in [Apps -> R] /\ micro[a] \in R /\ micro_sent \in Int
  BY DEF MicroInv
<1>2. m \in R /\ NoMicro \in R /\ Total(m) = t + Total(c) /\ Total(NoMicro) = 0 /\ t \in Int /\ Total(c) \in Int
  BY <1>1 DEF Total, NoMicro
<1>3. PICK n \in {m, NoMicro} :
         /\ micro' = [micro EXCEPT ![a] = n]
         /\ micro_sent' = micro_sent + (Total(m) - Total(n))
  <2>1. CASE MicroFull(m)
    <3>1. micro' = [micro EXCEPT ![a] = NoMicro] /\ micro_sent' = micro_sent + Total(m)
      BY <2>1 DEF MicroUpdate
    <3> HIDE DEF m, t
    <3>2. Total(m) - Total(NoMicro) = Total(m)
      BY <1>2
    <3> QED
      BY <3>1, <3>2
  <2>2. CASE ~MicroFull(m)
    <3>1. micro' = [micro EXCEPT ![a] = m] /\ micro_sent' = micro_sent
      BY <2>2 DEF MicroUpdate
    <3> HIDE DEF m, t
    <3>2. micro_sent = micro_sent + (Total(m) - Total(m))
      BY <1>1, <1>2
    <3> QED
      BY <3>1, <3>2
  <2> QED
    BY <2>1, <2>2
<1> HIDE DEF m, t
<1>4. n \in R /\ Total(n) \in Int /\ micro' \in [Apps -> R] /\ micro_sent' \in Int
  <2>1. n \in R /\ Total(n) \in Int
    BY <1>2, <1>3
  <2> QED
    BY <1>1, <1>2, <1>3, <2>1
<1>5. SumFunction(MicroTotals') = SumFunction(MicroTotals) + (Total(n) - t) /\ SumFunction(MicroTotals) \in Int
  <2> DEFINE f == MicroTotals
             g == MicroTotals'
  <2>1. f \in [Apps -> Int] /\ g \in [Apps -> Int]
    <3>1. \A r \in R : Total(r) \in Int
      BY DEF Total
    <3> QED
      BY <1>1, <1>4, <3>1 DEF MicroTotals
  <2>2. g[a] = Total(n) /\ f[a] = t /\ \A b \in Apps : b # a => g[b] = f[b]
    BY <1>1, <1>3 DEF MicroTotals, t
  <2> HIDE DEF f, g
  <2>3. /\ SumFunction(g) = SumFunction(f) + (g[a] - f[a])
        /\ SumFunction(f) \in Int
    BY <2>1, <2>2, SumChangesBy, SessionAssumption
  <2>4. SumFunction(g) = SumFunction(f) + (Total(n) - t) /\ SumFunction(f) \in Int
    BY <2>2, <2>3
  <2> QED
    BY <2>4 DEF f, g
<1> DEFINE S == SumFunction(MicroTotals)
           S2 == SumFunction(MicroTotals')
<1>6. /\ S2 = S + (Total(n) - t) /\ S \in Int /\ micro_sent' = micro_sent + (Total(m) - Total(n))
      /\ Total(m) = t + Total(c) /\ t \in Int /\ Total(c) \in Int /\ Total(n) \in Int /\ micro_sent \in Int
  BY <1>1, <1>2, <1>3, <1>4, <1>5
<1> HIDE DEF S, S2
<1>7. micro_sent' + S2 = micro_sent + S + Total(c)
  BY ONLY <1>6
<1> QED
  BY <1>4, <1>5, <1>7 DEF S, S2

\* The end of a session.
LEMMA EndMicro == ASSUME CountInv, MicroInv, NEW s \in Sessions, EndSession(s), phase' # "closed" PROVE MicroInv'
<1>1. conf' = conf /\ app' = app /\ app[s] \in Apps
  BY DEF EndSession, MicroInv
<1>2. CASE ~IsMicroSession(s)
  <2>1. UNCHANGED <<micro, micro_sent, counted>>
    BY <1>2 DEF EndSession
  <2> QED
    BY <1>1, <2>1 DEF MicroInv, MicroTotals, On
<1>3. CASE IsMicroSession(s)
  <2>1. MicroUpdate(app[s], cnt[s]) /\ counted' = [counted EXCEPT ![s] = counted[s] + Total(cnt[s])]
    BY <1>3 DEF EndSession
  <2>2. cnt[s] \in [ul : Nat, dl : Nat, bytes : Nat] /\ Total(cnt[s]) \in Nat /\ counted \in [Sessions -> Nat] /\ counted[s] \in Nat
    BY DEF CountInv, Total
  <2>3. /\ micro' \in [Apps -> [flows_nb : Nat, ul : Nat, dl : Nat, bytes : Nat]] /\ micro_sent' \in Int
        /\ micro_sent' + SumFunction(MicroTotals') = micro_sent + SumFunction(MicroTotals) + Total(cnt[s])
    BY <1>1, <2>1, <2>2, MicroUpdateAdds
  <2>4. SumFunction(counted') = SumFunction(counted) + Total(cnt[s])
    <3> DEFINE k == counted[s] + Total(cnt[s])
               f == counted
               g == [counted EXCEPT ![s] = k]
    <3>1. k \in Int /\ k - counted[s] = Total(cnt[s])
      BY <2>2
    <3>2. f \in [Sessions -> Int] /\ g \in [Sessions -> Int] /\ g[s] = k /\ f[s] = counted[s]
          /\ \A y \in Sessions : y # s => g[y] = f[y]
      BY <2>2, <3>1
    <3> HIDE DEF f, g, k
    <3>3. SumFunction(g) = SumFunction(f) + (g[s] - f[s])
      BY <3>2, SumChangesBy, SessionAssumption
    <3>4. SumFunction(g) = SumFunction(f) + Total(cnt[s])
      BY <3>1, <3>2, <3>3
    <3> QED
      BY <2>1, <3>4 DEF f, g, k
  <2>5. micro_sent + SumFunction(MicroTotals) = SumFunction(counted)
    BY DEF MicroInv
  <2>6. On("micro") /\ On("micro")'
    BY <1>1, <1>3 DEF IsMicroSession, On
  <2> QED
    BY <1>1, <2>3, <2>4, <2>5, <2>6 DEF MicroInv
<1> QED
  BY <1>2, <1>3

\* No step of the worker loses a micro flow or reports it twice.
LEMMA MicroStep == CountInv /\ MicroInv /\ [Next]_vars => MicroInv'
<1> SUFFICES ASSUME CountInv, MicroInv, [Next]_vars PROVE MicroInv'
  OBVIOUS
<1>1. ASSUME UNCHANGED <<conf, app, micro, micro_sent, counted>>, phase' = "closed" => phase = "closed" PROVE MicroInv'
  BY <1>1 DEF MicroInv, MicroTotals, On
<1>2. ASSUME NEW s \in Sessions, Packet(s) PROVE MicroInv'
  <2>1. PICK p \in PacketsOf(s) : ReceivePacket(s, p)
    BY <1>2 DEF Packet
  <2>2. /\ UNCHANGED <<conf, micro, micro_sent, counted, phase>>
        /\ app' = [app EXCEPT ![s] = IF app[s] = "unknown" THEN p.app ELSE app[s]]
    BY <1>2, <2>1 DEF Packet, ReceivePacket
  <2>3. app' \in [Sessions -> Apps]
    BY <2>2, PacketFacts DEF MicroInv
  <2> QED
    BY <2>2, <2>3 DEF MicroInv, MicroTotals, On
<1>3. ASSUME NEW s \in Sessions, SessionEnds(s) PROVE MicroInv'
  BY <1>3, EndMicro DEF SessionEnds
<1>4. CASE Release
  <2>1. ReleaseReports /\ phase' = "closed"
    BY <1>4 DEF Release
  <2>2. CASE ~On("micro")
    BY <2>1, <2>2 DEF ReleaseReports, MicroInv, MicroTotals, On
  <2>3. CASE On("micro")
    <3>1. /\ UNCHANGED <<conf, app, counted>> /\ micro' = [a \in Apps |-> NoMicro]
          /\ micro_sent' = micro_sent + SumFunction(MicroTotals)
      BY <2>1, <2>3 DEF ReleaseReports, MicroRelease, MicroTotals
    <3>2. \A a \in Apps : Total(micro'[a]) = 0
      BY <3>1 DEF Total, NoMicro
    <3>3. SumFunction(MicroTotals') = 0
      <4>1. MicroTotals' \in [Apps -> {0}]
        BY <3>2 DEF MicroTotals
      <4> QED
        BY <4>1, SumOfZeros, SessionAssumption
    <3>4. SumFunction(MicroTotals) \in Int /\ micro_sent \in Int
      <4>1. MicroTotals \in [Apps -> Int]
        BY DEF MicroInv, MicroTotals, Total
      <4>2. "unknown" \in Apps /\ IsFiniteSet(Apps)
        BY SessionAssumption
      <4> DEFINE f == MicroTotals
      <4> HIDE DEF f
      <4>3. SumFunction(f) \in Int
        BY <4>1, <4>2, SumChangesBy DEF f
      <4> QED
        BY <4>3 DEF f, MicroInv
    <3>5. NoMicro \in [flows_nb : Nat, ul : Nat, dl : Nat, bytes : Nat]
      BY DEF NoMicro
    <3>6. micro' \in [Apps -> [flows_nb : Nat, ul : Nat, dl : Nat, bytes : Nat]]
      BY <3>1, <3>5
    <3>7. micro_sent + SumFunction(MicroTotals) = SumFunction(counted)
      BY DEF MicroInv
    <3>8. micro_sent' \in Int /\ micro_sent' + SumFunction(MicroTotals') = SumFunction(counted')
      BY <3>1, <3>3, <3>4, <3>7
    <3> QED
      BY <3>1, <3>2, <3>6, <3>8 DEF MicroInv
  <2> QED
    BY <2>2, <2>3
<1>5. CASE TimerStatPeriod \/ OnStop \/ NoSessionPacket \/ AttributeSeen \/ SecurityStep \/ UNCHANGED vars
  BY <1>1, <1>5 DEF TimerStatPeriod, OnStop, StatPeriod, NoSessionPacket, ReceiveNoSession, AttributeSeen,
                    SecurityStep, vars, svars
<1> QED
  BY <1>2, <1>3, <1>4, <1>5 DEF Next

\* A period reports what waits of ARP packets and fragments.
LEMMA PeriodArp == ASSUME ArpInv, StatPeriod PROVE /\ arp' \in [{"arp", "frag"} -> Nat]
                                                   /\ \A k \in {"arp", "frag"} : arp'[k] = 0
<1>1. arp' = [k \in {"arp", "frag"} |-> arp[k] - (IF On(k) THEN arp[k] ELSE 0)]
  BY DEF StatPeriod, NoSessionReport, ArpInv
<1>2. ASSUME NEW k \in {"arp", "frag"} PROVE arp'[k] = 0
  <2>1. arp[k] \in Nat /\ (~On(k) => arp[k] = 0) /\ arp'[k] = arp[k] - (IF On(k) THEN arp[k] ELSE 0)
    BY <1>1 DEF ArpInv
  <2> QED
    BY <2>1
<1> QED
  BY <1>1, <1>2

\* No ARP packet or fragment waits after the last period.
LEMMA ArpStep == ArpInv /\ [Next]_vars => ArpInv'
<1> SUFFICES ASSUME ArpInv, [Next]_vars PROVE ArpInv'
  OBVIOUS
<1>1. ASSUME UNCHANGED <<conf, arp>>, phase = "run" => phase' = "run" PROVE ArpInv'
  BY <1>1 DEF ArpInv, On
<1>2. ASSUME NEW s \in Sessions, Packet(s) \/ SessionEnds(s) PROVE ArpInv'
  BY <1>1, <1>2 DEF Packet, ReceivePacket, SessionEnds, EndSession
<1>3. CASE NoSessionPacket
  <2>1. PICK k \in {"arp", "frag"} : On(k) /\ ReceiveNoSession(k)
    BY <1>3 DEF NoSessionPacket
  <2>2. arp' = [arp EXCEPT ![k] = arp[k] + 1] /\ conf' = conf /\ phase = "run" /\ phase' = "run"
    BY <1>3, <2>1 DEF NoSessionPacket, ReceiveNoSession
  <2> QED
    BY <2>1, <2>2 DEF ArpInv, On
<1>4. CASE TimerStatPeriod \/ OnStop
  BY <1>4, PeriodArp DEF TimerStatPeriod, OnStop, ArpInv
<1>5. CASE Release
  BY <1>5 DEF Release, ReleaseReports, ArpInv, On
<1>6. CASE AttributeSeen \/ SecurityStep \/ UNCHANGED vars
  BY <1>1, <1>6 DEF AttributeSeen, SecurityStep, vars, svars
<1> QED
  BY <1>2, <1>3, <1>4, <1>5, <1>6 DEF Next

(* dpi.c: when a worker is released, every packet of every session was        *)
(* reported exactly once, in the session's own reports or in the micro flows  *)
(* of its application, and no ARP packet or fragment is left unreported.      *)
THEOREM TrafficReportedOnce == Spec => []TrafficOnce
<1>1. Init => MicroInv /\ ArpInv
  <2> SUFFICES ASSUME Init PROVE MicroInv /\ ArpInv
    OBVIOUS
  <2>1. /\ app = [s \in Sessions |-> "unknown"] /\ micro = [a \in Apps |-> NoMicro] /\ micro_sent = 0
        /\ counted = [s \in Sessions |-> 0] /\ arp = [arp |-> 0, frag |-> 0]
    BY DEF Init, SessionInit
  <2>2. NoMicro \in [flows_nb : Nat, ul : Nat, dl : Nat, bytes : Nat] /\ Total(NoMicro) = 0
    BY DEF NoMicro, Total
  <2>3. \A a \in Apps : Total(micro[a]) = 0
    BY <2>1, <2>2
  <2>4. SumFunction(counted) = 0
    <3>1. counted \in [Sessions -> {0}]
      BY <2>1
    <3> QED
      BY <3>1, SumOfZeros, SessionAssumption
  <2>5. MicroInv
    BY <2>1, <2>2, <2>3, <2>4, NoTotals, SessionAssumption DEF MicroInv
  <2>6. ArpInv
    BY <2>1 DEF ArpInv
  <2> QED
    BY <2>5, <2>6
<1>2. CountInv /\ MicroInv /\ ArpInv /\ HttpLive => TrafficOnce
  <2> SUFFICES ASSUME CountInv, MicroInv, ArpInv, HttpLive, phase = "closed" PROVE TrafficOnce
    BY DEF TrafficOnce
  <2>1. ASSUME Apart, NEW s \in Sessions PROVE sent[s] + counted[s] = Total(cnt[s])
    BY <2>1 DEF HttpLive, CountInv, SessionCounts
  <2>2. micro_sent = SumFunction(counted)
    <3>1. SumFunction(MicroTotals) = 0
      BY NoTotals DEF MicroInv
    <3> QED
      BY <3>1 DEF MicroInv
  <2>3. arp = [arp |-> 0, frag |-> 0]
    BY DEF ArpInv
  <2> QED
    BY <2>1, <2>2, <2>3 DEF TrafficOnce, Apart
<1> QED
  BY <1>1, <1>2, HttpStarts, StatInit, CountInit, StatStep, CountStep, MicroStep, ArpStep, HttpStep, PTL DEF Spec
=============================================================================
