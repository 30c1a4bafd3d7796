# A TLA+ model of MMT-Probe

MMT-Probe captures network traffic, hands every packet to the MMT-DPI library
and writes reports to files or message brokers.  These modules model the probe
from its command line to its reports: the processes and the command bus, the
two captures with several threads, the worker with what it keeps per session,
the outputs, and the configuration.  TLC checks them on small instances and
TLAPS proves the central ones for every value of their constants.  Paths below
are relative to the repository.

## The system

| part | state it keeps | operations | hard behaviour |
|---|---|---|---|
| SPSC ring (`src/modules/packet_capture/pcap/lock_free_spsc_ring.*`, `data_spsc_ring.*`) | head, tail, a cached copy of each, index array, packet slots | get_tmp_element, push, pop, pop_bulk, get_data, update_tail | two threads without a lock, stale copies, wrap-around |
| pcap capture (`pcap_capture.c`) | rings, worker threads, counters, `is_exiting` | dispatch loop, drop or wait when full, break packets, join, release | signals at any moment, stop protocol, counters of several threads |
| monitor process (`src/main.c`) | `children_pids`, its configuration | fork, waitpid, re-create, exit | crashes, exit codes, signals before handlers exist |
| dynamic configuration (`src/modules/dynamic_conf`) | `mmt_bus` in shared memory: one message, reply code, subscribers, mutex | publish, subscribe, check, callback; start, stop, update | three processes, a process dying with the mutex |
| worker (`src/worker.*`) | per-thread DPI handler, counters | start, process a packet, timers, stop | runs on the thread of its capture |
| DPDK capture (`packet_capture/dpdk`) | DPDK rings, a buffer per worker in each reader, counters | poll, push a burst, retry, free; statistics; stop | partial bursts, three kinds of threads that wait for each other |
| stream capture (`packet_capture/stream`) | one buffer | read loop | none of its own |
| output (`modules/output/output.c`) | channels, a mutex | write, flush, release | called by the main and the statistics thread |
| file output | current file, message count | write, flush with rotation, retention | several outputs share a directory; partial failures |
| redis output (`redis.c`, `thredis.c`) | connection, queue of waiters, reader thread | command, deliver, close | condition variables, close while busy |
| kafka, mongodb, socket outputs | client handles; mongodb a cache | send, flush | cache at its limit, refusals |
| statistics routine (`modules/routine`) | a thread with two timers | report, flush, cancel | cancelled with a mutex locked |
| DPI sessions and reports (`modules/dpi`) | per-session counters, lists, files | create, update, expire, report | long sequences of callbacks |
| security, forwarding (`modules/security`) | rule engine handle, a mark, counters | verdict, forward, drop | a mark that outlives its packet |
| configuration (`configure.c`, `configure_override.c`) | typed values | load, override, validate, update | widths, conversions, three sources of one value |
| license (`modules/license`) | nothing | check | outcomes that stop the probe |

The monitor forks the processing process (capture, workers, DPI, outputs) and
the control process (a UNIX socket).  The control process publishes commands on
`mmt_bus`; the monitor polls the bus once per turn of its loop and signals the
processing process (SIGINT to stop, SIGUSR2 to restart).  Inside the processing
process the reader feeds one ring per worker; every worker owns its DPI handler
and its output, the statistics output is shared.

What makes each part correct: a ring loses, repeats and reorders nothing and
never lets the reader touch a slot the worker reads; the capture accounts for
every packet and always ends; the monitor knows its children, re-creates the
crashed ones and only those; the bus accepts commands again and again; an
accepted configuration is in force in the end.  A worker reports the traffic of
a session once, whichever of the callbacks comes first; the outputs keep the
order of reports and a directory a reader can trust; a stop ends every thread.
`PROJECT.json` lists the hazards behind these at their lines.

## The modules

`BoundedFifo` is the abstract queue: append when there is room, take the oldest.

`SpscRing` is the ring at the grain of shared-memory accesses.  The variables
carry the names of the C fields (`head` is `_fifo_index->_head`, `fifo_index`
the index array, `fifo_data` the packet slots).  One action stands for one
access the other thread can observe: `GetTmpElement` fills the slot at head
before any test for room, `PushCached` and `PushReload` are the two ways through
the test in `queue_push`, `StoreIndex` and `StoreHead` its two stores,
`PopBulk`, `ReadBulk`, `UpdateTail` the bulk path of the worker, `PopTake`,
`PopStoreTail`, `PopRead` the single pop, which gives the slot back before the
packet is read.  Stores become visible in program order, as on x86-64.

`PcapPipeline` is the multi-threaded capture.  A ring is a bounded sequence
there (what `SpscRing` is shown to implement), with the bulk a worker has taken
still occupying it.  The worker of a packet follows from the bytes its hash
reads (`Headers`, `PacketHashNumber`): a number is the set of its bits, the
bitwise or a union, and the final mixing a constant function.  The ring of `thread-queue = n` holds n - 1 packets, so
`Capacity` stands for n - 1.  Actions: `Interrupt`, `Restart` (the two signals),
`CallDispatch`, `GotPacket`, `PushPacket`, `DropPacket`, `BreakDispatch`,
`EndBatch`, `EndOfInput`, `StopWorkers`, `PushBreak`, `Join`, `Release` (the reader) and
`PopBulk`, `ProcessPacket`, `LastElement`, `UpdateTail` (a worker).  When and
how `pcap_dispatch` notices `pcap_breakloop` follows libpcap's contract, quoted
in the comment above the loop.

`Supervisor` is the three processes and the bus.  `proc_pid` and `ctl_pid` are
`children_pids`; a turn of the monitor's loop is `ForkProcessing`,
`ForkControl`, one of `ReapProcessing`, `ReapControl`, `ReapNobody`, then
`CheckBus` and, with a command, `Callback` (`OnStart`, `OnStop`, `OnUpdate`) and
`ReplyBus`.  A processing process goes through `boot`, `subscribe`,
`subscribed` (SIGINT ignored, SIGUSR2 deadly), `run` and `stop` (handlers
installed) to `zombie`; `HandleSignal`, `Finish`, `Crash`, `CaptureEnds` decide
its exit status.  `Crash` is SIGSEGV or SIGABRT, which have handlers that exit,
or any other fatal signal (SIGKILL, SIGFPE, SIGBUS), which has none and kills at
any place, in a critical section too (`Killed`).  Critical sections that a signal can end are two steps
(`SubscribeLock`/`Subscribe`, `PublishLock`/`PublishStore`); the others are one
step guarded by a free mutex.

`DpdkCapture` is the capture with DPDK.  A reader's pass over its queues is
`ReaderTurn`, `ReaderPoll` (fill the buffer, push when it is full or old),
`ReaderRetry` (the second try after a partial burst, with the address the code
computes) and `ReaderCount`; at a stop `SendNull` waits for room for the end mark
of every worker.  `WorkerTurn` is a worker, `MainStat`, `MainStop`, `MainRelease`
the main thread with its semaphores.  NIC queues and `rte_ring` are external.

The outputs are four modules.  `FileOutput` is a directory of sampled files:
create, write, close, announce by a semaphore, remove the oldest, each a step
because other outputs, a crash or a cancellation can come in between.
`BrokerOutput` has the MongoDB cache, Kafka's queue and the sockets.
`RedisOutput` is thredis: callers that send and then sleep on a condition
variable of their own, the reader thread that hands replies to the oldest
waiter, the connection that breaks, the close.  `Output` composes them with the
threads that use them: `output_write_report` goes through the enabled channels
one after the other under the mutex of output 0, the statistics thread ticks,
reports and flushes, a stop releases in the order of `main.c`, and the process
may crash and start again in the same directory.

The analysis of traffic in a worker is eight modules.  `AppStat` is what a
session keeps for its application (web, SSL, RTP, GTP), `TcpRtt` the lists of
unacknowledged segments and the three ways to measure, `SessionReport` the
counters, reports, micro flows, ARP and fragments and the handlers that are
registered with MMT-DPI, `HttpReconstruct` and `PcapDump` the files they write,
`Security` the rules and the forwarding, `AttributeReports` the event, RADIUS and
LTE reports.  `Worker` composes them: `Packet` takes one packet through every
handler the configuration registers, `TimerStatPeriod`, `SessionEnds`,
`NoSessionPacket`, `AttributeSeen` are the other things that happen to a worker,
`OnStop` and `Release` its end.  MMT-DPI is external: it calls any registered
handler, sessions end at any moment.  So is the rule engine of MMT-Security:
between `SecurityPacket` and `SecurityFinish`, the two ends of
`_security_packet_handler`, it calls back for any rules, one after the other
(`SecurityStep`); a FORWARD rule drops, sends or changes the copy of the packet,
or does nothing.

`Configuration` has every parameter with its type, default, width and
conversion, reading a file, overriding by name and by number, and validation.  A
string that the file leaves out is `Null`, and overriding it is a crash
(`BadPointer`).  Which names can be overridden depends on the build (`GuardOf`).
`Startup` goes from `main` to the captured packet: options in order, files,
license, what each build and mode refuses, then updates from clients, encoded
and decoded as the server and the monitor do, the restart they need, and the
timers of the capture, single- and multi-threaded, pcap and stream.

`MC*` modules and their cfg files are the instances.  Operators commented
"Mutant" are deliberate mistakes, used to show that a property can fail.

## The runs

| run | question | result |
|---|---|---|
| ring | mutual exclusion on slots, bulks inside the array, inductive invariant, refinement of `BoundedFifo`, every accepted packet is delivered | holds |
| pipeline | accounting, break packet last, clean stop, a stop completes, a trace file is processed completely and the probe ends | holds |
| pipeline_drops | drops are in the traffic report | violated: the counter is never assigned |
| supervisor_start_stop | children known, stopped stays stopped unless killed, crashes recovered, bus usable, with start, stop and crashes of every kind | holds |
| supervisor_update | an update takes effect and a stop ends the process whatever they meet, waitpid always has a child, both children gone means the monitor exits unless it then serves a start, with starts, updates, stops, Ctrl+C and a crash | holds |
| bus_stuck | the bus stays usable with updates and a crash | violated |
| mutex_lost | the monitor exits after Ctrl+C, with a command in flight | violated |
| outputs | files announced and kept, order in every channel, MongoDB documents once, own reply for every redis command, a stop completes, with one failure of any kind | holds |
| analysis | traffic reported once, segment lists sorted, rebuilt files reported once, packets decided on once and forwarded intact, no dump overwritten, with fifteen configurations | holds |
| dpdk | counters agree with packets, a stop reaches every thread | holds |
| dpdk_mbuf | every packet buffer is freed once | violated |
| startup | the process runs with the values it was given, periods are kept | holds |

The violated ones state what the documentation or a comment of the repository
says; `PROJECT.json` quotes the line and says what the code does instead:

* pipeline_drops: a packet dropped because a ring is full is counted in
  `stat.pkt_dropped` only, while the report prints `traffic_stat.mmt.packets.drop`.
* bus_stuck: the processing process crashes, the monitor reaps it (`*pid == 0`)
  and, in the same turn, serves an update: the callback returns "do nothing",
  the message counts as consumed by the monitor, the reply code stays "do
  nothing" and every later command is refused.
* mutex_lost: Ctrl+C while the control process is inside `mmt_bus_publish`; its
  handler exits with the process-shared mutex locked, and the monitor waits for
  that mutex for ever.  SIGUSR2 to a processing process that is subscribing has
  the same effect, and so has any signal that kills a process there;
  `UpdateTakesEffect`, `BusEventuallyFree`, `CrashRecovered` and `AllStopExits`
  except exactly these behaviours (`Orphaned`).
* dpdk_mbuf: after a partial burst the second try adds the number of packets
  sent to a `void *`, so it skips bytes instead of pointers.  Pointers made of
  two halves, packets sent twice and others never freed are the outcomes.  The
  counters are still right (run dpdk), as long as no such pointer is used.

Seen while modelling, without a run of their own: the answer to a start or stop
command does not depend on its outcome (`mmt_bus_publish` gets a NULL
`reply_code`), although `doc/dynamic_conf.md` lists results; a stop that meets a
processing process without handlers is discarded (`Kill`); a dead processing
process never gives its subscriber entry back, so the third incarnation is not
subscribed (it never polls the bus anyway); a processing process that is killed
by a signal without a handler while it obeys a stop is re-created, since
`WIFEXITED` is false of it (`StoppedStays` excepts it); when Ctrl+C has ended both
children and a start is on the bus, the monitor may re-create the processing
process and never exit, although `main.c` says it exits when both have
(`AllStopExits` excepts it, `ServedStart`); a ring made for n packets says it is
full with n - 1 in it, so `thread-queue = 1` accepts nothing.

The configuration.  Whether any output is enabled is computed when the file is
loaded (`outputs.is_enable`, `configure.c`), so `-X file-output.enable=true`, the
example of the usage text, has no effect if the file enables no output; a
directory that is overridden gets no final "/"; enumerations are overridden by
number through `atoi`; `-X` without "=", or with nothing behind it, says "Ignored
it" and overrides with an empty text (`RunsAsConfigured` says nothing of a
parameter whose last text is empty); an option or an update for a string that
the file does not give compares a null pointer (`configure_override.c`), and ends
main or the monitor;
`dump-pcap.protocols` tests the wrong parameter and never applies;
`system-report.output-channel` is declared a string over an enumeration;
`mongodb-output.hostnam` is a typing error; updates are not validated, so gtp and
http can be enabled together, which ends the process ("Impossible"); the server
accepts as many lines as fit its buffer and the monitor reads as many parameters
as there are identities, so that the last lines of an update that names one
parameter again and again are acknowledged and dropped (`Considered`); a
configuration with one of the two reconstruct-data blocks missing, or an event
attribute without ".", reads where it must not; a compiled reconstruction
without its block, or DPDK without `dpdk-option`, makes the processing process
die at its start and be re-created for ever (`respawning`).

The outputs.  `thredis_close` joins the reader thread with the mutex the reader
may be waiting for (reachable in the model, so `ShutdownCompletes` is stated
without redis); the first release closes redis, and MongoDB's library, for every
output; the statistics thread cancelled inside a flush leaves a data file
without semaphore (`cut`); data files orphaned by a crash are never removed;
when a sampled file cannot be opened that output is silent until the next
restart; the period of system reports is 5 whatever is configured; `output` is
dereferenced before it is tested for NULL.

The analysis.  A flow is reported twice when web and micro-flow reports are both
enabled (`TrafficOnce` excludes it); the packet threshold of micro flows adds the
downlink count to itself; `tcp_rtt.c` reads `node->next` after freeing the node
and adds 1 to the acknowledgement it expects of data segments; the minimum RTT
takes 0 for unset; LTE quality-of-service values of two user equipments mix;
two requests for one URI share a file name, and a corrupted second answer
removes the first one's decoded file; "Content-Encoding: identity" is reported as
unsupported; a failed `mmt_probe_forward_packet` is not counted; a packet that
satisfies a FORWARD rule that drops and one that forwards is counted as dropped
and sent, and one whose rules only change it is neither sent nor counted;
`ignore-remain-flow` also stops DROP rules for the flow; a dump started twice in
the same second overwrites its file.

Captures.  DPDK readers lose, uncounted, what their buffers hold at exit; the
stream capture hands over the capacity of its buffer instead of the length read;
a license file too short for addresses counts as one without any.

Bounds.  The ring is checked with `Size = 3` (5 slots): the head goes round
several times, a bulk can end at the array's end, and the ring is full and empty
with the cached cursors at every distance; the proofs cover all other sizes.
Packets are interchangeable, so two suffice to see a swap or a stale slot.  The
pipeline has two workers, rings of two packets and up to five packets, and
either input mode: a ring is full, packets are dropped, a bulk of two is in
progress when the signal or the end comes.  The supervisor has two process ids
(never more than one process lives, a reaped id can be reused), two or three
commands (start and stop, or start, stop and update) and one or two crashes: a command finds the process in every phase,
including the turn in which a crash is reaped, and two crashes plus the first
start exhaust the three subscriber entries.

The outputs have two outputs, four sets of channels, two reports per output, one
retained file, a MongoDB cache of two and one failure of any kind (a file that
cannot be created, a refused call, a broken connection, a crash): the cache
fills, files rotate and are removed while the other output creates one.  The
analysis has two sessions and, per configuration, three or four packets, two
periods, sequence numbers modulo 4 (they wrap), GTP sessions with room for two of
three TEIDs, timestamps that run back by a second, and up to two satisfied rules
per packet (`MaxVerdicts`), so that two actions meet on one packet.  DPDK has one reader
(readers share only what the main thread waits for), two workers, rings of two,
bursts of two and three packets per queue: bursts are partial at every place.
Start-up enumerates command lines, files, builds, licenses and messages that
take every check both ways, and two updates in sequence; the monitor has room for
two parameters, and a message with three lines exceeds it.

Deadlock is checked where the system never stops (ring).  The captures, the worker and the outputs end by design, start-up ends in an
error or at the bounds, and so does the monitor after Ctrl+C; in the runs of the
supervisor a process killed in a critical section also stops everything, the
subject of mutex_lost.

Fairness.  `SpscRing`: the worker's loop never ends, so its steps are weakly
fair; nothing is asked of the reader.  `PcapPipeline`: the reader's own steps and
each worker are weakly fair, because the scheduler runs every thread; packets
and signals come or do not come.  `Supervisor`: weak fairness of each process,
including the delivery of a pending signal; clients, crashes, the end of the
capture and the user are unconstrained.  `DpdkCapture`: every thread has a core
of its own and is weakly fair.  `Output`: a thread inside a call goes on (weak
fairness), and a thread that waits for a mutex gets it (strong fairness), since
whoever holds it gives it back and sleeps, a second or until the next packet,
before it asks again; ticks, packets, failures and the stop are unconstrained.

## What is proved

`SpscRingProofs` proves, for every `Size >= 1` and every set of packets:

* `RingInvariant`: `IInv` always holds.  `SlotExclusive` alone is not inductive,
  because whether a push may proceed is decided with a copy of the tail.  `IInv`
  adds `CursorOrder`, the fact that makes it so: going round the ring one meets
  the producer's copy of the tail, the tail, the consumer's copy of the head and
  the head, in this order and within `RingSize - 3` slots, one less between the
  test and the store; `IndexCorrect`, that the index array holds each slot's own
  number; and `ConsumerInv`, that what the consumer took lies behind its copy of
  the head.
* `RingTypeOK`, `RingSlotExclusive`, `RingBulkInBounds` follow from it.
* `RingImplementsFifo`: every step of the ring is a step of `BoundedFifo` or a
  stutter.  The step invariant is `RInv`, which adds that a packet being pushed
  is already in the slot at head.  `Contents` is reasoned about through `Place`,
  the slot of the k-th packet: a push leaves every place and value of the
  pending packets and adds one at the end, giving slots back removes the first.

`ModWrap` removes the modulo: a sum below twice the size is reduced by one
subtraction; `NextSlot` and `AfterBulk` say what advancing a cursor does to
`Dist`, and `FullIsDistance` turns the test for a full ring into one about `Dist`.

`SupervisorProofs` proves, for every set of process ids, every set of commands
and every bound:

* `SupervisorInvariant`: `children_pids` and the existing processes agree in both
  directions (`PidsAgree`), and what the monitor knows at each point of its loop
  (`LoopInv`): nobody is waiting to be created when it calls `waitpid`, and it is
  out of the loop exactly when both children are to stay dead.  `ChildrenKnown`
  does not mention the monitor's place and is not inductive without it.
* `SupervisorTypeOK`, `MonitorKnowsChildren`, `MonitorNeverAborts` follow.
* `StopIsFinal`: a process that has handled SIGINT is not re-created, unless a
  signal without a handler killed it on its way out.  The
  invariant behind it, `ExitingInv`, says that such a process is releasing its
  resources with no restart pending, has ended with EXIT_SUCCESS, or was killed; of the
  steps that assign `children_pids[0]` only reaping a failed child sets it to
  "create", and a start does so only when no process exists.

`PcapPipelineProofs` proves, for any number of threads, any capacity, both
modes and any mixing function of the hash:

* `HashIsSymmetric`: `PacketHashNumber` is the same for both directions of a
  flow, so that a flow stays with one worker.  No run checks this one.
* `EveryPacketAccounted`, `DummyPacketIsLast`, `CaptureStopsCleanly`,
  `PipelineTypeOK`.  The inductive invariant `IInv` says that nothing follows
  the break packet (`BreakIsLast`), that a worker in a bulk has not passed what
  it popped and one that stopped has only the break packet left (`WorkerInv`),
  which rings hold a break packet at each place of the reader's stop protocol
  (`StopInv`), and that what was dispatched to a worker was processed, dropped,
  is in its ring or in the reader's hand (`CountInv`).  The last counts a ring by
  its length less the processed part of a bulk and the break packet (`Backlog`),
  where `Accounting` counts the packets themselves; the first three parts are
  what makes the two equal.

`OutputProofs` proves, for every set of channel combinations, number of retained
files, cache and queue size, and every bound, in three parts:

* The lemmas on the directory.  `FileInv`: every name is
  older than the clock and belongs to one output (`NamesInv`); a file that is
  open or just closed is on disk, not announced and on nobody's list of files to
  remove (`FreshInv`); a semaphore has its data file, and that file is not empty
  (`SemInv`).  `DoomedOld`: a file on the list has at least `Retained` newer
  semaphores.
* The lemmas on thredis.  `Aligned`, in `ReaderInv`: until
  the connection fails, the i-th reply still to be delivered, counted from the
  reader's buffer through the socket to the server, is the reply to the i-th
  waiter; `WaitersInv`: a thread waits at most once.  `OwnReply` is not
  inductive without both.
* The whole, `OutputInv`, which also runs on the instance of `output` in TLC,
  adds where each thread may be in each phase
  (`PhaseInv`), that output 0 is written and flushed only by the holder of its
  mutex, so that the message in hand is the last one counted (`SectionInv`), the
  place of the file output in the shutdown (`FilePhaseInv`, `LastCleanInv`,
  `AnnouncedInv`), and for the brokers the order of the queues and the order,
  bound and contents of the MongoDB cache (`BrokerInv`).  From it follow
  `OutputTypeOK`, `DirectoryStaysConsistent`, `NewestFilesStay`, `ExitIsClean`,
  `RepliesAreOwn`, `ChannelsKeepOrder` and `MongoKeepsOnce`.  The proof of
  `ExitIsClean` showed that the bound on the files left needs `Retained > 0`:
  with 0 nothing is ever removed, as the configuration says, and `ExitClean`
  states it so.

`WorkerProofs` proves, for every set of sessions, packets and configurations:

* `DumpNeverOverwrites`: names grow because the next name is the time of a
  packet past `next_ts_to_dump_to_new_file`, which is at least one period after
  every earlier name (`DumpInv`).  The reordering of packets has to stay within
  one period; that is the assumption `Jitter <= Frequency`.
* `PacketsForwardedIntact`: rules and default action never both decide on a
  packet, and what leaves is a copy of the packet in work.  `ForwardInv` ties the
  two things that outlive a packet, the mark and the copy, to the packet in work
  at every point between its first and its last step: the mark is set exactly if
  a FORWARD rule has been satisfied by it, and the copy was made of it and
  changed by no other packet's rules.
* `HttpFilesReportedOnce`.  `HttpInv`: the identities of the reports and of the
  open files are together exactly 1..opened, each once (`HttpIds`); the form on
  disk of an open file is that of its encoding, and the last report about a name
  tells what is on disk under it (`HttpFiles`).  `HttpLive` gives the end: when
  DPI is closed, no session, and so no open file, is left.
* `RttListsStaySorted`: the lists of unacknowledged segments stay in descending
  order and their counters agree with them.  `StatInv` carries, for each
  session, the fields of `session_stat_t`, the pairing of `app_type` with the
  kind of `apps` (`AppOK`), and the lists (`RttOK`).
* `WorkerTypeOK` follows from `StatInv`, `PhaseInv` and `ForwardInv`.  The pairing
  of `app_type` and `apps` is its hard part: a handler that finds `apps` of
  another kind would write through the wrong structure.
* `TrafficReportedOnce`.  `TrafficOnce` speaks of the end only; three invariants
  lead to it.  `CountInv`: what was reported of a live session is what its
  `session_stat_t` remembers, nothing of one that is small enough for a micro
  flow, and everything of one that has ended.  The step that matters is a packet:
  a flow that grows cannot become small again (`MicroShrinks`), so that nothing
  is reported of a flow that later ends as micro; only `_web_method_handle` does
  that, hence the exclusion of web with micro-flow reports.  `MicroInv`: what the
  micro-flow reports said plus what waits in the statistics of the applications
  is what ended as micro, whichever limit triggers a report.  `ArpInv`: after the
  period of the stop no ARP packet or fragment waits.

`DpdkCaptureProofs` proves `DpdkCountsAgree`, for any number of readers and
workers and any sizes of rings and bursts.  `DpdkInv` has three parts.  `DpdkTypes`,
the types of the state.  `NullInv`: the NULL packet is the last one in a ring, is there only when the
reader has passed the worker in its signalling loop (`Signalled`), and a worker
that took it left its ring empty.  `CountInv`: between the burst and the counting
a reader has moved packets that no counter shows yet (`Uncounted`), and with them
its counter is the sum, over its workers, of what they took and what their rings
hold without the NULL packet, plus the drops.

`StartupProofs` proves, for any launches, files, options, messages and bounds:

* `DecodesAsSent`: what `parse_command_parameters` finds in the buffer is what
  `_parse_update_parameters` wrote into it, parameter by parameter, for any
  number and length of texts.  It needs where each parameter begins (`Offsets`)
  and that the first '\0' behind it ends its own text.
* `StartInvariant`, from which `ConfiguredAsWritten` and `PeriodsAreKept` follow.
  In main's memory every parameter matches the last accepted text for it, or the
  file (`Sound`); this is kept by an option, by every parameter of an update in
  turn and by the defaults of `conf_validate`; an override that reads a null
  pointer ends main or the monitor instead (`BadPointer`).  The processing process has a copy
  of it that is old only while a restart is under way.  `TimerOk`: the next
  milestone of a timer is exactly one period behind the reports it has made.
  `RunsAsConfigured` became exact by it: 0 in a parameter with a default is
  replaced when the number is 0 after it was cut to the width of its field
  (65536 in a `uint16_t`), not only when the text says 0.

`SumProofs` holds what these need of sums: `SumFunction` is a fold over a set, and
the prover has no induction over sets.  Its lemmas argue by a smallest
counterexample instead: a set of subsets of a finite set has a minimal element
(`SmallestSubset`), so the recursion behind the fold defines a function
(`SumDefined`), any element can be taken out first (`SumTakesOut`), and changing
one value changes the sum by as much (`SumChangesBy`).  `StartupProofs` treats
recursion on the natural numbers, and `FlattenSeq`, in the same way.

Assumptions, each named in the module that declares the constant.  The ring has
`Size >= 1` (`data_spsc_ring_init` refuses 0), and unwritten memory is not a
packet.  Process ids are positive (`fork` returns nothing else to the parent).
Thread counts, capacities, periods and cache sizes are positive, retention and
the bounds are natural numbers; the hash is a natural number.  The threads of
redis are not called like the reader and the closer, which have names of their
own.  Outputs are 0, the shared one, and 1, the first worker's
(`OutputAssumptions`): `Output` models a probe with one worker.  These are the two
outputs that ever remove files (`file_output.c` tests for id 1 and id 0); the
theorems say nothing of the outputs of further workers.  A configuration does not combine GTP with
web, SSL, RTP or FTP reports (`ConfsAssumption`, the check in `Configuration`).
Numbers of TCP headers lie below the size of the sequence space, packet sizes and
thresholds are natural numbers, sessions and applications are finitely many, and
the applications include those DPI can name (`SessionAssumption`).  Rings, bursts
and periods of DPDK are positive (`DpdkAssumption`).  Texts have a length and
those of numbers a value (`ConfigurationAssumption`), updates are sequences of
lines (`StartupAssumption`), and the two tables of parameters, that of the file
and that of the overrides, agree on types (`TablesAgree`): the names in them are
strings joined from two parts, of which the prover knows nothing, so TLC
evaluates this one for all parameters.  The sessions with reconstruction state are DPI's sessions
(`SessionsAssumption`).

Only model-checked: the liveness properties and everything under fairness, which
the prover does not have, and the four runs that show a violation.  Every
invariant, every action property and the refinement that a passing run checks is
proved.

## What is not modelled

Weakly ordered memory; packets of length 0, which libpcap does not deliver and
which would end a worker; process ids that wrap around (an id found twice leaves
`mmt_bus_subscribe` with the mutex locked); spurious wake-ups in thredis; the
pointer errors of a signal that arrives before the capture is allocated or after
it is released (the SIGSEGV ends the process with the status the signal asked
for); the unsampled file output, one file that only grows; the SIMPLE_REPORT
build, which changes formats; a build with forwarding compiled in and disabled,
whose FORWARD rules do nothing.  Simplified, where no property depends on it: the
worker of DPDK has one of its two timers (`next_output_ts` flushes sampled
files); one counter of a session stands for both the captured packets that
session reports use and the packets that micro flows use; an output of a worker
has no mutex although it gets one when the rules have threads of their own
(`worker.c`), and the rules run on the worker's thread; numbers above the width of
a `uint32_t` are not given; the updates that a client sends while the processing
process dies at every start are left out.  Text is a member of a small set wherever no
property is about it.  Not modelled at all: MMT-DPI, MMT-Security and the client
libraries, whose behaviour is taken from how the probe uses them; logging,
string building and allocation (`src/lib`); the generated tables of content
types and encodings; `session_report_ftp.c`, `session_report_l4s.c` and
`dpdk/spsc_ring.h`, which nothing uses; `src/_old`, which is not compiled.

## Plan

1. Done: `BoundedFifo`, `SpscRing`, `PcapPipeline`, `Supervisor` and the proofs
   about the ring and the supervisor.
2. Done: `FileOutput`, `BrokerOutput`, `RedisOutput`, `Output`; `AppStat`,
   `TcpRtt`, `SessionReport`, `HttpReconstruct`, `PcapDump`, `Security`,
   `AttributeReports`, `Worker`; `DpdkCapture`; `Configuration`, `Startup`.
3. Done: the proofs about `PcapPipeline`, the refinement of `BoundedFifo`, the
   outputs, and five of the six invariants of `Worker`.
4. Done: sums and recursion without induction; with them `TrafficOnce`,
   `DpdkAccounting`, `RunsAsConfigured` and `PeriodsKept`.
5. Left: outputs of more than one worker (the second and later workers' files are
   never removed, so `Output` would need a name per worker), and a weakly ordered
   memory for the ring.
