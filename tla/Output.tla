------------------------------- MODULE Output -------------------------------
(* The output of reports (modules/output/output.c) and the threads that use   *)
(* it.  Output 0 is shared by the main thread (traffic reports) and the       *)
(* statistics thread (modules/routine) and has a mutex; output 1 belongs to   *)
(* the worker.  A report goes to the channels one after the other, so another *)
(* thread could come in between.  The life of the process is that of          *)
(* processing() in main.c: allocate, run, stop the worker, release its        *)
(* output, cancel the statistics thread, release output 0.                    *)
EXTENDS FileOutput, BrokerOutput, RedisOutput

CONSTANTS ChannelConfs,  \* the sets of channels a configuration enables
          ReportPeriod,  \* seconds between two system reports (5)
          FlushPeriod,   \* outputs.cache_period
          TimerWrap,     \* the timers are uint16_t: they count modulo this
          MaxReports,    \* bound: reports per output
          MaxCrashes,    \* bound: crashes of the process
          MaxTrouble     \* bound: failed creations, refused calls and crashes together

ASSUME OutputConfAssumption ==
    /\ {} \notin ChannelConfs
    /\ \A c \in ChannelConfs : c \subseteq {"file", "kafka", "redis", "mongodb", "socket"}

VARIABLES channels,      \* the enabled channels
          phase,         \* of the main thread
          mutex,         \* holder of output 0's mutex, or "none"
          call,          \* [Threads -> where the thread is]
          msg,           \* [Threads -> message being written]
          written,       \* [Outputs -> number of reports so far]
          file_last,     \* [Outputs -> number of the last message in a data file]
          timer_1, timer_2,
          cut,           \* the statistics thread was cancelled while it flushed
          crashes

ovars == <<channels, phase, mutex, call, msg, written, file_last, timer_1, timer_2, cut, crashes>>
vars == <<fvars, bvars, rvars, ovars>>

Threads == {"main", "stats", "worker"}
OutputOf(t) == IF t = "worker" THEN 1 ELSE 0
NoMsg == <<0, 0>>

ASSUME OutputAssumptions ==
    /\ Outputs = {0, 1} /\ Clients = Outputs /\ RedisThreads = Threads
    /\ ReportPeriod \in Nat \ {0} /\ TimerWrap \in Nat \ {0}

Init ==
    /\ FileInit /\ BrokerInit /\ RedisStart
    /\ channels \in ChannelConfs
    /\ phase = "start"
    /\ mutex = "none"
    /\ call = [t \in Threads |-> "off"]
    /\ msg = [t \in Threads |-> NoMsg]
    /\ written = [o \in Outputs |-> 0]
    /\ file_last = [o \in Outputs |-> 0]
    /\ timer_1 = 0 /\ timer_2 = 0
    /\ cut = FALSE
    /\ crashes = 0

On(c) == c \in channels
Goes(t, c) == call' = [call EXCEPT ![t] = c]

\* the file output of o is between two calls
FileQuiet(o) == fstep[o] \in {"idle", "absent", "gone"}

\* the bound MaxFiles leaves room for the files every call in progress may create
RoomForFile == clock + Cardinality({o \in Outputs : fstep[o] \in {"absent", "closed", "create"}}) <= MaxFiles
-----------------------------------------------------------------------------
\* output_alloc_init; the file output finishes its clean-up before the thread goes on
OutputAllocInit(o) ==
    /\ IF On("file") THEN At(o, "absent") /\ CreateNewFile(o) ELSE UNCHANGED fvars
    /\ IF On("redis") THEN RedisInit ELSE UNCHANGED rvars
    /\ IF On("mongodb") THEN MongoInit(o) ELSE UNCHANGED mongo_vars
    /\ \E ok \in BOOLEAN, fds \in SUBSET SocketType :
          /\ IF On("kafka") THEN KafkaInit(o, ok) ELSE ok /\ UNCHANGED kafka_vars
          /\ IF On("socket") THEN SocketInit(o, fds) ELSE fds = SocketType /\ UNCHANGED socket_vars
          /\ IF ok /\ fds = SocketType THEN UNCHANGED refused ELSE Refuse

\* system_stats_alloc_init_start: the thread runs, or there is none: disabled, not created, or
\* ended at once because it cannot read /proc/stat
StartStats == {"idle", "dead"}

\* _main_processing: output 0, then the statistics thread
StartMain ==
    /\ phase = "start"
    /\ OutputAllocInit(0)
    /\ phase' = "run"
    /\ \E stats \in StartStats : call' = [call EXCEPT !["main"] = "idle", !["stats"] = stats]
    /\ UNCHANGED <<channels, mutex, msg, written, file_last, timer_1, timer_2, cut, crashes>>

\* worker_on_start, on the worker's thread
StartWorker ==
    /\ phase = "run" /\ call["worker"] = "off"
    /\ OutputAllocInit(1)
    /\ Goes("worker", "idle")
    /\ UNCHANGED <<channels, phase, mutex, msg, written, file_last, timer_1, timer_2, cut, crashes>>

\* __LOCK_IF_NEED and __UNLOCK_IF_NEED: output 1 has no mutex
LockIfNeed(t) == IF OutputOf(t) = 0 THEN mutex = "none" /\ mutex' = t ELSE UNCHANGED mutex
UnlockIfNeed(t) == IF OutputOf(t) = 0 THEN mutex' = "none" ELSE UNCHANGED mutex

\* Mutant: the critical section of a report is not entered
LockForgotten(t) == UNCHANGED mutex

LockForReport(t) == LockIfNeed(t)

\* the channels _write serves after c (0 for the first), and the one that comes next
Order == <<"file", "kafka", "redis", "mongodb", "socket", "unlock">>
Place(c) == CHOOSE i \in 0..6 : IF c = "first" THEN i = 0 ELSE i > 0 /\ Order[i] = c
NextChannel(c) == Order[CHOOSE i \in (Place(c) + 1)..6 :
                           /\ Order[i] \in channels \cup {"unlock"}
                           /\ \A j \in (Place(c) + 1)..(i - 1) : Order[j] \notin channels]
AfterChannel(t, c) == Goes(t, NextChannel(c))

\* output_write_report: take the mutex, build the message
WriteReport(t) ==
    LET o == OutputOf(t) IN
    /\ written[o] < MaxReports /\ nb_messages[o] < MaxMessages
    /\ FileQuiet(o)
    /\ LockForReport(t)
    /\ written' = [written EXCEPT ![o] = @ + 1]
    /\ msg' = [msg EXCEPT ![t] = <<o, written[o] + 1>>]
    /\ AfterChannel(t, "first")
    /\ UNCHANGED <<fvars, bvars, rvars, channels, phase, file_last, timer_1, timer_2, cut, crashes>>

\* context_print_traffic_stat of the main thread, and the reports of the worker
ReportTraffic == phase = "run" /\ call["main"] = "idle" /\ WriteReport("main")
ReportSession == phase \in {"run", "stopping"} /\ call["worker"] = "idle" /\ WriteReport("worker")

\* _write, one enabled channel after the other: file, kafka, mongodb, socket
WriteFile(t) ==
    /\ call[t] = "file"
    /\ FileWrite(OutputOf(t))
    /\ file_last' = IF file[OutputOf(t)] # NoFile THEN [file_last EXCEPT ![OutputOf(t)] = msg[t][2]] ELSE file_last
    /\ AfterChannel(t, "file")
    /\ UNCHANGED <<bvars, rvars, channels, phase, mutex, msg, written, timer_1, timer_2, cut, crashes>>

WriteKafka(t) ==
    /\ call[t] = "kafka"
    /\ KafkaSend(OutputOf(t), msg[t])
    /\ AfterChannel(t, "kafka")
    /\ UNCHANGED <<fvars, rvars, mongo_vars, socket_vars, channels, phase, mutex, msg, written, file_last,
                   timer_1, timer_2, cut, crashes>>

\* redis_send: nothing to do without a connection, else thredis_command
WriteRedis(t) ==
    /\ call[t] = "redis"
    /\ \/ RedisEnter(t, msg[t]) /\ UNCHANGED call
       \/ conn = "none" /\ rstep[t] = "out" /\ UNCHANGED rvars /\ AfterChannel(t, "redis")
       \/ Command(t) /\ UNCHANGED call
       \/ RedisLeave(t) /\ AfterChannel(t, "redis")
    /\ UNCHANGED <<fvars, bvars, channels, phase, mutex, msg, written, file_last,
                   timer_1, timer_2, cut, crashes>>

WriteMongo(t) ==
    /\ call[t] = "mongodb"
    /\ MongoWrite(OutputOf(t), msg[t])
    /\ AfterChannel(t, "mongodb")
    /\ UNCHANGED <<fvars, rvars, kafka_vars, socket_vars, channels, phase, mutex, msg, written, file_last,
                   timer_1, timer_2, cut, crashes>>

WriteSocket(t) ==
    /\ call[t] = "socket"
    /\ SocketSend(OutputOf(t), msg[t])
    /\ AfterChannel(t, "socket")
    /\ UNCHANGED <<fvars, rvars, mongo_vars, kafka_vars, channels, phase, mutex, msg, written, file_last,
                   timer_1, timer_2, cut, crashes>>

\* the end of output_write_report.  The main thread flushes at once
\* (context_print_traffic_stat), the statistics thread looks at its second timer
EndReport(t) ==
    /\ call[t] = "unlock"
    /\ UnlockIfNeed(t)
    /\ Goes(t, CASE t = "main" -> "flush" [] t = "stats" -> "check" [] OTHER -> "idle")
    /\ msg' = [msg EXCEPT ![t] = NoMsg]
    /\ UNCHANGED <<fvars, bvars, rvars, channels, phase, written, file_last, timer_1, timer_2, cut, crashes>>

\* output_flush: the file output first
FlushFile(t) ==
    LET o == OutputOf(t) IN
    /\ \/ call[t] = "flush"
       \/ t = "worker" /\ call[t] = "idle" /\ phase = "run"   \* worker_on_timer_sample_file_period
    /\ RoomForFile \/ ~On("file")
    /\ FileQuiet(o)
    /\ LockIfNeed(t)
    /\ IF On("file") THEN FileFlush(o) ELSE UNCHANGED fvars
    /\ Goes(t, "flush_mongodb")
    /\ UNCHANGED <<bvars, rvars, channels, phase, msg, written, file_last, timer_1, timer_2, cut, crashes>>

\* bound: no room for another file, the flush is skipped
FlushSkipped(t) ==
    /\ call[t] = "flush" /\ On("file") /\ ~RoomForFile /\ FileQuiet(OutputOf(t))
    /\ Goes(t, "idle")
    /\ UNCHANGED <<fvars, bvars, rvars, channels, phase, mutex, msg, written, file_last,
                   timer_1, timer_2, cut, crashes>>

\* the rest of output_flush, once the new file is there
FlushMongo(t) ==
    /\ call[t] = "flush_mongodb"
    /\ FileQuiet(OutputOf(t))
    /\ IF On("mongodb") THEN MongoFlush(OutputOf(t)) ELSE UNCHANGED <<mongo_vars, refused>>
    /\ UnlockIfNeed(t)
    /\ Goes(t, "idle")
    /\ UNCHANGED <<fvars, rvars, kafka_vars, socket_vars, channels, phase, msg, written, file_last,
                   timer_1, timer_2, cut, crashes>>
-----------------------------------------------------------------------------
\* _read_cpu_info, _read_mem_info: /proc/stat and /proc/meminfo can be read, or not
ReadInfo == BOOLEAN

\* _stats_routine: one second.  A failed read of /proc skips the flush of this turn
StatsTick ==
    /\ call["stats"] = "idle"
    /\ timer_2' = (timer_2 + 1) % TimerWrap
    /\ \/ /\ timer_1 + 1 = ReportPeriod
          /\ timer_1' = 0
          /\ \E read \in ReadInfo : IF read THEN Goes("stats", "format") ELSE UNCHANGED call
       \/ /\ timer_1 + 1 # ReportPeriod
          /\ timer_1' = (timer_1 + 1) % TimerWrap
          /\ Goes("stats", "check")
    /\ UNCHANGED <<fvars, bvars, rvars, channels, phase, mutex, msg, written, file_last, cut, crashes>>

\* output_write_report_with_format: a first critical section only for the tests,
\* then output_write_report with one of its own
StatsFormat ==
    /\ call["stats"] = "format"
    /\ mutex = "none"
    /\ Goes("stats", IF written[0] < MaxReports /\ nb_messages[0] < MaxMessages THEN "report" ELSE "check")
    /\ UNCHANGED <<fvars, bvars, rvars, channels, phase, mutex, msg, written, file_last,
                   timer_1, timer_2, cut, crashes>>

StatsReport ==
    \/ call["stats"] = "report" /\ WriteReport("stats")
    \/ /\ call["stats"] = "report"     \* bound: the main thread used up the reports
       /\ ~(written[0] < MaxReports /\ nb_messages[0] < MaxMessages)
       /\ Goes("stats", "check")
       /\ UNCHANGED <<fvars, bvars, rvars, channels, phase, mutex, msg, written, file_last,
                      timer_1, timer_2, cut, crashes>>

StatsCheckFlush ==
    /\ call["stats"] = "check"
    /\ IF timer_2 = FlushPeriod
       THEN timer_2' = 0 /\ Goes("stats", "flush")
       ELSE UNCHANGED timer_2 /\ Goes("stats", "idle")
    /\ UNCHANGED <<fvars, bvars, rvars, channels, phase, mutex, msg, written, file_last, timer_1, cut, crashes>>
-----------------------------------------------------------------------------
\* the capture has ended (signal or end of the trace) and the worker is told to stop
Stop ==
    /\ phase = "run" /\ call["main"] = "idle" /\ call["worker"] # "off"
    /\ phase' = "stopping"
    /\ UNCHANGED <<fvars, bvars, rvars, channels, mutex, call, msg, written, file_last,
                   timer_1, timer_2, cut, crashes>>

\* pthread_join of the worker, then worker_release frees its output
ReleaseOutput(o) ==
    /\ FileQuiet(o)
    /\ IF On("file") THEN FileRelease(o) ELSE UNCHANGED fvars
    /\ IF On("mongodb") THEN MongoRelease(o) ELSE UNCHANGED <<mongo_vars, refused>>
    /\ IF On("kafka") THEN KafkaRelease(o) ELSE UNCHANGED kafka_vars
    /\ IF On("socket") THEN SocketRelease(o) ELSE UNCHANGED socket_vars

\* redis_release of the worker's output, in the main thread; output 0 then finds no connection
ReleaseRedis ==
    /\ phase = "stopping" /\ call["worker"] = "idle"
    /\ RedisClose
    /\ UNCHANGED <<fvars, bvars, ovars>>

ReleaseWorker ==
    /\ phase = "stopping" /\ call["worker"] = "idle" /\ conn = "none"
    /\ ReleaseOutput(1)
    /\ UNCHANGED rvars
    /\ phase' = "released"
    /\ Goes("worker", "off")
    /\ UNCHANGED <<channels, mutex, msg, written, file_last, timer_1, timer_2, cut, crashes>>

\* system_stats_release: pthread_cancel and join.  The thread ends at its next cancellation
\* point, which waiting for a mutex is not, with whatever it has locked
CancelStats ==
    /\ phase = "released" /\ FileQuiet(1)
    /\ call["stats"] \notin {"format", "report", "check", "flush"}
    /\ rstep["stats"] \in {"out", "waiting", "done"}
    /\ phase' = "cancelled"
    /\ Goes("stats", "dead")
    /\ cut' = ~FileQuiet(0)
    /\ fstep' = [fstep EXCEPT ![0] = IF FileQuiet(0) THEN @ ELSE "idle"]
    /\ doomed' = [doomed EXCEPT ![0] = {}]
    /\ UNCHANGED <<clock, csv, sem, filled, file, file_name, nb_messages, faults, bvars, rvars,
                   channels, mutex, msg, written, file_last, timer_1, timer_2, crashes>>

\* Mutant: output_release waits for the mutex
ReleaseMainLocked ==
    /\ phase = "cancelled" /\ mutex = "none"
    /\ ReleaseOutput(0)
    /\ UNCHANGED rvars
    /\ phase' = "ending"
    /\ Goes("main", "off")
    /\ UNCHANGED <<channels, mutex, msg, written, file_last, timer_1, timer_2, cut, crashes>>

\* output_release of output 0: no lock is taken
ReleaseMain ==
    /\ phase = "cancelled"
    /\ ReleaseOutput(0)
    /\ UNCHANGED rvars
    /\ phase' = "ending"
    /\ Goes("main", "off")
    /\ UNCHANGED <<channels, mutex, msg, written, file_last, timer_1, timer_2, cut, crashes>>

Exit ==
    /\ phase = "ending" /\ FileQuiet(0)
    /\ phase' = "exit"
    /\ UNCHANGED <<fvars, bvars, rvars, channels, mutex, call, msg, written, file_last,
                   timer_1, timer_2, cut, crashes>>

\* a crash of the process; the monitor starts a new one in the same directory
Crash ==
    /\ phase \notin {"start", "exit"}
    /\ crashes < MaxCrashes /\ clock + Cardinality(Outputs) <= MaxFiles
    /\ crashes' = crashes + 1
    /\ FileCrash /\ BrokerCrash /\ RedisCrash
    /\ phase' = "start"
    /\ mutex' = "none"
    /\ call' = [t \in Threads |-> "off"]
    /\ msg' = [t \in Threads |-> NoMsg]
    /\ timer_1' = 0 /\ timer_2' = 0
    /\ cut' = FALSE
    /\ UNCHANGED <<channels, written, file_last>>

\* the steps of a thread inside its file output
InFile(o) == On("file") /\ FileStep(o) /\ UNCHANGED <<bvars, rvars, ovars>>

\* the reader thread of thredis and the Redis server
RedisReader == Reader /\ UNCHANGED <<fvars, bvars, ovars>>
RedisServer == ServerReply /\ UNCHANGED <<fvars, bvars, ovars>>
RedisFault  == ServerBreaks /\ UNCHANGED <<fvars, bvars, ovars>>

Broker(o) == KafkaDeliver(o) /\ UNCHANGED <<fvars, rvars, mongo_vars, socket_vars, ovars>>

ThreadStep(t) ==
    \/ WriteFile(t) \/ WriteKafka(t) \/ WriteRedis(t) \/ WriteMongo(t) \/ WriteSocket(t) \/ EndReport(t)
    \/ FlushFile(t) \/ FlushSkipped(t) \/ FlushMongo(t)

Shutdown == ReleaseRedis \/ ReleaseWorker \/ CancelStats \/ ReleaseMain \/ Exit

Step ==
    \/ StartMain \/ StartWorker
    \/ ReportTraffic \/ ReportSession
    \/ \E t \in Threads : ThreadStep(t)
    \/ StatsTick \/ StatsFormat \/ StatsReport \/ StatsCheckFlush
    \/ Stop \/ Shutdown
    \/ \E o \in Outputs : InFile(o) \/ Broker(o)
    \/ RedisReader \/ RedisServer \/ RedisFault
    \/ Crash

Next == Step /\ faults' + refused' + crashes' + breaks' <= MaxTrouble

\* what a thread does once it is inside a call
Running(t) ==
    \/ WriteFile(t) \/ WriteKafka(t) \/ WriteRedis(t) \/ WriteMongo(t) \/ WriteSocket(t) \/ EndReport(t) \/ FlushMongo(t)
    \/ InFile(OutputOf(t)) \/ Broker(OutputOf(t))

\* what waits for the mutex: the holder gives it back and sleeps before it comes again
Waiting ==
    \/ \E t \in {"main", "stats"} : call[t] = "flush" /\ (FlushFile(t) \/ FlushSkipped(t))
    \/ StatsFormat \/ StatsReport \/ StatsCheckFlush

\* every thread runs on; packets, ticks, signals and crashes come or do not come
Fairness ==
    /\ \A t \in Threads : WF_vars(Running(t))
    /\ WF_vars(RedisReader \/ RedisServer)
    /\ SF_vars(Waiting)
    /\ SF_vars(Shutdown)

Spec == Init /\ [][Next]_vars /\ Fairness

TypeOK ==
    /\ FileTypeOK
    /\ channels \in ChannelConfs
    /\ phase \in {"start", "run", "stopping", "released", "cancelled", "ending", "exit"}
    /\ mutex \in Threads \cup {"none"}
    /\ call \in [Threads -> {"off", "idle", "file", "kafka", "redis", "mongodb", "socket", "unlock", "flush",
                             "flush_mongodb", "format", "report", "check", "dead"}]
    /\ \A o \in Outputs : Len(messages_cache[o]) < CacheMax /\ Len(rd_queue[o]) <= KafkaMax
    /\ timer_1 < ReportPeriod /\ timer_2 \in 0..(TimerWrap - 1)
-----------------------------------------------------------------------------
(* Reports of one output reach every channel in the order in which            *)
(* output_write_report took them, although two threads write to output 0:     *)
(* __LOCK_IF_NEED makes _write one critical section.                          *)
ChannelOrder ==
    [][\A o \in Outputs :
          /\ file_last'[o] >= file_last[o] /\ kafka_last'[o] >= kafka_last[o]
          /\ delivered'[o] >= delivered[o] /\ socket_last'[o] >= socket_last[o]
          /\ \A i, j \in DOMAIN database' :
                i < j /\ database'[i][1] = database'[j][1] => database'[i][2] < database'[j][2]]_vars

\* what MongoDB's cache and collection hold, with repetitions
Held == database \o messages_cache[0] \o messages_cache[1]

(* mongodb_output_write and the flushes, by size, by time and at the release: *)
(* every message is in the cache or the collection exactly once, or was lost  *)
(* with an error.                                                             *)
MongoOnce ==
    /\ \A i, j \in DOMAIN Held : Held[i] = Held[j] => i = j
    /\ On("mongodb") =>
         \A o \in Outputs : \A n \in 1..written[o] :
            \/ <<o, n>> \in mongo_lost
            \/ \E i \in DOMAIN Held : Held[i] = <<o, n>>
            \/ crashes > 0
            \/ \E t \in Threads : msg[t] = <<o, n>>

(* When the probe has ended, at most Retained sampled files are left (0       *)
(* means all), and every data file is announced by a semaphore, unless a      *)
(* file could not be created, a process crashed, or the statistics thread was *)
(* cancelled in the middle of file_output_flush (order of the releases in     *)
(* main.c).                                                                   *)
ExitClean ==
    phase = "exit" /\ On("file") =>
        /\ Retained > 0 => Cardinality(sem) <= Retained
        /\ faults = 0 /\ crashes = 0 /\ ~cut => csv = sem

(* A stop ends the process, whatever the statistics thread holds when it is   *)
(* cancelled: nobody waits for its mutex any more (system_stats_release).     *)
(* Not with Redis: thredis_close joins a reader that may wait for its mutex.  *)
ShutdownCompletes == phase = "stopping" /\ ~On("redis") ~> phase \in {"exit", "start"}
=============================================================================
