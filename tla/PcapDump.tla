------------------------------- MODULE PcapDump -------------------------------
(* The dump of packets into pcap files (modules/dpi/pcap_dump/pcap_dump.c).   *)
(* A file is named after the second of its first packet.                      *)
EXTENDS Integers, Sequences

CONSTANTS Frequency,      \* seconds a file is written to
          Jitter,         \* how far a timestamp can lie behind the newest one
          MaxTime,        \* bound on timestamps
          MaxDumps,       \* bound on the packets of a behaviour
          MaxDumpFaults   \* bound on failed fopen

ASSUME PcapDumpAssumption == Frequency \in Nat /\ Jitter \in 0..Frequency

VARIABLES dump_file,      \* name of the open file, or NoDump
          next_ts,        \* next_ts_to_dump_to_new_file
          newest,         \* the newest timestamp captured
          names,          \* the names of the files created, in order
          dumps, dump_faults

dvars == <<dump_file, next_ts, newest, names, dumps, dump_faults>>

NoDump == -1

\* pcap_dump_start
DumpStart ==
    /\ dump_file = NoDump /\ next_ts = 0 /\ newest = Jitter /\ names = <<>>
    /\ dumps = 0 /\ dump_faults = 0

\* the protocol of the packet is one of those to dump (not looked for below layer 2)
MustDump(path, protocols) == \E j \in 3..Len(path) : path[j] \in protocols

\* Mutant: the next file is due one period after the previous due date
NextFileFixed(ts) == next_ts + Frequency

NextFile(ts) == ts + Frequency

\* _create_pcap_file and the name of the file
CreatePcapFile(ts) ==
    \/ /\ names' = Append(names, ts)
       /\ dump_file' = ts
       /\ next_ts' = NextFile(ts)
       /\ UNCHANGED dump_faults
    \/ /\ dump_faults < MaxDumpFaults
       /\ dump_faults' = dump_faults + 1
       /\ dump_file' = NoDump
       /\ UNCHANGED <<next_ts, names>>

\* pcap_dump_callback_on_receiving_packet
DumpPacket(ts, path, protocols) ==
    /\ dumps < MaxDumps
    /\ dumps' = dumps + 1
    /\ newest' = IF ts > newest THEN ts ELSE newest
    /\ IF MustDump(path, protocols) /\ (dump_file = NoDump \/ ts > next_ts)
       THEN CreatePcapFile(ts)
       ELSE UNCHANGED <<dump_file, next_ts, names, dump_faults>>

\* pcap_dump_stop
DumpStop == dump_file' = NoDump /\ UNCHANGED <<next_ts, newest, names, dumps, dump_faults>>
=============================================================================
