----------------------------- MODULE FileOutput -----------------------------
(* The sampled file output (modules/output/file/file_output.c).  Several      *)
(* outputs, each driven by its own thread, share one directory.  A data file  *)
(* (.csv) is announced to its reader by a semaphore file (.sem); output 1     *)
(* deletes old announced files whenever it starts a new file, output 0 when   *)
(* it is released.  One action stands for one access to the directory.        *)
EXTENDS Integers, FiniteSets

CONSTANTS Outputs,      \* ids of the outputs that write to the directory
          Retained,     \* retained_files_count
          MaxFiles,     \* bound: files created in a behaviour
          MaxMessages,  \* bound: messages in one file
          MaxFaults     \* bound: file creations that fail

ASSUME OutputAssumption == /\ Outputs \subseteq Nat
                           /\ Retained \in Nat
                           /\ MaxFiles \in Nat /\ MaxMessages \in Nat

VARIABLES clock,        \* gettimeofday: the next file name
          csv, sem,     \* names of the data and semaphore files on disk
          filled,       \* data files that hold at least one message
          file,         \* [Outputs -> open data file, or NoFile]
          file_name,    \* [Outputs -> name of the last data file]
          nb_messages,
          fstep,        \* where the output is inside a call
          doomed,       \* data files a clean-up has still to delete
          faults

fvars == <<clock, csv, sem, filled, file, file_name, nb_messages, fstep, doomed, faults>>

NoFile == 0
Names == 1..MaxFiles
FSteps == {"absent", "idle", "create", "closed", "scan", "unlink", "gone",
           "last_closed", "last_scan", "last_unlink"}

FileInit ==
    /\ clock = 1
    /\ csv = {} /\ sem = {} /\ filled = {}
    /\ file = [o \in Outputs |-> NoFile]
    /\ file_name = [o \in Outputs |-> NoFile]
    /\ nb_messages = [o \in Outputs |-> 0]
    /\ fstep = [o \in Outputs |-> "absent"]
    /\ doomed = [o \in Outputs |-> {}]
    /\ faults = 0

At(o, s) == fstep[o] = s
Goto(o, s) == fstep' = [fstep EXCEPT ![o] = s]

\* _create_new_file up to the fopen, which may fail; output 1 then cleans up
CreateNewFile(o) ==
    /\ fstep[o] \in {"absent", "create"}
    /\ clock <= MaxFiles
    /\ nb_messages' = [nb_messages EXCEPT ![o] = 0]
    /\ file_name' = [file_name EXCEPT ![o] = clock]
    /\ clock' = clock + 1
    /\ \/ /\ csv' = csv \cup {clock}
          /\ file' = [file EXCEPT ![o] = clock]
          /\ UNCHANGED faults
       \/ /\ faults < MaxFaults
          /\ faults' = faults + 1
          /\ file' = [file EXCEPT ![o] = NoFile]
          /\ UNCHANGED csv
    /\ Goto(o, IF o = 1 /\ Retained > 0 THEN "scan" ELSE "idle")
    /\ UNCHANGED <<sem, filled, doomed>>

\* file_output_write: nothing is written without an open file
FileWrite(o) ==
    /\ nb_messages[o] < MaxMessages
    /\ IF file[o] = NoFile
       THEN UNCHANGED <<nb_messages, filled>>
       ELSE /\ nb_messages' = [nb_messages EXCEPT ![o] = @ + 1]
            /\ filled' = filled \cup {file[o]}
    /\ UNCHANGED <<clock, csv, sem, file, file_name, fstep, doomed, faults>>

\* file_output_flush: an output whose last fopen failed is left alone
FileFlush(o) ==
    /\ At(o, "idle")
    /\ IF file[o] = NoFile THEN UNCHANGED <<file, fstep>>
       ELSE /\ file' = [file EXCEPT ![o] = NoFile]
            /\ Goto(o, "closed")
    /\ UNCHANGED <<clock, csv, sem, filled, file_name, nb_messages, doomed, faults>>

\* the end of file_output_release: output 0 cleans up once more
AfterLastFile(o) == IF o = 0 /\ Retained > 0 THEN "last_scan" ELSE "gone"

\* _create_semaphore_file: an empty data file is deleted instead; the fopen may fail
CreateSemaphoreFile(o) ==
    LET name == file_name[o] IN
    /\ fstep[o] \in {"closed", "last_closed"}
    /\ \/ /\ nb_messages[o] = 0
          /\ csv' = csv \ {name}
          /\ UNCHANGED <<sem, faults>>
       \/ /\ nb_messages[o] > 0
          /\ sem' = sem \cup {name}
          /\ UNCHANGED <<csv, faults>>
       \/ /\ nb_messages[o] > 0 /\ faults < MaxFaults
          /\ faults' = faults + 1
          /\ UNCHANGED <<csv, sem>>
    /\ Goto(o, IF At(o, "closed") THEN "create" ELSE AfterLastFile(o))
    /\ UNCHANGED <<clock, filled, file, file_name, nb_messages, doomed>>

\* Mutant: the last data file is closed without its semaphore
FileReleaseSilent(o) ==
    /\ At(o, "idle")
    /\ file' = [file EXCEPT ![o] = NoFile]
    /\ Goto(o, AfterLastFile(o))
    /\ UNCHANGED <<clock, csv, sem, filled, file_name, nb_messages, doomed, faults>>

\* file_output_release
FileRelease(o) ==
    /\ At(o, "idle")
    /\ file' = [file EXCEPT ![o] = NoFile]
    /\ Goto(o, IF file[o] # NoFile THEN "last_closed" ELSE AfterLastFile(o))
    /\ UNCHANGED <<clock, csv, sem, filled, file_name, nb_messages, doomed, faults>>

\* Mutant: one file too many is removed
OldSampledFilesOffByOne == {n \in sem : Cardinality({m \in sem : m > n}) + 1 >= Retained}

\* the scandir of _remove_old_sampled_files: all but the Retained newest names
OldSampledFiles == {n \in sem : Cardinality({m \in sem : m > n}) >= Retained}

ScanOldFiles(o) ==
    /\ fstep[o] \in {"scan", "last_scan"}
    /\ doomed' = [doomed EXCEPT ![o] = OldSampledFiles]
    /\ Goto(o, IF At(o, "scan") THEN "unlink" ELSE "last_unlink")
    /\ UNCHANGED <<clock, csv, sem, filled, file, file_name, nb_messages, faults>>

\* the oldest name on the list, the next one _remove_old_sampled_files deletes
Oldest(names) == CHOOSE n \in names : \A m \in names : n <= m

\* Mutant: the data file is deleted before its semaphore
RemoveOldFileDataFirst(o) ==
    /\ fstep[o] \in {"unlink", "last_unlink"}
    /\ doomed[o] # {}
    /\ LET name == Oldest(doomed[o]) IN
       IF name \in csv
       THEN csv' = csv \ {name} /\ UNCHANGED <<sem, doomed>>
       ELSE /\ sem' = sem \ {name}
            /\ doomed' = [doomed EXCEPT ![o] = @ \ {name}]
            /\ UNCHANGED csv
    /\ UNCHANGED <<clock, filled, file, file_name, nb_messages, fstep, faults>>

\* the loop of _remove_old_sampled_files: the semaphore first, then its data file
RemoveOldFile(o) ==
    /\ fstep[o] \in {"unlink", "last_unlink"}
    /\ doomed[o] # {}
    /\ LET name == Oldest(doomed[o]) IN
       IF name \in sem
       THEN sem' = sem \ {name} /\ UNCHANGED <<csv, doomed>>
       ELSE /\ csv' = csv \ {name}
            /\ doomed' = [doomed EXCEPT ![o] = @ \ {name}]
            /\ UNCHANGED sem
    /\ UNCHANGED <<clock, filled, file, file_name, nb_messages, fstep, faults>>

RemovedOldFiles(o) ==
    /\ fstep[o] \in {"unlink", "last_unlink"}
    /\ doomed[o] = {}
    /\ Goto(o, IF At(o, "unlink") THEN "idle" ELSE "gone")
    /\ UNCHANGED <<clock, csv, sem, filled, file, file_name, nb_messages, doomed, faults>>

\* the steps inside a call of the output's thread
FileStep(o) ==
    \/ fstep[o] = "create" /\ CreateNewFile(o)
    \/ CreateSemaphoreFile(o)
    \/ ScanOldFiles(o)
    \/ RemoveOldFile(o)
    \/ RemovedOldFiles(o)

\* the process dies: the files stay as they are, a new one starts from nothing
FileCrash ==
    /\ file' = [o \in Outputs |-> NoFile]
    /\ file_name' = [o \in Outputs |-> NoFile]
    /\ nb_messages' = [o \in Outputs |-> 0]
    /\ fstep' = [o \in Outputs |-> "absent"]
    /\ doomed' = [o \in Outputs |-> {}]
    /\ UNCHANGED <<clock, csv, sem, filled, faults>>

FileTypeOK ==
    /\ clock \in 1..(MaxFiles + 1)
    /\ csv \subseteq Names /\ sem \subseteq Names /\ filled \subseteq Names
    /\ file \in [Outputs -> Names \cup {NoFile}]
    /\ file_name \in [Outputs -> Names \cup {NoFile}]
    /\ nb_messages \in [Outputs -> 0..MaxMessages]
    /\ fstep \in [Outputs -> FSteps]
    /\ doomed \in [Outputs -> SUBSET Names]

-----------------------------------------------------------------------------
(* A semaphore file announces a complete data file: its data file exists, is *)
(* closed and holds messages; and no clean-up deletes a file that is open.   *)
(* (order of fclose, fopen of .sem and the two unlinks; crashes in between)  *)
DirectoryConsistent ==
    /\ \A n \in sem : n \in csv /\ n \in filled /\ \A o \in Outputs : file[o] # n
    /\ \A o \in Outputs : file[o] # NoFile => file[o] \in csv

(* "retains the last x sample files": a data file with messages is deleted   *)
(* only while at least Retained newer files are announced.                   *)
KeepsNewest ==
    [][\A n \in csv \ csv' : n \in filled => Cardinality({m \in sem : m > n}) >= Retained]_fvars

=============================================================================
