---------------------------- MODULE OutputProofs ----------------------------
(***************************************************************************)
(* Proofs about Output, for any configuration of the channels, any periods *)
(* and any number of reports, files and crashes: first the directory of    *)
(* FileOutput, then the connection of RedisOutput, then the outputs with   *)
(* all their channels.                                                     *)
(***************************************************************************)
EXTENDS Output, FiniteSetTheorems, SequenceTheorems, WellFoundedInduction, TLAPS

(***************************************************************************)
(* FileOutput: what the semaphore files announce is there, for any number  *)
(* of outputs and files, and a clean-up deletes nothing that had to be kept. *)
(***************************************************************************)

\* Names come from the clock: each is used by one output only.
NamesInv ==
    /\ \A n \in csv \cup sem \cup filled : n < clock
    /\ \A o \in Outputs : file_name[o] < clock /\ \A n \in doomed[o] : n < clock
    /\ \A o, p \in Outputs : file_name[o] = file_name[p] /\ file_name[o] # NoFile => o = p

\* Output o has a data file that is not announced yet: open, or just closed.
Fresh(o) == file[o] # NoFile \/ fstep[o] \in {"closed", "last_closed"}

\* Such a file is on disk, and neither announced nor on the list of a clean-up.
FreshInv ==
    \A o \in Outputs :
        /\ file[o] # NoFile => file[o] = file_name[o] /\ fstep[o] \in {"idle", "scan", "unlink"}
        /\ nb_messages[o] > 0 => file_name[o] # NoFile /\ file_name[o] \in filled
        /\ Fresh(o) =>
              /\ file_name[o] # NoFile /\ file_name[o] \in csv /\ file_name[o] \notin sem
              /\ \A p \in Outputs : file_name[o] \notin doomed[p]
              /\ nb_messages[o] = 0 => file_name[o] \notin filled

\* A semaphore has its data file.
SemInv == sem \subseteq csv /\ sem \subseteq filled

\* The inductive invariant.
FileInv == FileTypeOK /\ NamesInv /\ FreshInv /\ SemInv

\* A list is there only while its clean-up runs, and what is on it may go.
DoomedOld ==
    \A o \in Outputs :
        /\ doomed[o] # {} => fstep[o] \in {"unlink", "last_unlink"}
        /\ \A n \in doomed[o] : Cardinality({m \in sem : m > n}) >= Retained

\* Two clean-ups at once could delete one file too many.
OneCleaner == \A o, p \in Outputs : o # p => doomed[o] = {} \/ doomed[p] = {}

\* The statistics thread is cancelled inside a call of its output.
FileCut(o) ==
    /\ fstep' = [fstep EXCEPT ![o] = IF fstep[o] \in {"idle", "absent", "gone"} THEN @ ELSE "idle"]
    /\ doomed' = [doomed EXCEPT ![o] = {}]
    /\ UNCHANGED <<clock, csv, sem, filled, file, file_name, nb_messages, faults>>

\* All that can happen to output o and to the directory.
CallStep(o) ==
    \/ CreateNewFile(o) \/ FileWrite(o) \/ FileFlush(o) \/ FileRelease(o)
    \/ CreateSemaphoreFile(o) \/ ScanOldFiles(o) \/ RemoveOldFile(o) \/ RemovedOldFiles(o)

OutputStep(o) == CallStep(o) \/ FileCut(o)

FileSteps == (\E o \in Outputs : OutputStep(o)) \/ FileCrash \/ UNCHANGED fvars
-----------------------------------------------------------------------------
\* A set of names has an oldest one.
LEMMA OldestExists ==
    ASSUME NEW names, names \subseteq Nat, names # {}
    PROVE  Oldest(names) \in names /\ \A m \in names : Oldest(names) <= m
<1>1. PICK n \in names : \A m \in names : ~(<<m, n>> \in OpToRel(<, Nat))
  BY NatLessThanWellFounded, WFMin
<1>2. ASSUME NEW m \in names PROVE n <= m
  <2>1. ~(<<m, n>> \in {ss \in Nat \X Nat : ss[1] < ss[2]})
    BY <1>1, Zenon DEF OpToRel
  <2> QED
    BY <2>1
<1> QED
  BY <1>2 DEF Oldest

\* The names on disk, open or on a list, are natural numbers.
LEMMA NamesAreNumbers ==
    ASSUME FileTypeOK
    PROVE  /\ Names \subseteq Nat /\ clock \in Nat /\ clock > 0
           /\ csv \subseteq Nat /\ sem \subseteq Nat /\ filled \subseteq Nat
           /\ \A o \in Outputs : file[o] \in Nat /\ file_name[o] \in Nat /\ doomed[o] \subseteq Nat
                                 /\ nb_messages[o] \in Nat
BY OutputAssumption DEF FileTypeOK, Names, NoFile

\* The directory is empty at first.
LEMMA FileInitInv == FileInit => FileInv
BY OutputAssumption DEF FileInit, FileInv, FileTypeOK, NamesInv, FreshInv, Fresh, SemInv, Names, NoFile, FSteps

\* Every step keeps the types.
LEMMA FileTypeStep == FileInv /\ FileSteps => FileTypeOK'
<1> SUFFICES ASSUME FileTypeOK, FreshInv, FileSteps PROVE FileTypeOK'
  BY DEF FileInv
<1>1. CASE UNCHANGED fvars
  BY <1>1 DEF fvars, FileTypeOK
<1>2. CASE FileCrash
  BY <1>2, OutputAssumption DEF FileCrash, FileTypeOK, FSteps, NoFile
<1>3. ASSUME NEW o \in Outputs, OutputStep(o) PROVE FileTypeOK'
  <2>1. CASE CreateNewFile(o)
    <3>1. clock \in Names
      <4>1. clock \in 1 .. MaxFiles + 1 /\ clock <= MaxFiles
        BY <2>1 DEF CreateNewFile, FileTypeOK
      <4> QED
        BY <4>1, OutputAssumption DEF Names
    <3>2. clock' \in 1 .. MaxFiles + 1 /\ csv' \subseteq Names
      <4>1. clock' = clock + 1
        BY <2>1 DEF CreateNewFile
      <4>2. csv' \subseteq Names
        BY <2>1, <3>1 DEF CreateNewFile, FileTypeOK
      <4> QED
        BY <3>1, <4>1, <4>2, OutputAssumption DEF Names
    <3>3. file' \in [Outputs -> Names \cup {NoFile}] /\ file_name' \in [Outputs -> Names \cup {NoFile}]
      BY <2>1, <3>1 DEF CreateNewFile, FileTypeOK
    <3>4. nb_messages' \in [Outputs -> 0 .. MaxMessages] /\ fstep' \in [Outputs -> FSteps]
      BY <2>1, OutputAssumption DEF CreateNewFile, FileTypeOK, Goto, FSteps
    <3> QED
      BY <2>1, <3>2, <3>3, <3>4 DEF CreateNewFile, FileTypeOK
  <2>2. CASE FileWrite(o)
    <3>1. nb_messages' \in [Outputs -> 0 .. MaxMessages]
      BY <2>2, OutputAssumption DEF FileWrite, FileTypeOK
    <3>2. filled' \subseteq Names
      BY <2>2 DEF FileWrite, FileTypeOK
    <3> QED
      BY <2>2, <3>1, <3>2 DEF FileWrite, FileTypeOK
  <2>3. CASE FileFlush(o) \/ FileRelease(o)
    <3>1. file' \in [Outputs -> Names \cup {NoFile}] /\ fstep' \in [Outputs -> FSteps]
      BY <2>3 DEF FileFlush, FileRelease, AfterLastFile, FileTypeOK, Goto, FSteps
    <3> QED
      BY <2>3, <3>1 DEF FileFlush, FileRelease, FileTypeOK
  <2>4. CASE CreateSemaphoreFile(o)
    <3>1. file_name[o] \in Names
      BY <2>4 DEF CreateSemaphoreFile, FreshInv, Fresh, FileTypeOK
    <3>2. fstep' \in [Outputs -> FSteps]
      BY <2>4 DEF CreateSemaphoreFile, AfterLastFile, FileTypeOK, Goto, FSteps
    <3> QED
      BY <2>4, <3>1, <3>2 DEF CreateSemaphoreFile, FileTypeOK
  <2>5. CASE ScanOldFiles(o)
    <3>1. fstep' \in [Outputs -> FSteps] /\ doomed' \in [Outputs -> SUBSET Names]
      BY <2>5 DEF ScanOldFiles, OldSampledFiles, FileTypeOK, Goto, FSteps
    <3> QED
      BY <2>5, <3>1 DEF ScanOldFiles, FileTypeOK
  <2>6. CASE RemoveOldFile(o)
    <3>1. doomed' \in [Outputs -> SUBSET Names] /\ csv' \subseteq Names /\ sem' \subseteq Names
      BY <2>6 DEF RemoveOldFile, FileTypeOK
    <3> QED
      BY <2>6, <3>1 DEF RemoveOldFile, FileTypeOK
  <2>7. CASE RemovedOldFiles(o)
    <3>1. fstep' \in [Outputs -> FSteps]
      BY <2>7 DEF RemovedOldFiles, FileTypeOK, Goto, FSteps
    <3> QED
      BY <2>7, <3>1 DEF RemovedOldFiles, FileTypeOK
  <2>8. CASE FileCut(o)
    <3>1. fstep' \in [Outputs -> FSteps] /\ doomed' \in [Outputs -> SUBSET Names]
      BY <2>8 DEF FileCut, FileTypeOK, FSteps
    <3> QED
      BY <2>8, <3>1 DEF FileCut, FileTypeOK
  <2> QED
    BY <1>3, <2>1, <2>2, <2>3, <2>4, <2>5, <2>6, <2>7, <2>8 DEF OutputStep, CallStep
<1> QED
  BY <1>1, <1>2, <1>3 DEF FileSteps

\* A new file has a name nobody used before.
LEMMA CreateNewFileInv ==
    ASSUME FileInv, NEW o \in Outputs, CreateNewFile(o)
    PROVE  NamesInv' /\ FreshInv' /\ SemInv'
<1>1. FileTypeOK /\ NamesInv /\ FreshInv /\ SemInv
  BY DEF FileInv
<1>2. /\ Names \subseteq Nat /\ clock \in Nat /\ clock > 0
      /\ csv \subseteq Nat /\ sem \subseteq Nat /\ filled \subseteq Nat
      /\ \A p \in Outputs : file[p] \in Nat /\ file_name[p] \in Nat /\ doomed[p] \subseteq Nat
                            /\ nb_messages[p] \in Nat
  BY <1>1, NamesAreNumbers
<1>3. /\ file_name' = [file_name EXCEPT ![o] = clock] /\ clock' = clock + 1
      /\ nb_messages' = [nb_messages EXCEPT ![o] = 0]
      /\ \/ csv' = csv \cup {clock} /\ file' = [file EXCEPT ![o] = clock]
         \/ csv' = csv /\ file' = [file EXCEPT ![o] = NoFile]
      /\ UNCHANGED <<sem, filled, doomed>>
      /\ fstep' = [fstep EXCEPT ![o] = IF o = 1 /\ Retained > 0 THEN "scan" ELSE "idle"]
  BY DEF CreateNewFile, Goto
<1>4. /\ file_name'[o] = clock /\ nb_messages'[o] = 0 /\ fstep'[o] \in {"scan", "idle"}
      /\ (file'[o] = clock /\ clock \in csv') \/ file'[o] = NoFile
      /\ \A p \in Outputs : p # o => /\ file_name'[p] = file_name[p] /\ nb_messages'[p] = nb_messages[p]
                                     /\ fstep'[p] = fstep[p] /\ file'[p] = file[p]
  BY <1>1, <1>3 DEF FileTypeOK
<1>5. /\ clock \notin sem /\ clock \notin filled
      /\ \A p \in Outputs : file_name[p] # clock /\ clock \notin doomed[p]
  BY <1>1, <1>2 DEF NamesInv
<1>6. NamesInv'
  <2>1. \A n \in csv' \cup sem' \cup filled' : n < clock'
    <3>1. \A n \in csv' \cup sem' \cup filled' : n \in Nat /\ (n < clock \/ n = clock)
      BY <1>1, <1>2, <1>3 DEF NamesInv
    <3> QED
      BY <1>2, <1>3, <3>1
  <2>2. \A p \in Outputs : file_name'[p] < clock' /\ \A n \in doomed'[p] : n < clock'
    BY <1>1, <1>2, <1>3, <1>4 DEF NamesInv
  <2>3. \A p, q \in Outputs : file_name'[p] = file_name'[q] /\ file_name'[p] # NoFile => p = q
    BY <1>1, <1>4, <1>5 DEF NamesInv
  <2> QED
    BY <2>1, <2>2, <2>3 DEF NamesInv
<1>7. FreshInv'
  <2> SUFFICES ASSUME NEW p \in Outputs PROVE
        /\ file'[p] # NoFile => file'[p] = file_name'[p] /\ fstep'[p] \in {"idle", "scan", "unlink"}
        /\ nb_messages'[p] > 0 => file_name'[p] # NoFile /\ file_name'[p] \in filled'
        /\ file'[p] # NoFile \/ fstep'[p] \in {"closed", "last_closed"} =>
              /\ file_name'[p] # NoFile /\ file_name'[p] \in csv' /\ file_name'[p] \notin sem'
              /\ \A q \in Outputs : file_name'[p] \notin doomed'[q]
              /\ nb_messages'[p] = 0 => file_name'[p] \notin filled'
    BY DEF FreshInv, Fresh
  <2>1. CASE p = o
    BY <1>2, <1>3, <1>4, <1>5, <2>1 DEF NoFile
  <2>2. CASE p # o
    BY <1>1, <1>3, <1>4, <2>2 DEF FreshInv, Fresh
  <2> QED
    BY <2>1, <2>2
<1>8. SemInv'
  BY <1>1, <1>3 DEF SemInv
<1> QED
  BY <1>6, <1>7, <1>8

\* A message goes to the open file.
LEMMA FileWriteInv ==
    ASSUME FileInv, NEW o \in Outputs, FileWrite(o)
    PROVE  NamesInv' /\ FreshInv' /\ SemInv'
<1>1. FileTypeOK /\ NamesInv /\ FreshInv /\ SemInv
  BY DEF FileInv
<1>2. UNCHANGED <<clock, csv, sem, file, file_name, fstep, doomed>>
  BY DEF FileWrite
<1>3. CASE file[o] = NoFile
  <2>1. UNCHANGED <<nb_messages, filled>>
    BY <1>3 DEF FileWrite
  <2> QED
    BY <1>1, <1>2, <2>1 DEF NamesInv, FreshInv, Fresh, SemInv
<1>4. CASE file[o] # NoFile
  <2>1. nb_messages' = [nb_messages EXCEPT ![o] = @ + 1] /\ filled' = filled \cup {file_name[o]}
    BY <1>1, <1>4 DEF FileWrite, FreshInv
  <2>2. /\ nb_messages'[o] # 0 /\ \A p \in Outputs : p # o => nb_messages'[p] = nb_messages[p]
    BY <1>1, <2>1, NamesAreNumbers DEF FileTypeOK
  <2>3. \A p \in Outputs : file_name[p] = file_name[o] /\ file_name[p] # NoFile => p = o
    BY <1>1 DEF NamesInv
  <2>4. NamesInv' /\ SemInv'
    BY <1>1, <1>2, <2>1 DEF NamesInv, SemInv
  <2>5. FreshInv'
    <3> SUFFICES ASSUME NEW p \in Outputs PROVE
          /\ nb_messages'[p] > 0 => file_name[p] # NoFile /\ file_name[p] \in filled'
          /\ Fresh(p) /\ nb_messages'[p] = 0 => file_name[p] \notin filled'
      BY <1>1, <1>2 DEF FreshInv, Fresh
    <3>1. CASE p = o
      BY <1>1, <1>4, <2>1, <2>2, <3>1 DEF FreshInv, Fresh
    <3>2. CASE p # o
      BY <1>1, <2>1, <2>2, <2>3, <3>2 DEF FreshInv
    <3> QED
      BY <3>1, <3>2
  <2> QED
    BY <2>4, <2>5
<1> QED
  BY <1>3, <1>4

\* The file is closed: it stays unannounced until its semaphore is there.
LEMMA FileCloseInv ==
    ASSUME FileInv, NEW o \in Outputs, FileFlush(o) \/ FileRelease(o)
    PROVE  NamesInv' /\ FreshInv' /\ SemInv'
<1>1. FileTypeOK /\ NamesInv /\ FreshInv /\ SemInv
  BY DEF FileInv
<1>2. UNCHANGED <<clock, csv, sem, filled, file_name, nb_messages, doomed>>
  BY DEF FileFlush, FileRelease
<1>3. NamesInv' /\ SemInv'
  BY <1>1, <1>2 DEF NamesInv, SemInv
<1>4. \A p \in Outputs : /\ file'[p] # NoFile => file'[p] = file[p] /\ fstep'[p] = fstep[p]
                         /\ fstep'[p] \in {"closed", "last_closed"} => Fresh(p)
  BY <1>1 DEF FileFlush, FileRelease, Goto, At, AfterLastFile, Fresh, FileTypeOK
<1>5. FreshInv'
  BY <1>1, <1>2, <1>4 DEF FreshInv, Fresh
<1> QED
  BY <1>3, <1>5

\* The semaphore announces the file of its output, or the file was empty and
\* goes.
LEMMA CreateSemaphoreFileInv ==
    ASSUME FileInv, NEW o \in Outputs, CreateSemaphoreFile(o)
    PROVE  NamesInv' /\ FreshInv' /\ SemInv'
<1>1. FileTypeOK /\ NamesInv /\ FreshInv /\ SemInv
  BY DEF FileInv
<1> DEFINE name == file_name[o]
<1>2. /\ fstep[o] \in {"closed", "last_closed"}
      /\ \/ nb_messages[o] = 0 /\ csv' = csv \ {name} /\ sem' = sem
         \/ nb_messages[o] > 0 /\ csv' = csv /\ sem' = sem \cup {name}
         \/ csv' = csv /\ sem' = sem
      /\ UNCHANGED <<clock, filled, file, file_name, nb_messages, doomed>>
  BY DEF CreateSemaphoreFile
<1>3. /\ fstep'[o] \in {"create", "last_scan", "gone"}
      /\ \A p \in Outputs : p # o => fstep'[p] = fstep[p]
  BY <1>1 DEF CreateSemaphoreFile, Goto, At, AfterLastFile, FileTypeOK
<1>4. /\ name # NoFile /\ name \in csv /\ name \notin sem /\ file[o] = NoFile
      /\ nb_messages[o] > 0 => name \in filled
  BY <1>1, <1>2 DEF FreshInv, Fresh
<1>5. \A p \in Outputs : file_name[p] = name => p = o
  BY <1>1, <1>4 DEF NamesInv
<1> HIDE DEF name
<1>6. NamesInv'
  BY <1>1, <1>2, <1>4 DEF NamesInv
<1>7. SemInv'
  BY <1>1, <1>2, <1>4 DEF SemInv
<1>8. FreshInv'
  <2>1. \A p \in Outputs : Fresh(p)' => Fresh(p) /\ p # o
    BY <1>2, <1>3, <1>4 DEF Fresh
  <2>2. \A p \in Outputs : p # o /\ Fresh(p) => file_name[p] \in csv' /\ file_name[p] \notin sem'
    BY <1>1, <1>2, <1>5 DEF FreshInv
  <2> QED
    BY <1>1, <1>2, <1>3, <1>4, <2>1, <2>2 DEF FreshInv
<1> QED
  BY <1>6, <1>7, <1>8

\* Only announced files come on the list of a clean-up.
LEMMA ScanOldFilesInv ==
    ASSUME FileInv, NEW o \in Outputs, ScanOldFiles(o)
    PROVE  NamesInv' /\ FreshInv' /\ SemInv'
<1>1. FileTypeOK /\ NamesInv /\ FreshInv /\ SemInv
  BY DEF FileInv
<1>2. /\ UNCHANGED <<clock, csv, sem, filled, file, file_name, nb_messages>>
      /\ \/ fstep[o] = "scan" /\ fstep'[o] = "unlink"
         \/ fstep[o] = "last_scan" /\ fstep'[o] = "last_unlink"
      /\ \A p \in Outputs : p # o => fstep'[p] = fstep[p]
  BY <1>1 DEF ScanOldFiles, At, Goto, FileTypeOK
<1>3. doomed'[o] \subseteq sem /\ \A p \in Outputs : p # o => doomed'[p] = doomed[p]
  BY <1>1 DEF ScanOldFiles, OldSampledFiles, FileTypeOK
<1>4. NamesInv' /\ SemInv'
  BY <1>1, <1>2, <1>3 DEF NamesInv, SemInv
<1>5. \A p \in Outputs : Fresh(p)' <=> Fresh(p)
  BY <1>2 DEF Fresh
<1>6. FreshInv'
  BY <1>1, <1>2, <1>3, <1>5 DEF FreshInv
<1> QED
  BY <1>4, <1>6

\* A clean-up deletes the semaphore before the data file.
LEMMA RemoveOldFileInv ==
    ASSUME FileInv, NEW o \in Outputs, RemoveOldFile(o)
    PROVE  NamesInv' /\ FreshInv' /\ SemInv'
<1>1. FileTypeOK /\ NamesInv /\ FreshInv /\ SemInv
  BY DEF FileInv
<1> DEFINE name == Oldest(doomed[o])
<1>2. name \in doomed[o]
  BY <1>1, NamesAreNumbers, OldestExists DEF RemoveOldFile
<1>3. /\ UNCHANGED <<clock, filled, file, file_name, nb_messages, fstep>>
      /\ \/ name \in sem /\ sem' = sem \ {name} /\ csv' = csv /\ doomed' = doomed
         \/ name \notin sem /\ sem' = sem /\ csv' = csv \ {name}
            /\ doomed' = [doomed EXCEPT ![o] = @ \ {name}]
  BY DEF RemoveOldFile
<1> HIDE DEF name
<1>4. \A p \in Outputs : doomed'[p] \subseteq doomed[p]
  BY <1>1, <1>3 DEF FileTypeOK
<1>5. NamesInv' /\ SemInv'
  BY <1>1, <1>3, <1>4 DEF NamesInv, SemInv
<1>6. \A p \in Outputs : Fresh(p)' <=> Fresh(p)
  BY <1>3 DEF Fresh
<1>7. \A p \in Outputs : Fresh(p) => file_name[p] # name
  BY <1>1, <1>2 DEF FreshInv
<1>8. \A p \in Outputs : Fresh(p) => file_name[p] \in csv' /\ file_name[p] \notin sem'
  BY <1>1, <1>3, <1>7 DEF FreshInv
<1>9. FreshInv'
  BY <1>1, <1>3, <1>4, <1>6, <1>8 DEF FreshInv
<1> QED
  BY <1>5, <1>9

\* The clean-up is over, or its thread is cancelled.
LEMMA EndOfCleanUpInv ==
    ASSUME FileInv, NEW o \in Outputs, RemovedOldFiles(o) \/ FileCut(o)
    PROVE  NamesInv' /\ FreshInv' /\ SemInv'
<1>1. FileTypeOK /\ NamesInv /\ FreshInv /\ SemInv
  BY DEF FileInv
<1>2. UNCHANGED <<clock, csv, sem, filled, file, file_name, nb_messages>>
  BY DEF RemovedOldFiles, FileCut
<1>3. \A p \in Outputs : /\ doomed'[p] \subseteq doomed[p]
                         /\ fstep'[p] = fstep[p] \/ fstep'[p] = "idle" \/ (file[p] = NoFile /\ fstep'[p] = "gone")
  BY <1>1 DEF RemovedOldFiles, FileCut, At, Goto, FileTypeOK, FreshInv
<1>4. NamesInv' /\ SemInv'
  BY <1>1, <1>2, <1>3 DEF NamesInv, SemInv
<1>5. \A p \in Outputs : Fresh(p)' => Fresh(p)
  BY <1>2, <1>3 DEF Fresh
<1>6. FreshInv'
  BY <1>1, <1>2, <1>3, <1>5 DEF FreshInv
<1> QED
  BY <1>4, <1>6

\* No step of an output, a clean-up or a crash breaks the invariant.
LEMMA FileStepInv == FileInv /\ FileSteps => FileInv'
<1> SUFFICES ASSUME FileInv, FileSteps PROVE FileInv'
  OBVIOUS
<1>1. FileTypeOK'
  BY FileTypeStep
<1>2. FileTypeOK /\ NamesInv /\ FreshInv /\ SemInv
  BY DEF FileInv
<1>3. CASE UNCHANGED fvars
  BY <1>1, <1>2, <1>3 DEF fvars, FileInv, NamesInv, FreshInv, Fresh, SemInv
<1>4. CASE FileCrash
  <2>1. clock \in Nat /\ clock > 0
    BY <1>2, NamesAreNumbers
  <2>2. NamesInv'
    BY <1>2, <1>4, <2>1 DEF FileCrash, NamesInv, NoFile
  <2>3. FreshInv' /\ SemInv'
    BY <1>2, <1>4 DEF FileCrash, FreshInv, Fresh, SemInv, NoFile
  <2> QED
    BY <1>1, <2>2, <2>3 DEF FileInv
<1>5. ASSUME NEW o \in Outputs, OutputStep(o) PROVE FileInv'
  BY <1>1, <1>5, CreateNewFileInv, FileWriteInv, FileCloseInv, CreateSemaphoreFileInv, ScanOldFilesInv,
     RemoveOldFileInv, EndOfCleanUpInv DEF OutputStep, CallStep, FileInv
<1> QED
  BY <1>3, <1>4, <1>5 DEF FileSteps

\* The invariant says more than that the directory is consistent.
LEMMA FileInvConsistent == FileInv => DirectoryConsistent
<1> SUFFICES ASSUME FileInv PROVE DirectoryConsistent
  OBVIOUS
<1>1. FileTypeOK /\ NamesInv /\ FreshInv /\ SemInv
  BY DEF FileInv
<1>2. \A n \in sem : n # NoFile
  BY <1>1, OutputAssumption DEF FileTypeOK, Names, NoFile
<1>3. \A o \in Outputs : file[o] # NoFile => Fresh(o) /\ file[o] = file_name[o]
  BY <1>1 DEF FreshInv, Fresh
<1> QED
  BY <1>1, <1>2, <1>3 DEF DirectoryConsistent, FreshInv, SemInv
-----------------------------------------------------------------------------
\* More semaphores, more newer names.
LEMMA NewerMonotone ==
    ASSUME FileTypeOK, FileTypeOK', NEW n, {m \in sem : m > n} \subseteq sem'
    PROVE  /\ Cardinality({m \in sem : m > n}) \in Nat
           /\ Cardinality({m \in sem' : m > n}) \in Nat
           /\ Cardinality({m \in sem : m > n}) <= Cardinality({m \in sem' : m > n})
<1>1. IsFiniteSet(Names)
  BY OutputAssumption, FS_Interval DEF Names
<1>2. {m \in sem' : m > n} \subseteq Names
  BY DEF FileTypeOK
<1>3. IsFiniteSet({m \in sem' : m > n})
  BY <1>1, <1>2, FS_Subset
<1>4. {m \in sem : m > n} \subseteq {m \in sem' : m > n}
  OBVIOUS
<1>5. IsFiniteSet({m \in sem : m > n}) /\ Cardinality({m \in sem : m > n}) <= Cardinality({m \in sem' : m > n})
  BY <1>3, <1>4, FS_Subset
<1> QED
  BY <1>3, <1>5, FS_CardinalityType

\* What a clean-up has on its list stays old enough while it is the only one.
LEMMA DoomedStaysOld == FileInv /\ DoomedOld /\ OneCleaner /\ FileSteps => DoomedOld'
<1> SUFFICES ASSUME FileInv, DoomedOld, OneCleaner, FileSteps PROVE DoomedOld'
  OBVIOUS
<1>1. FileTypeOK /\ FileTypeOK'
  BY FileStepInv DEF FileInv
<1>2. ASSUME NEW p \in Outputs, NEW n \in doomed'[p], n \in doomed[p], {m \in sem : m > n} \subseteq sem'
      PROVE  Cardinality({m \in sem' : m > n}) >= Retained
  <2>1. Cardinality({m \in sem : m > n}) >= Retained
    BY <1>2 DEF DoomedOld
  <2> QED
    BY <1>1, <1>2, <2>1, NewerMonotone, OutputAssumption
<1>3. CASE UNCHANGED fvars
  BY <1>3 DEF fvars, DoomedOld
<1>4. CASE FileCrash
  BY <1>4 DEF FileCrash, DoomedOld
<1>5. ASSUME NEW o \in Outputs, OutputStep(o) PROVE DoomedOld'
  <2>1. CASE CreateNewFile(o) \/ FileWrite(o) \/ FileFlush(o) \/ FileRelease(o) \/ CreateSemaphoreFile(o)
    <3>1. doomed' = doomed /\ sem \subseteq sem'
      BY <2>1 DEF CreateNewFile, FileWrite, FileFlush, FileRelease, CreateSemaphoreFile
    <3>2. \A p \in Outputs : fstep[p] \in {"unlink", "last_unlink"} => fstep'[p] = fstep[p]
      BY <1>1, <2>1 DEF CreateNewFile, FileWrite, FileFlush, FileRelease, CreateSemaphoreFile, Goto, At, AfterLastFile, FileTypeOK
    <3> QED
      BY <1>2, <3>1, <3>2 DEF DoomedOld
  <2>2. CASE ScanOldFiles(o)
    <3>1. /\ sem' = sem /\ doomed'[o] = OldSampledFiles /\ fstep'[o] \in {"unlink", "last_unlink"}
          /\ \A p \in Outputs : p # o => doomed'[p] = doomed[p] /\ fstep'[p] = fstep[p]
      BY <1>1, <2>2 DEF ScanOldFiles, Goto, At, AfterLastFile, FileTypeOK
    <3> QED
      BY <3>1 DEF DoomedOld, OldSampledFiles
  <2>3. CASE RemoveOldFile(o)
    <3> DEFINE name == Oldest(doomed[o])
    <3>1. doomed[o] # {} /\ doomed[o] \subseteq Nat /\ sem \subseteq Nat
      BY <1>1, <2>3, NamesAreNumbers DEF RemoveOldFile
    <3>2. name \in doomed[o] /\ \A n \in doomed[o] : name <= n
      BY <3>1, OldestExists
    <3>3. sem \ {name} \subseteq sem' /\ fstep' = fstep
      BY <2>3 DEF RemoveOldFile
    <3>4. \A p \in Outputs : doomed'[p] \subseteq doomed[p]
      BY <1>1, <2>3 DEF RemoveOldFile, FileTypeOK
    <3>5. \A p \in Outputs : p # o => doomed'[p] = {}
      BY <3>1, <3>4 DEF OneCleaner
    <3> HIDE DEF name
    <3>6. ASSUME NEW n \in doomed'[o] PROVE Cardinality({m \in sem' : m > n}) >= Retained
      <4>1. n \in doomed[o] /\ name <= n
        BY <3>2, <3>4
      <4>2. {m \in sem : m > n} \subseteq sem'
        BY <3>1, <3>2, <3>3, <4>1
      <4> QED
        BY <1>2, <4>1, <4>2
    <3> QED
      BY <3>3, <3>4, <3>5, <3>6 DEF DoomedOld
  <2>4. CASE RemovedOldFiles(o) \/ FileCut(o)
    <3>1. /\ sem' = sem /\ doomed'[o] = {}
          /\ \A p \in Outputs : p # o => doomed'[p] = doomed[p] /\ fstep'[p] = fstep[p]
      BY <1>1, <2>4 DEF RemovedOldFiles, FileCut, Goto, At, AfterLastFile, FileTypeOK
    <3> QED
      BY <3>1 DEF DoomedOld
  <2> QED
    BY <1>5, <2>1, <2>2, <2>3, <2>4 DEF OutputStep, CallStep
<1> QED
  BY <1>3, <1>4, <1>5 DEF FileSteps

\* So a step deletes a file with messages only if enough newer ones are there.
LEMMA KeepsNewestStep ==
    ASSUME FileInv, DoomedOld, FileSteps, NEW n \in csv \ csv', n \in filled
    PROVE  Cardinality({m \in sem : m > n}) >= Retained
<1>1. FileTypeOK /\ FreshInv
  BY DEF FileInv
<1>2. ~(UNCHANGED fvars) /\ ~FileCrash
  BY DEF fvars, FileCrash
<1>3. PICK o \in Outputs : OutputStep(o)
  BY <1>2 DEF FileSteps
<1>4. CASE CreateSemaphoreFile(o)
  <2>1. Fresh(o) /\ (csv' = csv \/ (nb_messages[o] = 0 /\ csv' = csv \ {file_name[o]}))
    BY <1>4 DEF CreateSemaphoreFile, Fresh
  <2> QED
    BY <1>1, <2>1 DEF FreshInv
<1>5. CASE RemoveOldFile(o)
  <2>1. Oldest(doomed[o]) \in doomed[o]
    BY <1>1, <1>5, NamesAreNumbers, OldestExists DEF RemoveOldFile
  <2>2. csv' = csv \/ csv' = csv \ {Oldest(doomed[o])}
    BY <1>5 DEF RemoveOldFile
  <2> QED
    BY <2>1, <2>2 DEF DoomedOld
<1>6. CASE \/ CreateNewFile(o) \/ FileWrite(o) \/ FileFlush(o) \/ FileRelease(o)
           \/ ScanOldFiles(o) \/ RemovedOldFiles(o) \/ FileCut(o)
  <2>1. csv \subseteq csv'
    BY <1>6 DEF CreateNewFile, FileWrite, FileFlush, FileRelease, ScanOldFiles, RemovedOldFiles, FileCut
  <2> QED
    BY <2>1
<1> QED
  BY <1>3, <1>4, <1>5, <1>6 DEF OutputStep, CallStep

(***************************************************************************)
(* RedisOutput: for any number of threads that share the connection, the   *)
(* order of push_waiter and pop_waiter ties every reply to its command.    *)
(***************************************************************************)

Cmds == Int \X Int

RedisTypes ==
    /\ waiters \in Seq(RedisThreads)
    /\ server \in Seq(Cmds) /\ inbound \in Seq(Cmds) /\ buffered \in Seq(Cmds)
    /\ rstep \in [RedisThreads -> {"out", "lock", "locked", "held", "waiting", "done"}]
    /\ sent \in [RedisThreads -> Cmds] /\ reply \in [RedisThreads -> Cmds]

\* The replies on their way, in the reader's buffer, in the socket and still
\* at the server, are for the waiters, in their order.
Aligned ==
    /\ Len(waiters) = Len(buffered) + Len(inbound) + Len(server)
    /\ \A i \in 1 .. Len(buffered) : buffered[i] = sent[waiters[i]]
    /\ \A i \in 1 .. Len(inbound) : inbound[i] = sent[waiters[Len(buffered) + i]]
    /\ \A i \in 1 .. Len(server) : server[i] = sent[waiters[Len(buffered) + Len(inbound) + i]]

\* After an error nothing is delivered or sent any more; a connection that
\* does not exist has no reader.
ReaderInv ==
    /\ reader \in {"fail", "ended"} => broken
    /\ reader \notin {"fail", "ended"} => Aligned
    /\ conn \in {"none", "freed"} => reader = "off"

\* A thread is at most once on the list, and it sleeps or is about to until
\* the reader has woken it up.
WaitersInv ==
    /\ \A i, j \in 1 .. Len(waiters) : waiters[i] = waiters[j] => i = j
    /\ \A i \in 1 .. Len(waiters) : rstep[waiters[i]] \in {"held", "waiting"} /\ waiters[i] # target
    /\ target # "none" => target \in RedisThreads /\ rstep[target] \in {"held", "waiting"}

\* The inductive invariant.
RedisInv == RedisTypes /\ ReaderInv /\ WaitersInv /\ OwnReply

\* All that can happen to the connection.
RedisSteps ==
    \/ RedisInit
    \/ \E t \in RedisThreads, m \in Cmds : RedisEnter(t, m)
    \/ \E t \in RedisThreads : Command(t) \/ RedisLeave(t)
    \/ Reader \/ ServerReply \/ ServerBreaks \/ RedisClose \/ RedisCrash
    \/ UNCHANGED rvars
-----------------------------------------------------------------------------
\* A thread that is not on the list, not being woken up.
LEMMA NotWaiting ==
    ASSUME RedisInv, NEW t \in RedisThreads, rstep[t] \notin {"held", "waiting"}
    PROVE  (\A i \in 1 .. Len(waiters) : waiters[i] # t /\ waiters[i] \in RedisThreads) /\ target # t
<1>1. \A i \in 1 .. Len(waiters) : waiters[i] \in RedisThreads
  BY DEF RedisInv, RedisTypes
<1> QED
  BY <1>1, RedisAssumption DEF RedisInv, WaitersInv

\* The connection starts without waiters.
LEMMA RedisStartInv == RedisStart => RedisInv
<1> SUFFICES ASSUME RedisStart PROVE RedisInv
  OBVIOUS
<1>1. NoReply \in Cmds
  BY DEF NoReply, Cmds
<1>2. RedisTypes
  BY <1>1 DEF RedisStart, RedisTypes
<1> QED
  BY <1>2 DEF RedisInv, RedisStart, ReaderInv, Aligned, WaitersInv, OwnReply
\* Steps that leave the list, the replies on their way and what the waiters
\* sent alone: the mutex, the first connection, failures.
LEMMA QuietStep ==
    ASSUME RedisInv,
           UNCHANGED <<waiters, server, inbound, buffered, target>>,
           \A i \in 1 .. Len(waiters) : sent'[waiters[i]] = sent[waiters[i]],
           \A i \in 1 .. Len(waiters) : rstep'[waiters[i]] \in {"held", "waiting"},
           target # "none" => rstep'[target] \in {"held", "waiting"},
           rstep' \in [RedisThreads -> {"out", "lock", "locked", "held", "waiting", "done"}],
           sent' \in [RedisThreads -> Cmds], reply' \in [RedisThreads -> Cmds],
           reader' \in {"fail", "ended"} => broken' /\ reader \in {"fail", "ended"},
           reader \in {"fail", "ended"} => reader' \in {"fail", "ended"},
           conn' \in {"none", "freed"} => reader' = "off",
           OwnReply'
    PROVE  RedisInv'
<1>1. RedisTypes'
  BY DEF RedisInv, RedisTypes
<1>2. Aligned => Aligned'
  <2> SUFFICES ASSUME Aligned PROVE Aligned'
    OBVIOUS
  <2>1. /\ Len(buffered) \in Nat /\ Len(inbound) \in Nat /\ Len(server) \in Nat /\ Len(waiters) \in Nat
    BY DEF RedisInv, RedisTypes
  <2>2. Len(waiters) = Len(buffered) + Len(inbound) + Len(server)
    BY DEF Aligned
  <2>3. /\ \A i \in 1 .. Len(buffered) : i \in 1 .. Len(waiters)
        /\ \A i \in 1 .. Len(inbound) : Len(buffered) + i \in 1 .. Len(waiters)
        /\ \A i \in 1 .. Len(server) : Len(buffered) + Len(inbound) + i \in 1 .. Len(waiters)
    BY <2>1, <2>2
  <2> QED
    BY <2>2, <2>3 DEF Aligned
<1>3. ReaderInv'
  BY <1>2 DEF RedisInv, ReaderInv
<1>4. WaitersInv'
  BY DEF RedisInv, WaitersInv
<1> QED
  BY <1>1, <1>3, <1>4 DEF RedisInv
\* A thread enters redis_send, locks, fails, sleeps or leaves: it is not one
\* that waits for a reply, or it stays one.
LEMMA ThreadStepInv ==
    ASSUME RedisInv, NEW t \in RedisThreads, NEW m \in Cmds,
           RedisEnter(t, m) \/ CommandLock(t) \/ CommandFail(t) \/ CommandWait(t) \/ RedisLeave(t)
    PROVE  RedisInv'
<1>1. NoReply \in Cmds /\ NullReply \in Cmds
  BY DEF NoReply, NullReply, Cmds
<1>2. RedisTypes /\ ReaderInv /\ WaitersInv /\ OwnReply
  BY DEF RedisInv
<1>3. UNCHANGED <<waiters, server, inbound, buffered, target, reader, broken, conn>>
  BY DEF RedisEnter, CommandLock, CommandFail, CommandWait, RedisLeave
<1>4. /\ rstep' \in [RedisThreads -> {"out", "lock", "locked", "held", "waiting", "done"}]
      /\ \A u \in RedisThreads : u # t => rstep'[u] = rstep[u]
      /\ rstep[t] \in {"held", "waiting"} => rstep'[t] = "waiting"
  BY <1>2 DEF RedisTypes, RedisEnter, CommandLock, CommandFail, CommandWait, RedisLeave
<1>5. /\ sent' \in [RedisThreads -> Cmds]
      /\ \A u \in RedisThreads : u # t => sent'[u] = sent[u]
      /\ rstep[t] \in {"held", "waiting"} => sent'[t] = sent[t]
  BY <1>1, <1>2 DEF RedisTypes, RedisEnter, CommandLock, CommandFail, CommandWait, RedisLeave
<1>6. /\ reply' \in [RedisThreads -> Cmds]
      /\ \A u \in RedisThreads : u # t => reply'[u] = reply[u]
      /\ reply'[t] \in {NoReply, NullReply, sent'[t]}
  BY <1>1, <1>2 DEF RedisTypes, OwnReply, RedisEnter, CommandLock, CommandFail, CommandWait, RedisLeave
<1>7. \A i \in 1 .. Len(waiters) : waiters[i] \in RedisThreads /\ rstep[waiters[i]] \in {"held", "waiting"}
  BY <1>2 DEF RedisTypes, WaitersInv
<1>8. \A i \in 1 .. Len(waiters) : sent'[waiters[i]] = sent[waiters[i]] /\ rstep'[waiters[i]] \in {"held", "waiting"}
  BY <1>4, <1>5, <1>7
<1>9. target # "none" => rstep'[target] \in {"held", "waiting"}
  BY <1>2, <1>4 DEF WaitersInv
<1>10. OwnReply'
  BY <1>2, <1>5, <1>6 DEF OwnReply
<1>11. /\ reader' \in {"fail", "ended"} => broken' /\ reader \in {"fail", "ended"}
       /\ reader \in {"fail", "ended"} => reader' \in {"fail", "ended"}
       /\ conn' \in {"none", "freed"} => reader' = "off"
  BY <1>2, <1>3 DEF ReaderInv
<1> QED
  BY <1>3, <1>4, <1>5, <1>6, <1>8, <1>9, <1>10, <1>11, QuietStep
\* The connection is opened, breaks, is polled or begins and ends to close.
LEMMA ConnectionStepInv ==
    ASSUME RedisInv, RedisInit \/ ServerBreaks \/ ReaderPoll \/ CloseLock \/ CloseEnd \/ UNCHANGED rvars
    PROVE  RedisInv'
<1>1. RedisTypes /\ ReaderInv /\ WaitersInv /\ OwnReply
  BY DEF RedisInv
<1>2. UNCHANGED <<waiters, server, inbound, buffered, target, rstep, sent, reply>>
  BY DEF RedisInit, ServerBreaks, ReaderPoll, CloseLock, CloseEnd, rvars
<1>3. /\ reader' \in {"fail", "ended"} => broken' /\ reader \in {"fail", "ended"}
      /\ reader \in {"fail", "ended"} => reader' \in {"fail", "ended"}
      /\ conn' \in {"none", "freed"} => reader' = "off"
  BY <1>1 DEF ReaderInv, RedisInit, ServerBreaks, ReaderPoll, CloseLock, CloseEnd, rvars
<1>4. OwnReply'
  BY <1>1, <1>2 DEF OwnReply
<1> QED
  BY <1>1, <1>2, <1>3, <1>4, QuietStep DEF RedisTypes, WaitersInv

\* The connection is gone, with everything on its way.
LEMMA NoConnectionInv ==
    ASSUME RedisInv, CloseJoin \/ RedisCrash
    PROVE  RedisInv'
<1>1. NoReply \in Cmds
  BY DEF NoReply, Cmds
<1>2. NoConnection
  BY DEF CloseJoin, RedisCrash
<1>3. RedisTypes' /\ OwnReply'
  BY <1>1, <1>2 DEF RedisInv, RedisTypes, OwnReply, NoConnection, CloseJoin, RedisCrash
<1>4. ReaderInv' /\ WaitersInv'
  BY <1>2 DEF NoConnection, ReaderInv, Aligned, WaitersInv
<1> QED
  BY <1>3, <1>4 DEF RedisInv

\* A command is sent and its caller appended to the list, in one critical
\* section: the last command is for the last waiter.
LEMMA CommandSendInv ==
    ASSUME RedisInv, NEW t \in RedisThreads, CommandSend(t)
    PROVE  RedisInv'
<1>1. RedisTypes /\ ReaderInv /\ WaitersInv /\ OwnReply
  BY DEF RedisInv
<1>2. /\ rstep[t] = "locked" /\ ~broken
      /\ server' = Append(server, sent[t]) /\ waiters' = Append(waiters, t)
      /\ rstep' = [rstep EXCEPT ![t] = "held"]
      /\ UNCHANGED <<conn, broken, inbound, buffered, sent, reply, reader, target>>
  BY DEF CommandSend, PushWaiter
<1>3. (\A i \in 1 .. Len(waiters) : waiters[i] # t /\ waiters[i] \in RedisThreads) /\ target # t
  BY <1>2, NotWaiting
<1> DEFINE n == Len(waiters)
<1>4. /\ n \in Nat /\ Len(waiters') = n + 1 /\ waiters'[n + 1] = t
      /\ \A i \in 1 .. n : waiters'[i] = waiters[i]
      /\ Len(server) \in Nat /\ Len(server') = Len(server) + 1 /\ server'[Len(server) + 1] = sent[t]
      /\ \A i \in 1 .. Len(server) : server'[i] = server[i]
      /\ Len(buffered) \in Nat /\ Len(inbound) \in Nat
  BY <1>1, <1>2 DEF RedisTypes
<1>5. RedisTypes'
  <2>1. waiters' \in Seq(RedisThreads) /\ server' \in Seq(Cmds)
    BY <1>1, <1>2 DEF RedisTypes
  <2> QED
    BY <1>1, <1>2, <2>1 DEF RedisTypes
<1>6. OwnReply'
  BY <1>1, <1>2 DEF OwnReply
<1> HIDE DEF n
<1>7. rstep'[t] = "held" /\ \A u \in RedisThreads : u # t => rstep'[u] = rstep[u]
  BY <1>1, <1>2 DEF RedisTypes
<1>8. WaitersInv'
  <2>1. \A i \in 1 .. n + 1 : waiters'[i] = IF i = n + 1 THEN t ELSE waiters[i]
    BY <1>4
  <2>2. \A i, j \in 1 .. n + 1 : waiters'[i] = waiters'[j] => i = j
    BY <1>1, <1>3, <1>4, <2>1 DEF WaitersInv, n
  <2>3. \A i \in 1 .. n + 1 : rstep'[waiters'[i]] \in {"held", "waiting"} /\ waiters'[i] # target
    BY <1>1, <1>3, <1>4, <1>7, <2>1 DEF WaitersInv, n
  <2>4. target # "none" => target \in RedisThreads /\ rstep'[target] \in {"held", "waiting"}
    BY <1>1, <1>3, <1>7 DEF WaitersInv
  <2> QED
    BY <1>2, <1>4, <2>2, <2>3, <2>4 DEF WaitersInv
<1>9. ReaderInv'
  <2>1. reader \notin {"fail", "ended"} /\ Aligned
    BY <1>1, <1>2 DEF ReaderInv
  <2>2. Aligned'
    <3>1. n = Len(buffered) + Len(inbound) + Len(server)
      BY <2>1 DEF Aligned, n
    <3>2. Len(waiters') = Len(buffered') + Len(inbound') + Len(server')
      BY <1>2, <1>4, <3>1
    <3>3. \A i \in 1 .. Len(buffered') : buffered'[i] = sent'[waiters'[i]]
      BY <1>2, <1>4, <2>1, <3>1 DEF Aligned
    <3>4. \A i \in 1 .. Len(inbound') : inbound'[i] = sent'[waiters'[Len(buffered') + i]]
      <4> SUFFICES ASSUME NEW i \in 1 .. Len(inbound)
                   PROVE  inbound[i] = sent[waiters'[Len(buffered) + i]]
        BY <1>2
      <4>1. Len(buffered) + i \in 1 .. n
        BY <1>4, <3>1
      <4> QED
        BY <1>4, <2>1, <4>1 DEF Aligned
    <3>5. \A i \in 1 .. Len(server') : server'[i] = sent'[waiters'[Len(buffered') + Len(inbound') + i]]
      <4> SUFFICES ASSUME NEW i \in 1 .. Len(server) + 1
                   PROVE  server'[i] = sent[waiters'[Len(buffered) + Len(inbound) + i]]
        BY <1>2, <1>4
      <4>1. CASE i = Len(server) + 1
        BY <1>4, <3>1, <4>1
      <4>2. CASE i \in 1 .. Len(server)
        <5>1. Len(buffered) + Len(inbound) + i \in 1 .. n
          BY <1>4, <3>1, <4>2
        <5> QED
          BY <1>4, <2>1, <4>2, <5>1 DEF Aligned
      <4> QED
        BY <1>4, <4>1, <4>2
    <3> QED
      BY <3>2, <3>3, <3>4, <3>5 DEF Aligned
  <2> QED
    BY <1>1, <1>2, <2>1, <2>2 DEF ReaderInv
<1> QED
  BY <1>5, <1>6, <1>8, <1>9 DEF RedisInv

\* The server answers the oldest command: its reply joins the end of those in
\* the socket.
LEMMA ServerReplyInv ==
    ASSUME RedisInv, ServerReply
    PROVE  RedisInv'
<1>1. RedisTypes /\ ReaderInv /\ WaitersInv /\ OwnReply
  BY DEF RedisInv
<1>2. /\ server # <<>> /\ ~broken
      /\ inbound' = Append(inbound, Head(server)) /\ server' = Tail(server)
      /\ UNCHANGED <<conn, broken, waiters, buffered, rstep, sent, reply, reader, target>>
  BY DEF ServerReply
<1> DEFINE b == Len(buffered)
           k == Len(inbound)
           l == Len(server)
<1>3. /\ b \in Nat /\ k \in Nat /\ l \in Nat /\ l > 0 /\ Len(waiters) \in Nat
      /\ Len(inbound') = k + 1 /\ inbound'[k + 1] = server[1]
      /\ \A i \in 1 .. k : inbound'[i] = inbound[i]
      /\ Len(server') = l - 1
      /\ \A i \in 1 .. l - 1 : server'[i] = server[i + 1]
  <2>1. server \in Seq(Cmds) /\ inbound \in Seq(Cmds) /\ buffered \in Seq(Cmds) /\ waiters \in Seq(RedisThreads)
    BY <1>1 DEF RedisTypes
  <2>2. l \in Nat /\ l > 0 /\ Head(server) = server[1] /\ Len(server') = l - 1
    BY <1>2, <2>1
  <2>3. \A i \in 1 .. l - 1 : server'[i] = server[i + 1]
    BY <1>2, <2>1
  <2> QED
    BY <1>2, <2>1, <2>2, <2>3
<1>4. RedisTypes'
  <2>1. inbound' \in Seq(Cmds) /\ server' \in Seq(Cmds)
    BY <1>1, <1>2 DEF RedisTypes
  <2> QED
    BY <1>1, <1>2, <2>1 DEF RedisTypes
<1>5. Aligned
  BY <1>1, <1>2 DEF ReaderInv
<1>6. /\ Len(waiters) = b + k + l
      /\ \A i \in 1 .. b : buffered[i] = sent[waiters[i]]
      /\ \A i \in 1 .. k : inbound[i] = sent[waiters[b + i]]
      /\ \A i \in 1 .. l : server[i] = sent[waiters[b + k + i]]
  BY <1>5 DEF Aligned
<1>7. Len(buffered') = b /\ buffered' = buffered /\ sent' = sent /\ waiters' = waiters
  BY <1>2
<1> HIDE DEF b, k, l
<1>8. \A i \in 1 .. k + 1 : inbound'[i] = sent[waiters[b + i]]
  <2> SUFFICES ASSUME NEW i \in 1 .. k + 1 PROVE inbound'[i] = sent[waiters[b + i]]
    OBVIOUS
  <2>1. CASE i = k + 1
    <3>1. server[1] = sent[waiters[b + k + 1]]
      BY <1>3, <1>6
    <3>2. b + k + 1 = b + i
      BY <1>3, <2>1
    <3> QED
      BY <1>3, <2>1, <3>1, <3>2
  <2>2. CASE i \in 1 .. k
    BY <1>3, <1>6, <2>2
  <2> QED
    BY <1>3, <2>1, <2>2
<1>9. \A i \in 1 .. l - 1 : server'[i] = sent[waiters[b + (k + 1) + i]]
  <2> SUFFICES ASSUME NEW i \in 1 .. l - 1 PROVE server'[i] = sent[waiters[b + (k + 1) + i]]
    OBVIOUS
  <2>1. i + 1 \in 1 .. l /\ b + k + (i + 1) = b + (k + 1) + i
    <3>1. b \in Nat /\ k \in Nat /\ l \in Nat
      BY <1>3
    <3>2. i + 1 \in 1 .. l
      BY <3>1
    <3>3. b + k + (i + 1) = b + (k + 1) + i
      BY <3>1
    <3> QED
      BY <3>2, <3>3
  <2>2. server[i + 1] = sent[waiters[b + k + (i + 1)]]
    BY <1>6, <2>1
  <2> QED
    BY <1>3, <2>1, <2>2
<1>10. b + k + l = b + (k + 1) + (l - 1)
  BY <1>3
<1>11. Aligned'
  BY <1>3, <1>6, <1>7, <1>8, <1>9, <1>10 DEF Aligned
<1>12. ReaderInv' /\ WaitersInv' /\ OwnReply'
  BY <1>1, <1>2, <1>11 DEF ReaderInv, WaitersInv, OwnReply
<1> QED
  BY <1>4, <1>12 DEF RedisInv

\* redisBufferRead: what is in the socket joins the reader's buffer, or the
\* connection has failed.
LEMMA ReaderReadInv ==
    ASSUME RedisInv, ReaderRead
    PROVE  RedisInv'
<1>1. RedisTypes /\ ReaderInv /\ WaitersInv /\ OwnReply
  BY DEF RedisInv
<1>2. /\ reader = "lock" /\ inbound' = <<>>
      /\ UNCHANGED <<conn, broken, waiters, server, rstep, sent, reply, target>>
  BY DEF ReaderRead
<1>3. RedisTypes'
  <2>1. buffered' \in Seq(Cmds) /\ inbound' \in Seq(Cmds)
    BY <1>1, <1>2 DEF RedisTypes, ReaderRead
  <2> QED
    BY <1>1, <1>2, <2>1 DEF RedisTypes
<1>4. WaitersInv' /\ OwnReply'
  BY <1>1, <1>2 DEF WaitersInv, OwnReply
<1>5. CASE broken
  <2>1. reader' = "fail" /\ conn \notin {"none", "freed"}
    BY <1>1, <1>2, <1>5 DEF ReaderInv, ReaderRead
  <2>2. ReaderInv'
    BY <1>2, <1>5, <2>1 DEF ReaderInv
  <2> QED
    BY <1>3, <1>4, <2>2 DEF RedisInv
<1>6. CASE ~broken
  <2>1. reader' = "deliver" /\ conn \notin {"none", "freed"} /\ buffered' = buffered \o inbound
    BY <1>1, <1>2, <1>6 DEF ReaderInv, ReaderRead
  <2>2. Aligned
    BY <1>1, <1>2 DEF ReaderInv
  <2> DEFINE b == Len(buffered)
             k == Len(inbound)
             l == Len(server)
  <2>3. /\ b \in Nat /\ k \in Nat /\ l \in Nat
        /\ Len(buffered') = b + k /\ Len(inbound') = 0
        /\ \A i \in 1 .. b + k : buffered'[i] = IF i <= b THEN buffered[i] ELSE inbound[i - b]
    <3>1. buffered \in Seq(Cmds) /\ inbound \in Seq(Cmds) /\ server \in Seq(Cmds)
      BY <1>1 DEF RedisTypes
    <3>2. Len(buffered') = b + k
      BY <2>1, <3>1
    <3>3. \A i \in 1 .. Len(buffered) + Len(inbound) :
             (buffered \o inbound)[i] = IF i <= Len(buffered) THEN buffered[i] ELSE inbound[i - Len(buffered)]
      BY <3>1, ConcatProperties
    <3> QED
      BY <1>2, <2>1, <3>1, <3>2, <3>3
  <2>4. /\ Len(waiters) = b + k + l
        /\ \A i \in 1 .. b : buffered[i] = sent[waiters[i]]
        /\ \A i \in 1 .. k : inbound[i] = sent[waiters[b + i]]
        /\ \A i \in 1 .. l : server[i] = sent[waiters[b + k + i]]
    BY <2>2 DEF Aligned
  <2>5. Len(server') = l /\ server' = server /\ sent' = sent /\ waiters' = waiters
    BY <1>2
  <2> HIDE DEF b, k, l
  <2>6. \A i \in 1 .. b + k : buffered'[i] = sent[waiters[i]]
    <3> SUFFICES ASSUME NEW i \in 1 .. b + k PROVE buffered'[i] = sent[waiters[i]]
      OBVIOUS
    <3>1. CASE i <= b
      BY <2>3, <2>4, <3>1
    <3>2. CASE i > b
      <4>1. i - b \in 1 .. k /\ b + (i - b) = i
        BY <2>3, <3>2
      <4>2. inbound[i - b] = sent[waiters[b + (i - b)]]
        BY <2>4, <4>1
      <4> QED
        BY <2>3, <3>2, <4>1, <4>2
    <3> QED
      BY <2>3, <3>1, <3>2
  <2>7. b + k + l = (b + k) + 0 + l /\ \A i \in 1 .. l : (b + k) + 0 + i = b + k + i
    BY <2>3
  <2>8. \A i \in 1 .. Len(inbound') : inbound'[i] = sent'[waiters'[Len(buffered') + i]]
    BY <2>3
  <2>9. \A i \in 1 .. l : server[i] = sent[waiters[(b + k) + 0 + i]]
    BY <2>4, <2>7
  <2>10. Aligned'
    BY <2>3, <2>4, <2>5, <2>6, <2>7, <2>8, <2>9 DEF Aligned
  <2>11. ReaderInv'
    BY <1>2, <2>1, <2>10 DEF ReaderInv
  <2> QED
    BY <1>3, <1>4, <2>11 DEF RedisInv
<1> QED
  BY <1>5, <1>6

\* pop_waiter takes the oldest waiter off the list and stores its reply: the
\* rest of the list keeps its order and its threads.
LEMMA PopWaiterInv ==
    ASSUME RedisInv, waiters # <<>>, target = "none", NEW r \in Cmds, PopWaiter(r),
           r \in {NullReply, sent[waiters[1]]}, UNCHANGED <<rstep, sent>>
    PROVE  /\ Len(waiters) \in Nat /\ Len(waiters) > 0 /\ Len(waiters') = Len(waiters) - 1
           /\ \A i \in 1 .. Len(waiters) - 1 : waiters'[i] = waiters[i + 1]
           /\ waiters' \in Seq(RedisThreads) /\ reply' \in [RedisThreads -> Cmds]
           /\ WaitersInv' /\ OwnReply'
<1>1. RedisTypes /\ ReaderInv /\ WaitersInv /\ OwnReply
  BY DEF RedisInv
<1>2. waiters \in Seq(RedisThreads)
  BY <1>1 DEF RedisTypes
<1> DEFINE n == Len(waiters)
<1>3. /\ n \in Nat /\ n > 0 /\ Len(waiters') = n - 1 /\ Head(waiters) = waiters[1]
      /\ waiters' \in Seq(RedisThreads) /\ waiters[1] \in RedisThreads
  BY <1>2 DEF PopWaiter
<1>4. \A i \in 1 .. n - 1 : waiters'[i] = waiters[i + 1]
  BY <1>2 DEF PopWaiter
<1>5. /\ target' = waiters[1] /\ reply' = [reply EXCEPT ![waiters[1]] = r]
  BY <1>3 DEF PopWaiter
<1>6. reply' \in [RedisThreads -> Cmds] /\ OwnReply'
  BY <1>1, <1>3, <1>5 DEF RedisTypes, OwnReply
<1>7. /\ \A i, j \in 1 .. n : waiters[i] = waiters[j] => i = j
      /\ \A i \in 1 .. n : rstep[waiters[i]] \in {"held", "waiting"}
  BY <1>1 DEF WaitersInv
<1> HIDE DEF n
<1>8. \A i \in 1 .. n - 1 : i + 1 \in 1 .. n /\ i + 1 # 1
  BY <1>3
<1>9. 1 \in 1 .. n
  BY <1>3
<1>10. \A i, j \in 1 .. n - 1 : waiters'[i] = waiters'[j] => i = j
  <2> SUFFICES ASSUME NEW i \in 1 .. n - 1, NEW j \in 1 .. n - 1, waiters[i + 1] = waiters[j + 1]
               PROVE  i = j
    BY <1>4
  <2>1. i + 1 = j + 1
    BY <1>7, <1>8
  <2> QED
    BY <1>3, <2>1
<1>11. \A i \in 1 .. n - 1 : rstep[waiters'[i]] \in {"held", "waiting"} /\ waiters'[i] # waiters[1]
  BY <1>4, <1>7, <1>8, <1>9
<1>12. WaitersInv'
  <2>1. \A i \in 1 .. Len(waiters') : rstep'[waiters'[i]] \in {"held", "waiting"} /\ waiters'[i] # target'
    BY <1>3, <1>5, <1>11
  <2>2. target' \in RedisThreads /\ rstep'[target'] \in {"held", "waiting"}
    BY <1>3, <1>5, <1>7, <1>9
  <2>3. \A i, j \in 1 .. Len(waiters') : waiters'[i] = waiters'[j] => i = j
    BY <1>3, <1>10
  <2> QED
    BY <2>1, <2>2, <2>3 DEF WaitersInv
<1> QED
  BY <1>3, <1>4, <1>6, <1>12 DEF n

\* deliver_reply: the oldest reply is the one to the command of the oldest
\* waiter.
LEMMA ReaderDeliverInv ==
    ASSUME RedisInv, ReaderDeliver
    PROVE  RedisInv'
<1>1. RedisTypes /\ ReaderInv /\ WaitersInv /\ OwnReply
  BY DEF RedisInv
<1>2. /\ reader = "deliver" /\ target = "none"
      /\ UNCHANGED <<conn, broken, server, inbound, rstep, sent>>
  BY DEF ReaderDeliver
<1>3. CASE buffered = <<>>
  <2>1. reader' = "poll" /\ UNCHANGED <<waiters, reply, target, buffered>>
    BY <1>3 DEF ReaderDeliver
  <2>2. OwnReply'
    BY <1>1, <1>2, <2>1 DEF OwnReply
  <2>3. conn' \in {"none", "freed"} => reader' = "off"
    BY <1>1, <1>2 DEF ReaderInv
  <2> QED
    BY <1>1, <1>2, <2>1, <2>2, <2>3, QuietStep DEF RedisTypes, WaitersInv
<1>4. CASE buffered # <<>>
  <2>1. PopWaiter(Head(buffered)) /\ buffered' = Tail(buffered) /\ UNCHANGED reader
    BY <1>4 DEF ReaderDeliver
  <2> DEFINE b == Len(buffered)
             k == Len(inbound)
             l == Len(server)
  <2>2. /\ buffered \in Seq(Cmds) /\ inbound \in Seq(Cmds) /\ server \in Seq(Cmds) /\ waiters \in Seq(RedisThreads)
    BY <1>1 DEF RedisTypes
  <2>3. /\ b \in Nat /\ k \in Nat /\ l \in Nat /\ b > 0 /\ Len(buffered') = b - 1
        /\ Head(buffered) = buffered[1] /\ buffered[1] \in Cmds /\ buffered' \in Seq(Cmds)
    BY <1>4, <2>1, <2>2
  <2>4. \A i \in 1 .. b - 1 : buffered'[i] = buffered[i + 1]
    BY <2>1, <2>2
  <2>5. Aligned
    BY <1>1, <1>2 DEF ReaderInv
  <2>6. /\ Len(waiters) = b + k + l
        /\ \A i \in 1 .. b : buffered[i] = sent[waiters[i]]
        /\ \A i \in 1 .. k : inbound[i] = sent[waiters[b + i]]
        /\ \A i \in 1 .. l : server[i] = sent[waiters[b + k + i]]
    BY <2>5 DEF Aligned
  <2>7. Len(server') = l /\ Len(inbound') = k
    BY <1>2
  <2> HIDE DEF b, k, l
  <2>8. buffered[1] = sent[waiters[1]]
    BY <2>3, <2>6
  <2>9. waiters # <<>>
    BY <2>3, <2>6
  <2>10. /\ Len(waiters') = Len(waiters) - 1
         /\ \A i \in 1 .. Len(waiters) - 1 : waiters'[i] = waiters[i + 1]
         /\ waiters' \in Seq(RedisThreads) /\ reply' \in [RedisThreads -> Cmds]
         /\ WaitersInv' /\ OwnReply'
    BY <1>2, <2>1, <2>3, <2>8, <2>9, PopWaiterInv
  <2>11. RedisTypes'
    BY <1>1, <1>2, <2>3, <2>10 DEF RedisTypes
  <2>12. \A i \in 1 .. b - 1 : buffered'[i] = sent[waiters'[i]]
    <3> SUFFICES ASSUME NEW i \in 1 .. b - 1 PROVE buffered'[i] = sent[waiters'[i]]
      OBVIOUS
    <3>1. i + 1 \in 1 .. b /\ i \in 1 .. Len(waiters) - 1
      BY <2>3, <2>6
    <3> QED
      BY <2>4, <2>6, <2>10, <3>1
  <2>13. \A i \in 1 .. k : inbound[i] = sent[waiters'[(b - 1) + i]]
    <3> SUFFICES ASSUME NEW i \in 1 .. k PROVE inbound[i] = sent[waiters'[(b - 1) + i]]
      OBVIOUS
    <3>1. (b - 1) + i \in 1 .. Len(waiters) - 1 /\ (b - 1) + i + 1 = b + i
      BY <2>3, <2>6
    <3> QED
      BY <2>6, <2>10, <3>1
  <2>14. \A i \in 1 .. l : server[i] = sent[waiters'[(b - 1) + k + i]]
    <3> SUFFICES ASSUME NEW i \in 1 .. l PROVE server[i] = sent[waiters'[(b - 1) + k + i]]
      OBVIOUS
    <3>1. (b - 1) + k + i \in 1 .. Len(waiters) - 1 /\ (b - 1) + k + i + 1 = b + k + i
      BY <2>3, <2>6
    <3> QED
      BY <2>6, <2>10, <3>1
  <2>15. Len(waiters') = (b - 1) + k + l
    BY <2>3, <2>6, <2>10
  <2>16. Aligned'
    BY <1>2, <2>3, <2>7, <2>12, <2>13, <2>14, <2>15 DEF Aligned
  <2>17. ReaderInv'
    BY <1>1, <1>2, <2>1, <2>16 DEF ReaderInv
  <2> QED
    BY <2>10, <2>11, <2>17 DEF RedisInv
<1> QED
  BY <1>3, <1>4

\* After an error every waiter gets NULL, then the reader ends.
LEMMA ReaderFailInv ==
    ASSUME RedisInv, ReaderFail
    PROVE  RedisInv'
<1>1. RedisTypes /\ ReaderInv /\ WaitersInv /\ OwnReply
  BY DEF RedisInv
<1>2. /\ reader = "fail" /\ target = "none" /\ broken
      /\ UNCHANGED <<conn, broken, server, inbound, buffered, rstep, sent>>
  BY <1>1 DEF ReaderFail, ReaderInv
<1>3. CASE waiters = <<>>
  <2>1. reader' = "ended" /\ UNCHANGED <<waiters, reply, target>>
    BY <1>3 DEF ReaderFail
  <2>2. OwnReply'
    BY <1>1, <1>2, <2>1 DEF OwnReply
  <2>3. conn' \in {"none", "freed"} => reader' = "off"
    BY <1>1, <1>2 DEF ReaderInv
  <2> QED
    BY <1>1, <1>2, <2>1, <2>2, <2>3, QuietStep DEF RedisTypes, WaitersInv
<1>4. CASE waiters # <<>>
  <2>1. PopWaiter(NullReply) /\ UNCHANGED reader
    BY <1>4 DEF ReaderFail
  <2>2. NullReply \in Cmds
    BY DEF NullReply, Cmds
  <2>3. /\ waiters' \in Seq(RedisThreads) /\ reply' \in [RedisThreads -> Cmds]
        /\ WaitersInv' /\ OwnReply'
    BY <1>2, <1>4, <2>1, <2>2, PopWaiterInv
  <2>4. RedisTypes'
    BY <1>1, <1>2, <2>3 DEF RedisTypes
  <2>5. ReaderInv'
    BY <1>1, <1>2, <2>1 DEF ReaderInv
  <2> QED
    BY <2>3, <2>4, <2>5 DEF RedisInv
<1> QED
  BY <1>3, <1>4

\* The signal wakes up the thread whose reply was stored.
LEMMA ReaderSignalInv ==
    ASSUME RedisInv, ReaderSignal
    PROVE  RedisInv'
<1>1. RedisTypes /\ ReaderInv /\ WaitersInv /\ OwnReply
  BY DEF RedisInv
<1>2. /\ target # "none" /\ target' = "none"
      /\ rstep' = [rstep EXCEPT ![target] = "done"]
      /\ UNCHANGED <<conn, broken, waiters, server, inbound, buffered, sent, reply, reader>>
  BY DEF ReaderSignal
<1>3. target \in RedisThreads /\ \A i \in 1 .. Len(waiters) : waiters[i] # target /\ waiters[i] \in RedisThreads
  BY <1>1, <1>2 DEF RedisTypes, WaitersInv
<1>4. RedisTypes'
  BY <1>1, <1>2, <1>3 DEF RedisTypes
<1>5. \A i \in 1 .. Len(waiters) : rstep'[waiters[i]] = rstep[waiters[i]] /\ waiters[i] # "none"
  BY <1>1, <1>2, <1>3, RedisAssumption DEF RedisTypes
<1>6. WaitersInv'
  BY <1>1, <1>2, <1>5 DEF WaitersInv
<1>7. Aligned => Aligned'
  BY <1>2 DEF Aligned
<1>8. ReaderInv' /\ OwnReply'
  BY <1>1, <1>2, <1>7 DEF ReaderInv, OwnReply
<1> QED
  BY <1>4, <1>6, <1>8 DEF RedisInv

\* No step of the threads, the reader, the server or the one that closes the
\* connection breaks the invariant.
LEMMA RedisStepInv == RedisInv /\ RedisSteps => RedisInv'
<1> SUFFICES ASSUME RedisInv, RedisSteps PROVE RedisInv'
  OBVIOUS
<1>1. CASE RedisInit \/ ServerBreaks \/ ReaderPoll \/ CloseLock \/ CloseEnd \/ UNCHANGED rvars
  BY <1>1, ConnectionStepInv
<1>2. ASSUME NEW t \in RedisThreads, NEW m \in Cmds, RedisEnter(t, m) PROVE RedisInv'
  BY <1>2, ThreadStepInv
<1>3. ASSUME NEW t \in RedisThreads, Command(t) \/ RedisLeave(t) PROVE RedisInv'
  <2>1. NoReply \in Cmds
    BY DEF NoReply, Cmds
  <2>2. CASE CommandSend(t)
    BY <2>2, CommandSendInv
  <2>3. CASE CommandLock(t) \/ CommandFail(t) \/ CommandWait(t) \/ RedisLeave(t)
    BY <2>1, <2>3, ThreadStepInv
  <2> QED
    BY <1>3, <2>2, <2>3 DEF Command
<1>4. CASE CloseJoin \/ RedisCrash
  BY <1>4, NoConnectionInv
<1>5. CASE ServerReply
  BY <1>5, ServerReplyInv
<1>6. CASE ReaderRead
  BY <1>6, ReaderReadInv
<1>7. CASE ReaderDeliver
  BY <1>7, ReaderDeliverInv
<1>8. CASE ReaderFail
  BY <1>8, ReaderFailInv
<1>9. CASE ReaderSignal
  BY <1>9, ReaderSignalInv
<1> QED
  BY <1>1, <1>2, <1>3, <1>4, <1>5, <1>6, <1>7, <1>8, <1>9 DEF RedisSteps, Reader, RedisClose

(***************************************************************************)
(* Output: the threads, the channels and the phases of the process.        *)
(***************************************************************************)

Messages == Outputs \X Nat

Phases == {"start", "run", "stopping", "released", "cancelled", "ending", "exit"}
Writes == {"file", "kafka", "redis", "mongodb", "socket"}
Calls == Writes \cup {"off", "idle", "unlock", "flush", "flush_mongodb", "format", "report", "check", "dead"}

ControlTypes ==
    /\ channels \in ChannelConfs
    /\ phase \in Phases
    /\ mutex \in Threads \cup {"none"}
    /\ call \in [Threads -> Calls]
    /\ msg \in [Threads -> Messages]
    /\ written \in [Outputs -> Nat]
    /\ crashes \in Nat

CounterTypes ==
    /\ timer_1 \in 0 .. ReportPeriod - 1 /\ timer_2 \in 0 .. TimerWrap - 1
    /\ faults \in Nat

\* The threads at the ends of the process' life.
PhaseInv ==
    /\ phase = "start" => \A t \in Threads : call[t] = "off"
    /\ phase \in {"released", "cancelled", "ending", "exit"} => call["worker"] = "off"
    /\ phase \in {"cancelled", "ending", "exit"} => call["stats"] = "dead"
    /\ phase \in {"stopping", "released", "cancelled", "ending", "exit"} => call["main"] \in {"idle", "off"}

\* A thread inside _write.
Writing(t) == call[t] \in Writes \cup {"unlock"}

\* _write and output_flush are critical sections of output 0, and the message
\* of a thread inside _write is the last one of its output.
SectionInv ==
    \A t \in Threads :
        /\ OutputOf(t) = 0 /\ (Writing(t) \/ call[t] = "flush_mongodb") => mutex = t
        /\ Writing(t) => msg[t] = <<OutputOf(t), written[OutputOf(t)]>> /\ call[t] \in channels \cup {"unlock"}
        /\ msg[t] # NoMsg => Writing(t) \/ call[t] = "dead"

ControlInv == ControlTypes /\ PhaseInv /\ SectionInv

\* Where the file outputs are when the outputs are released.
FilePhaseInv ==
    /\ fstep[0] \notin {"scan", "unlink"} /\ fstep[1] \notin {"last_scan", "last_unlink"}
    /\ fstep[0] \in {"last_closed", "last_scan", "last_unlink"} => phase = "ending"
    /\ fstep[0] = "gone" => phase \in {"ending", "exit"}
    /\ phase \in {"cancelled", "ending", "exit"} => fstep[1] \in {"idle", "absent", "gone"}
    /\ On("file") /\ phase \in {"released", "cancelled", "ending", "exit"} =>
          file[1] = NoFile /\ fstep[1] \in {"last_closed", "gone"}
    /\ On("file") /\ phase = "ending" => fstep[0] \in {"last_closed", "last_scan", "last_unlink", "gone"}
    /\ On("file") /\ phase = "exit" => fstep[0] = "gone"

\* The last clean-up leaves at most Retained files.
LastCleanInv ==
    Retained > 0 =>
        /\ fstep[0] = "last_unlink" => Cardinality(sem \ doomed[0]) <= Retained
        /\ fstep[0] = "gone" => Cardinality(sem) <= Retained

\* Every data file is announced, being written or being deleted: without
\* trouble.
Announced ==
    \A n \in csv : n \in sem \/ \E o \in Outputs : n \in doomed[o] \/ (Fresh(o) /\ n = file_name[o])

AnnouncedInv ==
    /\ cut => phase \in {"cancelled", "ending", "exit"}
    /\ faults = 0 /\ crashes = 0 /\ ~cut => Announced

DirectoryInv == FileInv /\ FilePhaseInv /\ DoomedOld /\ LastCleanInv /\ AnnouncedInv

LastTypes ==
    /\ rd_queue \in [Outputs -> Seq(Messages)] /\ \A o \in Outputs : Len(rd_queue[o]) <= KafkaMax
    /\ file_last \in [Outputs -> Nat] /\ kafka_last \in [Outputs -> Nat]
    /\ delivered \in [Outputs -> Nat] /\ socket_last \in [Outputs -> Nat]

MongoTypes ==
    /\ messages_cache \in [Outputs -> Seq(Messages)] /\ \A o \in Outputs : Len(messages_cache[o]) < CacheMax
    /\ database \in Seq(Messages)

\* No channel is ahead of the reports, and Kafka's queue is in order.
LastInv ==
    \A o \in Outputs :
        /\ file_last[o] <= written[o] /\ kafka_last[o] <= written[o] /\ socket_last[o] <= written[o]
        /\ delivered[o] <= written[o]
        /\ \A i \in 1 .. Len(rd_queue[o]) :
              /\ delivered[o] <= rd_queue[o][i][2] /\ rd_queue[o][i][2] <= written[o]
              /\ \A j \in 1 .. i : rd_queue[o][j][2] <= rd_queue[o][i][2]

\* A thread whose message has still to go to MongoDB, and the last report of o
\* that may have got there.
Ahead(t) == call[t] \in {"file", "kafka", "redis", "mongodb"}
Top(o) == IF \E t \in Threads : Ahead(t) /\ OutputOf(t) = o THEN written[o] - 1 ELSE written[o]

\* The messages of s are of output o, in order, and newer than those of o in
\* the collection.
Batch(s, o) ==
    \A j \in 1 .. Len(s) :
        /\ s[j][1] = o
        /\ \A i \in 1 .. j - 1 : s[i][2] < s[j][2]
        /\ \A i \in 1 .. Len(database) : database[i][1] = o => database[i][2] < s[j][2]

\* What the collection and a cache hold is in the order of the reports, the
\* cache after the collection.
MongoOrder ==
    /\ \A i, j \in 1 .. Len(database) :
          i < j /\ database[i][1] = database[j][1] => database[i][2] < database[j][2]
    /\ \A o \in Outputs : Batch(messages_cache[o], o)

\* Both are older than a message that is still to come.
MongoBound ==
    /\ \A i \in 1 .. Len(database) : database[i][2] <= Top(database[i][1])
    /\ \A o \in Outputs : \A i \in 1 .. Len(messages_cache[o]) : messages_cache[o][i][2] <= Top(o)

\* Message m is in the collection, in the cache of its output or given up.
Kept(m) ==
    \/ m \in mongo_lost
    \/ \E i \in 1 .. Len(database) : database[i] = m
    \/ \E o \in Outputs : \E i \in 1 .. Len(messages_cache[o]) : messages_cache[o][i] = m

\* No report is forgotten.
MongoKept ==
    crashes = 0 =>
        /\ phase = "start" => \A o \in Outputs : written[o] = 0
        /\ phase = "run" /\ call["worker"] = "off" => written[1] = 0
        /\ On("mongodb") =>
             /\ \A t \in Threads : call[t] \in {"socket", "unlock"} => Kept(msg[t])
             /\ \A o \in Outputs : \A n \in 1 .. written[o] :
                  Kept(<<o, n>>) \/ \E t \in Threads : msg[t] = <<o, n>>

BrokerInv == LastTypes /\ LastInv /\ MongoTypes /\ MongoOrder /\ MongoBound /\ MongoKept

\* The inductive invariant.
OutputInv == ControlInv /\ CounterTypes /\ DirectoryInv /\ BrokerInv /\ RedisInv
-----------------------------------------------------------------------------
\* Where a channel is in the order of _write.
LEMMA PlaceOf ==
    /\ Place("first") = 0 /\ Place("file") = 1 /\ Place("kafka") = 2
    /\ Place("redis") = 3 /\ Place("mongodb") = 4 /\ Place("socket") = 5
<1>1. /\ Order[1] = "file" /\ Order[2] = "kafka" /\ Order[3] = "redis"
      /\ Order[4] = "mongodb" /\ Order[5] = "socket" /\ Order[6] = "unlock"
  BY DEF Order
<1>2. 0 .. 6 = {0, 1, 2, 3, 4, 5, 6}
  OBVIOUS
<1>3. Place("first") = 0
  BY <1>2 DEF Place
<1> HIDE DEF Order
<1>4. Place("file") = 1
  BY <1>1, <1>2 DEF Place
<1>5. Place("kafka") = 2
  BY <1>1, <1>2 DEF Place
<1>6. Place("redis") = 3
  BY <1>1, <1>2 DEF Place
<1>7. Place("mongodb") = 4
  BY <1>1, <1>2 DEF Place
<1>8. Place("socket") = 5
  BY <1>1, <1>2 DEF Place
<1> QED
  BY <1>3, <1>4, <1>5, <1>6, <1>7, <1>8

\* After a channel _write serves the next enabled one, or ends: no enabled
\* channel is left out.
LEMMA NextChannelIs ==
    ASSUME NEW c, Place(c) \in 0 .. 5
    PROVE  \E i \in (Place(c) + 1) .. 6 :
              /\ NextChannel(c) = Order[i]
              /\ Order[i] \in channels \cup {"unlock"}
              /\ \A j \in (Place(c) + 1) .. (i - 1) : Order[j] \notin channels
<1> DEFINE p == Place(c)
           S == {i \in (p + 1) .. 6 : Order[i] \in channels \cup {"unlock"}}
<1>1. Order[6] = "unlock"
  BY DEF Order
<1>2. 6 \in S
  BY <1>1
<1>3. S \subseteq Nat /\ S # {}
  BY <1>2
<1> HIDE DEF S
<1>4. Oldest(S) \in S /\ \A m \in S : Oldest(S) <= m
  BY <1>3, OldestExists
<1>5. /\ Oldest(S) \in (p + 1) .. 6 /\ Order[Oldest(S)] \in channels \cup {"unlock"}
  BY <1>4 DEF S
<1>6. ASSUME NEW j \in (p + 1) .. (Oldest(S) - 1), Order[j] \in channels PROVE FALSE
  <2>1. j \in (p + 1) .. 6 /\ j < Oldest(S)
    BY <1>5
  <2>2. j \in S
    BY <1>6, <2>1 DEF S
  <2>3. Oldest(S) <= j /\ Oldest(S) \in Int /\ j \in Int
    BY <1>4, <1>5, <2>2
  <2> QED
    BY <2>1, <2>3
<1>7. \E i \in (p + 1) .. 6 : /\ Order[i] \in channels \cup {"unlock"}
                              /\ \A j \in (p + 1) .. (i - 1) : Order[j] \notin channels
  BY <1>5, <1>6
<1> QED
  BY <1>7 DEF NextChannel

\* The same, spelled out for every channel.
LEMMA NextChannels ==
    /\ \A c \in Writes \cup {"first"} : NextChannel(c) \in (Writes \cap channels) \cup {"unlock"}
    /\ NextChannel("mongodb") \in {"socket", "unlock"} /\ NextChannel("socket") = "unlock"
    /\ "mongodb" \in channels =>
          /\ NextChannel("first") \in {"file", "kafka", "redis", "mongodb"}
          /\ NextChannel("file") \in {"kafka", "redis", "mongodb"}
          /\ NextChannel("kafka") \in {"redis", "mongodb"}
          /\ NextChannel("redis") = "mongodb"
<1>1. /\ Order[1] = "file" /\ Order[2] = "kafka" /\ Order[3] = "redis"
      /\ Order[4] = "mongodb" /\ Order[5] = "socket" /\ Order[6] = "unlock"
  BY DEF Order
<1> HIDE DEF Order
<1>2. ASSUME NEW c \in Writes \cup {"first"}
      PROVE  \E i \in (Place(c) + 1) .. 6 :
                /\ NextChannel(c) = Order[i]
                /\ Order[i] \in channels \cup {"unlock"}
                /\ \A j \in (Place(c) + 1) .. (i - 1) : Order[j] \notin channels
  <2>1. Place(c) \in 0 .. 5
    BY PlaceOf DEF Writes
  <2> QED
    BY <2>1, NextChannelIs
<1>3. ASSUME NEW c \in Writes \cup {"first"}
      PROVE  NextChannel(c) \in (Writes \cap channels) \cup {"unlock"}
  <2>1. PICK i \in (Place(c) + 1) .. 6 : NextChannel(c) = Order[i] /\ Order[i] \in channels \cup {"unlock"}
    BY <1>2
  <2>2. i \in 1 .. 6
    BY PlaceOf DEF Writes
  <2>3. Order[i] \in Writes \cup {"unlock"}
    BY <1>1, <2>2 DEF Writes
  <2> QED
    BY <2>1, <2>3
<1>4. NextChannel("mongodb") \in {"socket", "unlock"}
  <2>1. \E i \in 5 .. 6 : NextChannel("mongodb") = Order[i]
    BY <1>2, PlaceOf DEF Writes
  <2> QED
    BY <1>1, <2>1
<1>5. NextChannel("socket") = "unlock"
  <2>1. \E i \in 6 .. 6 : NextChannel("socket") = Order[i]
    BY <1>2, PlaceOf DEF Writes
  <2> QED
    BY <1>1, <2>1
<1>6. ASSUME "mongodb" \in channels, NEW c \in {"first", "file", "kafka", "redis"}
      PROVE  \E i \in (Place(c) + 1) .. 4 : NextChannel(c) = Order[i]
  <2>1. Place(c) \in 0 .. 3
    BY PlaceOf
  <2>2. PICK i \in (Place(c) + 1) .. 6 : /\ NextChannel(c) = Order[i]
                                         /\ \A j \in (Place(c) + 1) .. (i - 1) : Order[j] \notin channels
    BY <1>2 DEF Writes
  <2>3. ~(4 \in (Place(c) + 1) .. (i - 1))
    BY <1>1, <1>6, <2>2
  <2>4. i \in (Place(c) + 1) .. 4
    BY <2>1, <2>3
  <2> QED
    BY <2>2, <2>4
<1>7. ASSUME "mongodb" \in channels
      PROVE  /\ NextChannel("first") \in {"file", "kafka", "redis", "mongodb"}
             /\ NextChannel("file") \in {"kafka", "redis", "mongodb"}
             /\ NextChannel("kafka") \in {"redis", "mongodb"}
             /\ NextChannel("redis") = "mongodb"
  <2>1. \E i \in 1 .. 4 : NextChannel("first") = Order[i]
    BY <1>6, <1>7, PlaceOf
  <2>2. \E i \in 2 .. 4 : NextChannel("file") = Order[i]
    BY <1>6, <1>7, PlaceOf
  <2>3. \E i \in 3 .. 4 : NextChannel("kafka") = Order[i]
    BY <1>6, <1>7, PlaceOf
  <2>4. \E i \in 4 .. 4 : NextChannel("redis") = Order[i]
    BY <1>6, <1>7, PlaceOf
  <2> QED
    BY <1>1, <2>1, <2>2, <2>3, <2>4
<1> QED
  BY <1>3, <1>4, <1>5, <1>7
-----------------------------------------------------------------------------
\* A step of _write: one channel after the other, or still in the same one.
WriteStep(t) == WriteFile(t) \/ WriteKafka(t) \/ WriteRedis(t) \/ WriteMongo(t) \/ WriteSocket(t)

\* What such a step does to the threads.
LEMMA WriteStepIs ==
    ASSUME NEW t \in Threads, WriteStep(t)
    PROVE  /\ call[t] \in Writes
           /\ UNCHANGED <<channels, phase, mutex, msg, written, crashes, timer_1, timer_2, cut>>
           /\ \/ call' = call
              \/ call' = [call EXCEPT ![t] = NextChannel(call[t])]
BY DEF WriteStep, WriteFile, WriteKafka, WriteRedis, WriteMongo, WriteSocket, AfterChannel, Goes, Writes

\* A thread of output 0 and one of output 1 are not both main or stats.
LEMMA OutputOfThreads ==
    /\ Threads = {"main", "stats", "worker"} /\ Outputs = {0, 1}
    /\ OutputOf("main") = 0 /\ OutputOf("stats") = 0 /\ OutputOf("worker") = 1
    /\ \A t \in Threads : OutputOf(t) \in Outputs
BY OutputAssumptions DEF Threads, OutputOf

\* Inside _write nothing changes but the channel.
LEMMA WriteControl ==
    ASSUME ControlInv, NEW t \in Threads, WriteStep(t)
    PROVE  ControlInv'
<1>1. ControlTypes /\ PhaseInv /\ SectionInv
  BY DEF ControlInv
<1>2. /\ call[t] \in Writes
      /\ UNCHANGED <<channels, phase, mutex, msg, written, crashes>>
      /\ \/ call' = call
         \/ call' = [call EXCEPT ![t] = NextChannel(call[t])]
  BY WriteStepIs
<1>3. CASE call' = call
  BY <1>1, <1>2, <1>3 DEF ControlInv, ControlTypes, PhaseInv, SectionInv, Writing
<1>4. CASE call' = [call EXCEPT ![t] = NextChannel(call[t])]
  <2>1. NextChannel(call[t]) \in (Writes \cap channels) \cup {"unlock"}
    BY <1>2, NextChannels
  <2>2. /\ call'[t] \in (Writes \cap channels) \cup {"unlock"}
        /\ \A u \in Threads : u # t => call'[u] = call[u]
    BY <1>1, <1>4, <2>1 DEF ControlTypes
  <2>3. ControlTypes'
    BY <1>1, <1>2, <1>4, <2>1 DEF ControlTypes, Calls
  <2>4. PhaseInv'
    BY <1>1, <1>2, <2>2 DEF PhaseInv, Writes, Threads
  <2>5. SectionInv'
    BY <1>1, <1>2, <2>2 DEF SectionInv, Writing
  <2> QED
    BY <2>3, <2>4, <2>5 DEF ControlInv
<1> QED
  BY <1>2, <1>3, <1>4

\* A report begins: no other thread is inside _write of the same output.
LEMMA WriteReportControl ==
    ASSUME ControlInv, NEW t \in Threads, WriteReport(t), call[t] \in {"idle", "report"},
           t = "main" => phase = "run"
    PROVE  ControlInv'
<1>1. ControlTypes /\ PhaseInv /\ SectionInv
  BY DEF ControlInv
<1> DEFINE o == OutputOf(t)
<1>2. o \in Outputs
  BY OutputOfThreads
<1>3. /\ UNCHANGED <<channels, phase, crashes>>
      /\ written' = [written EXCEPT ![o] = @ + 1]
      /\ msg' = [msg EXCEPT ![t] = <<o, written[o] + 1>>]
      /\ call' = [call EXCEPT ![t] = NextChannel("first")]
  BY DEF WriteReport, AfterChannel, Goes
<1>4. IF o = 0 THEN mutex = "none" /\ mutex' = t ELSE mutex' = mutex
  BY DEF WriteReport, LockForReport, LockIfNeed
<1>5. NextChannel("first") \in (Writes \cap channels) \cup {"unlock"}
  BY NextChannels
<1>6. /\ call'[t] \in (Writes \cap channels) \cup {"unlock"} /\ msg'[t] = <<o, written[o] + 1>>
      /\ \A u \in Threads : u # t => call'[u] = call[u] /\ msg'[u] = msg[u]
      /\ written[o] \in Nat /\ written'[o] = written[o] + 1
      /\ \A p \in Outputs : p # o => written'[p] = written[p]
  BY <1>1, <1>2, <1>3, <1>5 DEF ControlTypes
<1>7. ControlTypes'
  <2>1. msg' \in [Threads -> Messages] /\ written' \in [Outputs -> Nat] /\ call' \in [Threads -> Calls]
    BY <1>1, <1>2, <1>3, <1>5, <1>6 DEF ControlTypes, Messages, Calls
  <2> QED
    BY <1>1, <1>3, <1>4, <2>1 DEF ControlTypes
<1>8. PhaseInv'
  BY <1>1, <1>3, <1>6 DEF PhaseInv, Writes, Threads
<1>9. ASSUME NEW u \in Threads, u # t, OutputOf(u) = o PROVE ~Writing(u) /\ call[u] # "flush_mongodb"
  <2>1. o = 0
    BY <1>9, OutputOfThreads
  <2>2. mutex = "none" /\ u # "none"
    BY <1>4, <2>1 DEF Threads
  <2> QED
    BY <1>1, <1>9, <2>1, <2>2 DEF SectionInv
<1>10. SectionInv'
  <2> SUFFICES ASSUME NEW u \in Threads PROVE
        /\ OutputOf(u) = 0 /\ (Writing(u)' \/ call'[u] = "flush_mongodb") => mutex' = u
        /\ Writing(u)' => msg'[u] = <<OutputOf(u), written'[OutputOf(u)]>> /\ call'[u] \in channels' \cup {"unlock"}
        /\ msg'[u] # NoMsg => Writing(u)' \/ call'[u] = "dead"
    BY DEF SectionInv
  <2>1. CASE u = t
    BY <1>3, <1>4, <1>6, <2>1 DEF Writing
  <2>2. CASE u # t /\ OutputOf(u) = o
    BY <1>1, <1>3, <1>6, <1>9, <2>2 DEF SectionInv, Writing
  <2>3. CASE u # t /\ OutputOf(u) # o
    <3>1. OutputOf(u) \in Outputs
      BY OutputOfThreads
    <3>2. OutputOf(u) = 0 => mutex' = mutex
      BY <1>4, <2>3
    <3> QED
      BY <1>1, <1>3, <1>6, <2>3, <3>1, <3>2 DEF SectionInv, Writing
  <2> QED
    BY <2>1, <2>2, <2>3
<1> QED
  BY <1>7, <1>8, <1>10 DEF ControlInv

\* A thread moves, not into _write.
LEMMA MoveControl ==
    ASSUME ControlInv, NEW t \in Threads, NEW c \in {"idle", "flush", "flush_mongodb", "format", "report", "check"},
           call' = [call EXCEPT ![t] = c], call[t] \notin Writes \cup {"off", "dead"}, t = "main" => call[t] # "idle",
           UNCHANGED <<channels, phase, written, crashes>>,
           msg' = msg \/ msg' = [msg EXCEPT ![t] = NoMsg],
           call[t] = "unlock" => msg' = [msg EXCEPT ![t] = NoMsg],
           mutex' \in {mutex, t, "none"}, mutex' = mutex \/ mutex \in {"none", t},
           c = "flush_mongodb" /\ OutputOf(t) = 0 => mutex' = t
    PROVE  ControlInv'
<1>1. ControlTypes /\ PhaseInv /\ SectionInv
  BY DEF ControlInv
<1>2. /\ call'[t] = c /\ \A u \in Threads : u # t => call'[u] = call[u] /\ msg'[u] = msg[u]
      /\ msg'[t] \in {msg[t], NoMsg} /\ (call[t] = "unlock" => msg'[t] = NoMsg)
  BY <1>1 DEF ControlTypes
<1>3. ControlTypes'
  <2>1. NoMsg \in Messages
    BY OutputOfThreads DEF NoMsg, Messages
  <2>2. msg' \in [Threads -> Messages] /\ call' \in [Threads -> Calls]
    BY <1>1, <2>1 DEF ControlTypes, Calls
  <2> QED
    BY <1>1, <2>2 DEF ControlTypes
<1>4. PhaseInv'
  BY <1>1, <1>2 DEF PhaseInv, Threads
<1>5. SectionInv'
  <2> SUFFICES ASSUME NEW u \in Threads PROVE
        /\ OutputOf(u) = 0 /\ (Writing(u)' \/ call'[u] = "flush_mongodb") => mutex' = u
        /\ Writing(u)' => msg'[u] = <<OutputOf(u), written'[OutputOf(u)]>> /\ call'[u] \in channels' \cup {"unlock"}
        /\ msg'[u] # NoMsg => Writing(u)' \/ call'[u] = "dead"
    BY DEF SectionInv
  <2>1. CASE u = t
    <3>1. ~Writing(t)'
      BY <1>2 DEF Writing, Writes
    <3>2. msg'[t] = NoMsg
      BY <1>1, <1>2 DEF SectionInv, Writing, Writes
    <3> QED
      BY <1>2, <2>1, <3>1, <3>2
  <2>2. CASE u # t
    <3>1. u # "none"
      BY DEF Threads
    <3> QED
      BY <1>1, <1>2, <2>2, <3>1 DEF SectionInv, Writing
  <2> QED
    BY <2>1, <2>2
<1> QED
  BY <1>3, <1>4, <1>5 DEF ControlInv

\* The steps of a thread outside _write.
LEMMA ThreadControl ==
    ASSUME ControlInv, NEW t \in Threads, EndReport(t) \/ FlushFile(t) \/ FlushSkipped(t) \/ FlushMongo(t)
    PROVE  ControlInv'
<1>1. ControlTypes /\ PhaseInv /\ SectionInv
  BY DEF ControlInv
<1>2. UNCHANGED <<channels, phase, written, crashes>>
  BY DEF EndReport, FlushFile, FlushSkipped, FlushMongo
<1>3. CASE EndReport(t)
  <2>1. /\ call[t] = "unlock" /\ msg' = [msg EXCEPT ![t] = NoMsg]
        /\ IF OutputOf(t) = 0 THEN mutex' = "none" ELSE mutex' = mutex
    BY <1>3 DEF EndReport, UnlockIfNeed
  <2>2. \E c \in {"flush", "check", "idle"} : call' = [call EXCEPT ![t] = c]
    BY <1>3 DEF EndReport, Goes, Threads
  <2>3. OutputOf(t) = 0 => mutex = t
    BY <1>1, <2>1 DEF SectionInv, Writing
  <2> QED
    BY <1>2, <2>1, <2>2, <2>3, MoveControl DEF Writes
<1>4. CASE FlushFile(t)
  <2>1. /\ call[t] = "flush" \/ (t = "worker" /\ call[t] = "idle")
        /\ IF OutputOf(t) = 0 THEN mutex = "none" /\ mutex' = t ELSE mutex' = mutex
        /\ call' = [call EXCEPT ![t] = "flush_mongodb"]
    BY <1>4 DEF FlushFile, LockIfNeed, Goes
  <2>2. msg' = msg
    BY <1>4 DEF FlushFile
  <2> QED
    BY <1>2, <2>1, <2>2, MoveControl DEF Writes
<1>5. CASE FlushSkipped(t)
  <2>1. call[t] = "flush" /\ msg' = msg /\ mutex' = mutex /\ call' = [call EXCEPT ![t] = "idle"]
    BY <1>5 DEF FlushSkipped, Goes
  <2> QED
    BY <1>2, <2>1, MoveControl DEF Writes
<1>6. CASE FlushMongo(t)
  <2>1. /\ call[t] = "flush_mongodb" /\ msg' = msg /\ call' = [call EXCEPT ![t] = "idle"]
        /\ IF OutputOf(t) = 0 THEN mutex' = "none" ELSE mutex' = mutex
    BY <1>6 DEF FlushMongo, UnlockIfNeed, Goes
  <2>2. OutputOf(t) = 0 => mutex = t
    BY <1>1, <2>1 DEF SectionInv
  <2> QED
    BY <1>2, <2>1, <2>2, MoveControl DEF Writes
<1> QED
  BY <1>3, <1>4, <1>5, <1>6

\* The statistics thread between its reports.
StatsStep ==
    \/ StatsTick \/ StatsFormat \/ StatsCheckFlush
    \/ call["stats"] = "report" /\ Goes("stats", "check")
       /\ UNCHANGED <<fvars, bvars, rvars, channels, phase, mutex, msg, written, file_last,
                      timer_1, timer_2, cut, crashes>>

\* Its steps leave the outputs alone.
LEMMA StatsControl ==
    ASSUME ControlInv, StatsStep
    PROVE  ControlInv'
<1>1. UNCHANGED <<channels, phase, written, crashes, msg, mutex>>
  BY DEF StatsStep, StatsTick, StatsFormat, StatsCheckFlush
<1>2. CASE call' = call
  BY <1>1, <1>2 DEF ControlInv, ControlTypes, PhaseInv, SectionInv, Writing
<1>3. CASE call' # call
  <2>1. call["stats"] \in {"idle", "format", "report", "check"}
    BY DEF StatsStep, StatsTick, StatsFormat, StatsCheckFlush
  <2>2. \E c \in {"format", "check", "report", "flush", "idle"} : call' = [call EXCEPT !["stats"] = c]
    BY <1>3 DEF StatsStep, StatsTick, StatsFormat, StatsCheckFlush, Goes
  <2>3. "stats" \in Threads /\ "stats" # "main"
    BY DEF Threads
  <2> QED
    BY <1>1, <2>1, <2>2, <2>3, MoveControl DEF Writes
<1> QED
  BY <1>2, <1>3

\* The process starts, runs down or crashes.
LEMMA LifeControl ==
    ASSUME ControlInv,
           StartMain \/ StartWorker \/ Stop \/ ReleaseWorker \/ CancelStats \/ ReleaseMain \/ Exit \/ Crash
    PROVE  ControlInv'
<1>1. ControlTypes /\ PhaseInv /\ SectionInv
  BY DEF ControlInv
<1>2. CASE Crash
  <2>1. /\ phase' = "start" /\ mutex' = "none" /\ call' = [t \in Threads |-> "off"] /\ msg' = [t \in Threads |-> NoMsg]
        /\ crashes' = crashes + 1 /\ UNCHANGED <<channels, written>>
    BY <1>2 DEF Crash
  <2>2. NoMsg \in Messages
    BY OutputOfThreads DEF NoMsg, Messages
  <2>3. ControlTypes'
    BY <1>1, <2>1, <2>2 DEF ControlTypes, Calls, Phases
  <2>4. PhaseInv' /\ SectionInv'
    BY <2>1 DEF PhaseInv, SectionInv, Writing, Writes
  <2> QED
    BY <2>3, <2>4 DEF ControlInv
<1>3. CASE ~Crash
  <2>1. UNCHANGED <<channels, mutex, msg, written, crashes>>
    BY <1>3 DEF StartMain, StartWorker, Stop, ReleaseWorker, CancelStats, ReleaseMain, Exit
  <2>2. /\ phase' \in Phases /\ call' \in [Threads -> Calls]
    BY <1>1, <1>3 DEF StartMain, StartStats, StartWorker, Stop, ReleaseWorker, CancelStats, ReleaseMain, Exit,
       ControlTypes, Phases, Calls, Goes
  <2>3. ControlTypes'
    BY <1>1, <2>1, <2>2 DEF ControlTypes
  <2>4. \A t \in Threads : call'[t] = call[t] \/ (call'[t] \in {"idle", "off", "dead"}
                                                 /\ (msg[t] = NoMsg \/ call'[t] = "dead"))
    <3>1. CASE StartMain
      <4>1. \A t \in Threads : msg[t] = NoMsg
        BY <1>1, <3>1 DEF StartMain, PhaseInv, SectionInv, Writing, Writes
      <4> QED
        BY <1>1, <3>1, <4>1 DEF StartMain, StartStats, ControlTypes
    <3>2. CASE StartWorker
      <4>1. msg["worker"] = NoMsg
        BY <1>1, <3>2 DEF StartWorker, SectionInv, Writing, Writes, Threads
      <4> QED
        BY <1>1, <3>2, <4>1 DEF StartWorker, ControlTypes, Goes
    <3>3. CASE ReleaseWorker
      <4>1. msg["worker"] = NoMsg
        BY <1>1, <3>3 DEF ReleaseWorker, SectionInv, Writing, Writes, Threads
      <4> QED
        BY <1>1, <3>3, <4>1 DEF ReleaseWorker, ControlTypes, Goes
    <3>4. CASE ReleaseMain
      <4>1. msg["main"] = NoMsg
        BY <1>1, <3>4 DEF ReleaseMain, PhaseInv, SectionInv, Writing, Writes, Threads
      <4> QED
        BY <1>1, <3>4, <4>1 DEF ReleaseMain, ControlTypes, Goes
    <3>5. CASE CancelStats \/ Stop \/ Exit
      BY <1>1, <3>5 DEF CancelStats, Stop, Exit, ControlTypes, Goes
    <3> QED
      BY <1>3, <3>1, <3>2, <3>3, <3>4, <3>5
  <2>5. SectionInv'
    BY <1>1, <2>1, <2>4 DEF SectionInv, Writing, Writes
  <2>6. PhaseInv'
    BY <1>1, <1>3 DEF StartMain, StartWorker, Stop, ReleaseWorker, CancelStats, ReleaseMain, Exit,
       ControlTypes, PhaseInv, Goes, Threads
  <2> QED
    BY <2>3, <2>5, <2>6 DEF ControlInv
<1> QED
  BY <1>2, <1>3

\* All steps, by what they do to the threads.
LEMMA StepCases ==
    Next => \/ \E t \in Threads : \/ WriteStep(t)
                                  \/ EndReport(t) \/ FlushFile(t) \/ FlushSkipped(t) \/ FlushMongo(t)
                                  \/ /\ WriteReport(t) /\ call[t] \in {"idle", "report"}
                                     /\ t = "main" => phase = "run"
            \/ StatsStep
            \/ StartMain \/ StartWorker \/ Stop \/ ReleaseRedis \/ ReleaseWorker \/ CancelStats \/ ReleaseMain
            \/ Exit \/ Crash
            \/ (\E o \in Outputs : InFile(o) \/ Broker(o)) \/ RedisReader \/ RedisServer \/ RedisFault
<1> SUFFICES ASSUME Step
             PROVE  \/ \E t \in Threads : \/ WriteStep(t)
                                          \/ EndReport(t) \/ FlushFile(t) \/ FlushSkipped(t) \/ FlushMongo(t)
                                          \/ /\ WriteReport(t) /\ call[t] \in {"idle", "report"}
                                             /\ t = "main" => phase = "run"
                    \/ StatsStep
                    \/ StartMain \/ StartWorker \/ Stop \/ ReleaseRedis \/ ReleaseWorker \/ CancelStats \/ ReleaseMain
                    \/ Exit \/ Crash
                    \/ (\E o \in Outputs : InFile(o) \/ Broker(o)) \/ RedisReader \/ RedisServer \/ RedisFault
  BY DEF Next
<1>1. "main" \in Threads /\ "stats" \in Threads /\ "worker" \in Threads
  BY DEF Threads
<1>2. CASE ReportTraffic \/ ReportSession
  BY <1>1, <1>2 DEF ReportTraffic, ReportSession
<1>3. CASE StatsReport
  BY <1>1, <1>3 DEF StatsReport, StatsStep
<1>4. CASE \E t \in Threads : ThreadStep(t)
  BY <1>4 DEF ThreadStep, WriteStep
<1> QED
  BY <1>2, <1>3, <1>4 DEF Step, StatsStep, Shutdown

\* The invariant of the threads.
LEMMA ControlStep == ControlInv /\ [Next]_vars => ControlInv'
<1> SUFFICES ASSUME ControlInv, [Next]_vars PROVE ControlInv'
  OBVIOUS
<1>1. ASSUME UNCHANGED <<channels, phase, mutex, call, msg, written, crashes>> PROVE ControlInv'
  BY <1>1 DEF ControlInv, ControlTypes, PhaseInv, SectionInv, Writing
<1>2. CASE UNCHANGED vars
  BY <1>1, <1>2 DEF vars, ovars
<1>3. CASE ReleaseRedis \/ (\E o \in Outputs : InFile(o) \/ Broker(o)) \/ RedisReader \/ RedisServer \/ RedisFault
  BY <1>1, <1>3 DEF ReleaseRedis, InFile, Broker, RedisReader, RedisServer, RedisFault, ovars
<1>4. CASE Next
  BY <1>3, <1>4, StepCases, WriteControl, WriteReportControl, ThreadControl, StatsControl, LifeControl
<1> QED
  BY <1>2, <1>4

\* Every step is one of the shared connection.
LEMMA RedisProjection == ControlInv /\ [Next]_vars => RedisSteps
<1> SUFFICES ASSUME ControlInv, [Next]_vars PROVE RedisSteps
  OBVIOUS
<1>1. RedisThreads = Threads
  BY OutputAssumptions
<1>2. ASSUME UNCHANGED rvars PROVE RedisSteps
  BY <1>2 DEF RedisSteps
<1>3. CASE UNCHANGED vars
  BY <1>2, <1>3 DEF vars
<1>4. CASE \E t \in Threads : WriteStep(t)
  <2>1. PICK t \in Threads : WriteStep(t)
    BY <1>4
  <2>2. CASE WriteRedis(t)
    <3>1. msg[t] \in Cmds
      BY OutputOfThreads DEF ControlInv, ControlTypes, Messages, Cmds
    <3>2. RedisEnter(t, msg[t]) \/ UNCHANGED rvars \/ Command(t) \/ RedisLeave(t)
      BY <2>2 DEF WriteRedis
    <3> QED
      BY <1>1, <3>1, <3>2 DEF RedisSteps
  <2>3. CASE ~WriteRedis(t)
    BY <1>2, <2>1, <2>3 DEF WriteStep, WriteFile, WriteKafka, WriteMongo, WriteSocket
  <2> QED
    BY <2>2, <2>3
<1>5. CASE \E t \in Threads : \/ EndReport(t) \/ FlushFile(t) \/ FlushSkipped(t) \/ FlushMongo(t) \/ WriteReport(t)
  BY <1>2, <1>5 DEF EndReport, FlushFile, FlushSkipped, FlushMongo, WriteReport
<1>6. CASE StatsStep
  BY <1>2, <1>6 DEF StatsStep, StatsTick, StatsFormat, StatsCheckFlush
<1>7. CASE Stop \/ ReleaseWorker \/ CancelStats \/ ReleaseMain \/ Exit \/ \E o \in Outputs : InFile(o) \/ Broker(o)
  BY <1>2, <1>7 DEF Stop, ReleaseWorker, CancelStats, ReleaseMain, Exit, InFile, Broker
<1>8. CASE StartMain \/ StartWorker
  BY <1>2, <1>8 DEF StartMain, StartWorker, OutputAllocInit, RedisSteps
<1>9. CASE ReleaseRedis \/ RedisReader \/ RedisServer \/ RedisFault \/ Crash
  BY <1>9 DEF ReleaseRedis, RedisReader, RedisServer, RedisFault, Crash, RedisSteps
<1> QED
  BY <1>3, <1>4, <1>5, <1>6, <1>7, <1>8, <1>9, StepCases

\* Every step is one of the directory, and only a cancelled thread or a
\* crash leaves a call unfinished.
LEMMA FileProjection ==
    [Next]_vars => \/ /\ UNCHANGED fvars \/ \E o \in Outputs : CallStep(o)
                      /\ UNCHANGED <<cut, crashes>>
                   \/ CancelStats \/ Crash
<1> DEFINE Plain == UNCHANGED fvars \/ \E o \in Outputs : CallStep(o)
<1> SUFFICES ASSUME [Next]_vars PROVE (Plain /\ UNCHANGED <<cut, crashes>>) \/ CancelStats \/ Crash
  OBVIOUS
<1>1. 0 \in Outputs /\ 1 \in Outputs /\ \A t \in Threads : OutputOf(t) \in Outputs
  BY OutputOfThreads
<1>2. ASSUME UNCHANGED fvars PROVE Plain
  BY <1>2
<1>3. ASSUME NEW o \in Outputs, CallStep(o) PROVE Plain
  BY <1>3
<1> HIDE DEF Plain
<1>4. CASE UNCHANGED vars
  BY <1>2, <1>4 DEF vars, ovars
<1>5. CASE \E t \in Threads : WriteStep(t)
  BY <1>1, <1>2, <1>3, <1>5 DEF WriteStep, WriteFile, WriteKafka, WriteRedis, WriteMongo, WriteSocket, CallStep
<1>6. CASE \E t \in Threads : \/ EndReport(t) \/ FlushFile(t) \/ FlushSkipped(t) \/ FlushMongo(t) \/ WriteReport(t)
  BY <1>1, <1>2, <1>3, <1>6 DEF EndReport, FlushFile, FlushSkipped, FlushMongo, WriteReport, CallStep
<1>7. CASE StatsStep
  BY <1>2, <1>7 DEF StatsStep, StatsTick, StatsFormat, StatsCheckFlush
<1>8. CASE Stop \/ Exit \/ ReleaseRedis \/ RedisReader \/ RedisServer \/ RedisFault \/ \E o \in Outputs : Broker(o)
  BY <1>2, <1>8 DEF Stop, Exit, ReleaseRedis, RedisReader, RedisServer, RedisFault, Broker, ovars
<1>9. CASE StartMain \/ StartWorker \/ ReleaseWorker \/ ReleaseMain
  BY <1>1, <1>2, <1>3, <1>9 DEF StartMain, StartWorker, ReleaseWorker, ReleaseMain, OutputAllocInit, ReleaseOutput,
     CallStep
<1>10. CASE \E o \in Outputs : InFile(o)
  BY <1>3, <1>10 DEF InFile, FileStep, CallStep, ovars
<1> QED
  BY <1>4, <1>5, <1>6, <1>7, <1>8, <1>9, <1>10, StepCases

\* So every step is one of those the lemmas on the directory know.
LEMMA FileStepsOnly == [Next]_vars => FileSteps
<1>1. 0 \in Outputs
  BY OutputOfThreads
<1>2. CancelStats => FileCut(0)
  BY DEF CancelStats, FileQuiet, FileCut
<1>3. Crash => FileCrash
  BY DEF Crash
<1> QED
  BY <1>1, <1>2, <1>3, FileProjection DEF FileSteps, OutputStep
-----------------------------------------------------------------------------
\* Steps that leave the files of the outputs open or closed as they are.
LEMMA FilesStill ==
    ASSUME FilePhaseInv, UNCHANGED <<fstep, file, phase, channels>>
    PROVE  FilePhaseInv'
BY DEF FilePhaseInv, On

\* One step inside a call of the file output.
LEMMA InFilePhase ==
    ASSUME FileInv, FilePhaseInv, NEW o \in Outputs, InFile(o)
    PROVE  FilePhaseInv'
<1>1. FileTypeOK /\ FreshInv
  BY DEF FileInv
<1>2. UNCHANGED <<phase, channels>> /\ On("file") /\ FileStep(o) /\ Outputs = {0, 1}
  BY OutputOfThreads DEF InFile, ovars
<1>3. /\ \A p \in Outputs : p # o => fstep'[p] = fstep[p] /\ file'[p] = file[p]
      /\ \/ fstep[o] = "create" /\ fstep'[o] = IF o = 1 /\ Retained > 0 THEN "scan" ELSE "idle"
         \/ fstep[o] = "closed" /\ fstep'[o] = "create" /\ file'[o] = file[o]
         \/ fstep[o] = "last_closed" /\ fstep'[o] = (IF o = 0 /\ Retained > 0 THEN "last_scan" ELSE "gone")
            /\ file'[o] = file[o]
         \/ fstep[o] = "scan" /\ fstep'[o] = "unlink" /\ file'[o] = file[o]
         \/ fstep[o] = "last_scan" /\ fstep'[o] = "last_unlink" /\ file'[o] = file[o]
         \/ fstep[o] \in {"unlink", "last_unlink"} /\ fstep'[o] = fstep[o] /\ file'[o] = file[o]
         \/ fstep[o] = "unlink" /\ fstep'[o] = "idle" /\ file'[o] = file[o]
         \/ fstep[o] = "last_unlink" /\ fstep'[o] = "gone" /\ file'[o] = file[o]
  <2>1. CASE fstep[o] = "create" /\ CreateNewFile(o)
    BY <1>1, <2>1 DEF CreateNewFile, Goto, FileTypeOK
  <2>2. CASE CreateSemaphoreFile(o)
    BY <1>1, <2>2 DEF CreateSemaphoreFile, AfterLastFile, Goto, At, FileTypeOK
  <2>3. CASE ScanOldFiles(o)
    BY <1>1, <2>3 DEF ScanOldFiles, Goto, At, FileTypeOK
  <2>4. CASE RemoveOldFile(o)
    BY <1>1, <2>4 DEF RemoveOldFile, FileTypeOK
  <2>5. CASE RemovedOldFiles(o)
    BY <1>1, <2>5 DEF RemovedOldFiles, Goto, At, FileTypeOK
  <2> QED
    BY <1>2, <2>1, <2>2, <2>3, <2>4, <2>5 DEF FileStep
<1>4. CASE o = 0
  BY <1>2, <1>3, <1>4 DEF FilePhaseInv, On
<1>5. CASE o = 1
  BY <1>2, <1>3, <1>5 DEF FilePhaseInv, On
<1> QED
  BY <1>2, <1>4, <1>5

\* The files, and where the process is in its life.
LEMMA FilePhaseStep == ControlInv /\ FileInv /\ FilePhaseInv /\ [Next]_vars => FilePhaseInv'
<1> SUFFICES ASSUME ControlInv, FileInv, FilePhaseInv, [Next]_vars PROVE FilePhaseInv'
  OBVIOUS
<1>1. ControlTypes /\ PhaseInv /\ FileTypeOK /\ Outputs = {0, 1}
  BY OutputOfThreads DEF ControlInv, FileInv
<1>2. CASE UNCHANGED vars
  BY <1>2, FilesStill DEF vars, fvars, ovars
<1>3. CASE \E t \in Threads : WriteStep(t)
  BY <1>3, FilesStill DEF WriteStep, WriteFile, FileWrite, WriteKafka, WriteRedis, WriteMongo, WriteSocket, fvars
<1>4. CASE \E t \in Threads : \/ EndReport(t) \/ FlushSkipped(t) \/ FlushMongo(t) \/ WriteReport(t)
  BY <1>4, FilesStill DEF EndReport, FlushSkipped, FlushMongo, WriteReport, fvars
<1>5. ASSUME NEW t \in Threads, FlushFile(t) PROVE FilePhaseInv'
  <2> DEFINE o == OutputOf(t)
  <2>1. /\ call[t] = "flush" \/ (t = "worker" /\ call[t] = "idle")
        /\ IF On("file") THEN FileFlush(o) ELSE UNCHANGED fvars
        /\ UNCHANGED <<phase, channels>>
    BY <1>5 DEF FlushFile
  <2>2. CASE UNCHANGED fvars
    BY <2>1, <2>2, FilesStill DEF fvars
  <2>3. CASE FileFlush(o)
    <3>1. /\ o \in Outputs
          /\ fstep[o] = "idle" /\ fstep'[o] \in {"idle", "closed"}
          /\ \A p \in Outputs : p # o => fstep'[p] = fstep[p] /\ file'[p] = file[p]
      BY <1>1, <2>3, OutputOfThreads DEF FileFlush, At, Goto, FileTypeOK
    <3>2. phase \notin {"start", "cancelled", "ending", "exit"} /\ (o = 1 => phase # "released")
      BY <1>1, <2>1, OutputOfThreads DEF PhaseInv, Threads
    <3>3. CASE o = 0
      BY <1>1, <2>1, <3>1, <3>2, <3>3 DEF FilePhaseInv, On
    <3>4. CASE o = 1
      BY <1>1, <2>1, <3>1, <3>2, <3>4 DEF FilePhaseInv, On, ControlTypes, Phases
    <3> QED
      BY <1>1, <3>1, <3>3, <3>4
  <2> QED
    BY <2>1, <2>2, <2>3
<1>6. CASE StatsStep
  BY <1>6, FilesStill DEF StatsStep, StatsTick, StatsFormat, StatsCheckFlush, fvars
<1>7. CASE ReleaseRedis \/ RedisReader \/ RedisServer \/ RedisFault \/ \E o \in Outputs : Broker(o)
  BY <1>7, FilesStill DEF ReleaseRedis, RedisReader, RedisServer, RedisFault, Broker, fvars, ovars
<1>8. CASE \E o \in Outputs : InFile(o)
  BY <1>8, InFilePhase
<1>9. CASE StartMain
  <2>1. /\ phase = "start" /\ phase' = "run" /\ channels' = channels
        /\ IF On("file") THEN At(0, "absent") /\ CreateNewFile(0) ELSE UNCHANGED fvars
    BY <1>9 DEF StartMain, OutputAllocInit
  <2>2. (fstep'[0] = fstep[0] \/ fstep'[0] = "idle") /\ fstep'[1] = fstep[1]
    BY <1>1, <2>1 DEF CreateNewFile, Goto, FileTypeOK, fvars
  <2> QED
    BY <2>1, <2>2 DEF FilePhaseInv
<1>10. CASE StartWorker
  <2>1. /\ phase = "run" /\ phase' = "run" /\ channels' = channels
        /\ IF On("file") THEN At(1, "absent") /\ CreateNewFile(1) ELSE UNCHANGED fvars
    BY <1>10 DEF StartWorker, OutputAllocInit
  <2>2. (fstep'[1] = fstep[1] \/ fstep'[1] \in {"idle", "scan"}) /\ fstep'[0] = fstep[0]
    BY <1>1, <2>1 DEF CreateNewFile, Goto, FileTypeOK, fvars
  <2> QED
    BY <2>1, <2>2 DEF FilePhaseInv
<1>11. CASE Stop
  BY <1>11 DEF Stop, FilePhaseInv, On, fvars
<1>12. CASE ReleaseWorker
  <2>1. /\ phase = "stopping" /\ phase' = "released" /\ channels' = channels
        /\ IF On("file") THEN FileRelease(1) ELSE UNCHANGED fvars
    BY <1>12 DEF ReleaseWorker, ReleaseOutput
  <2>2. /\ On("file") => file'[1] = NoFile /\ fstep'[1] \in {"last_closed", "gone"}
        /\ ~On("file") => fstep'[1] = fstep[1]
        /\ fstep'[0] = fstep[0]
    BY <1>1, <2>1 DEF FileRelease, AfterLastFile, Goto, FileTypeOK, fvars
  <2> QED
    BY <2>1, <2>2 DEF FilePhaseInv, On
<1>13. CASE CancelStats
  <2>1. /\ phase = "released" /\ phase' = "cancelled" /\ channels' = channels /\ file' = file
        /\ fstep[1] \in {"idle", "absent", "gone"} /\ fstep'[1] = fstep[1]
        /\ fstep'[0] = fstep[0] \/ fstep'[0] = "idle"
    BY <1>1, <1>13 DEF CancelStats, FileQuiet, FileTypeOK
  <2> QED
    BY <2>1 DEF FilePhaseInv, On
<1>14. CASE ReleaseMain
  <2>1. /\ phase = "cancelled" /\ phase' = "ending" /\ channels' = channels
        /\ IF On("file") THEN FileRelease(0) ELSE UNCHANGED fvars
    BY <1>14 DEF ReleaseMain, ReleaseOutput
  <2>2. /\ On("file") => fstep'[0] \in {"last_closed", "last_scan", "gone"} /\ file'[1] = file[1]
        /\ ~On("file") => fstep'[0] = fstep[0]
        /\ fstep'[1] = fstep[1]
    BY <1>1, <2>1 DEF FileRelease, AfterLastFile, Goto, FileTypeOK, fvars
  <2> QED
    BY <2>1, <2>2 DEF FilePhaseInv, On
<1>15. CASE Exit
  BY <1>15 DEF Exit, FileQuiet, FilePhaseInv, On, fvars
<1>16. CASE Crash
  <2>1. /\ phase' = "start" /\ fstep'[0] = "absent" /\ fstep'[1] = "absent"
    BY <1>1, <1>16 DEF Crash, FileCrash
  <2> QED
    BY <2>1 DEF FilePhaseInv
<1> QED
  BY <1>2, <1>3, <1>4, <1>5, <1>6, <1>7, <1>8, <1>9, <1>10, <1>11, <1>12, <1>13, <1>14, <1>15, <1>16, StepCases

\* So there is one clean-up at a time: the worker's while it runs, then that
\* of output 0.
LEMMA CleanersApart == FilePhaseInv /\ DoomedOld => OneCleaner
<1> SUFFICES ASSUME FilePhaseInv, DoomedOld PROVE OneCleaner
  OBVIOUS
<1>1. Outputs = {0, 1}
  BY OutputOfThreads
<1>2. doomed[0] # {} => fstep[0] = "last_unlink"
  BY <1>1 DEF FilePhaseInv, DoomedOld
<1>3. doomed[1] # {} => fstep[1] = "unlink"
  BY <1>1 DEF FilePhaseInv, DoomedOld
<1>4. doomed[0] = {} \/ doomed[1] = {}
  BY <1>2, <1>3 DEF FilePhaseInv
<1> QED
  BY <1>1, <1>4 DEF OneCleaner

\* A clean-up leaves at most Retained announced files.
LEMMA RetainedLeft ==
    ASSUME FileTypeOK, Retained > 0
    PROVE  Cardinality(sem \ OldSampledFiles) <= Retained
<1> DEFINE S == sem \ OldSampledFiles
<1>1. S \subseteq Nat /\ sem \subseteq Nat
  BY NamesAreNumbers
<1>2. CASE S = {}
  BY <1>2, FS_EmptySet, OutputAssumption
<1>3. CASE S # {}
  <2> DEFINE x == Oldest(S)
             N == {m \in sem : m > x}
  <2> HIDE DEF S
  <2>1. x \in S /\ \A m \in S : x <= m
    BY <1>1, <1>3, OldestExists
  <2>2. IsFiniteSet(sem)
    <3>1. IsFiniteSet(1 .. MaxFiles)
      BY FS_Interval, OutputAssumption
    <3>2. sem \subseteq 1 .. MaxFiles
      BY DEF FileTypeOK, Names
    <3> QED
      BY <3>1, <3>2, FS_Subset
  <2>3. IsFiniteSet(N)
    BY <2>2, FS_Subset
  <2>4. Cardinality(N) \in Nat /\ x \in Nat /\ x \notin N
    <3>1. Cardinality(N) \in Nat
      BY <2>3, FS_CardinalityType
    <3>2. x \in Nat
      BY <1>1, <2>1
    <3> QED
      BY <3>1, <3>2
  <2>5. Cardinality(N) < Retained
    BY <2>1, <2>4, OutputAssumption DEF S, OldSampledFiles
  <2> HIDE DEF x
  <2>6. S \subseteq N \cup {x}
    BY <1>1, <2>1, <2>4 DEF S
  <2> HIDE DEF N
  <2>7. IsFiniteSet(N \cup {x}) /\ Cardinality(N \cup {x}) = Cardinality(N) + 1
    BY <2>3, <2>4, FS_AddElement
  <2>8. IsFiniteSet(S) /\ Cardinality(S) <= Cardinality(N) + 1
    BY <2>6, <2>7, FS_Subset
  <2>9. Cardinality(S) \in Nat
    BY <2>8, FS_CardinalityType
  <2> QED
    BY <2>4, <2>5, <2>8, <2>9, OutputAssumption DEF S
<1> QED
  BY <1>2, <1>3

\* The last clean-up, alone in the directory.
LEMMA LastCleanStep == FileInv /\ FilePhaseInv /\ LastCleanInv /\ FileSteps => LastCleanInv'
<1> SUFFICES ASSUME FileInv, FilePhaseInv, LastCleanInv, FileSteps, Retained > 0
             PROVE  /\ fstep'[0] = "last_unlink" => Cardinality(sem' \ doomed'[0]) <= Retained
                    /\ fstep'[0] = "gone" => Cardinality(sem') <= Retained
  BY DEF LastCleanInv
<1>1. FileTypeOK /\ FreshInv /\ Outputs = {0, 1}
  BY OutputOfThreads DEF FileInv
<1>2. CASE UNCHANGED fvars
  BY <1>2 DEF fvars, LastCleanInv
<1>3. CASE FileCrash
  BY <1>1, <1>3 DEF FileCrash
<1>4. CASE OutputStep(1)
  <2>1. fstep'[0] = fstep[0] /\ doomed'[0] = doomed[0]
    BY <1>1, <1>4 DEF OutputStep, CallStep, CreateNewFile, FileWrite, FileFlush, FileRelease, CreateSemaphoreFile,
       ScanOldFiles, RemoveOldFile, RemovedOldFiles, FileCut, Goto, FileTypeOK
  <2>2. fstep[0] \in {"last_unlink", "gone"} => fstep[1] \in {"idle", "absent", "gone"}
    BY DEF FilePhaseInv
  <2>3. fstep[1] \in {"idle", "absent", "gone"} => sem' = sem
    BY <1>4 DEF OutputStep, CallStep, CreateNewFile, FileWrite, FileFlush, FileRelease, CreateSemaphoreFile,
       ScanOldFiles, RemoveOldFile, RemovedOldFiles, FileCut
  <2> QED
    BY <2>1, <2>2, <2>3 DEF LastCleanInv
<1>5. CASE OutputStep(0)
  <2>1. CASE CreateNewFile(0) \/ FileFlush(0) \/ FileRelease(0) \/ CreateSemaphoreFile(0)
    <3>1. fstep'[0] \in {"idle", "scan", "closed", "last_closed", "last_scan", "create"}
      BY <1>1, <2>1 DEF CreateNewFile, FileFlush, FileRelease, CreateSemaphoreFile, AfterLastFile, At, Goto, FileTypeOK
    <3> QED
      BY <3>1
  <2>2. CASE FileWrite(0)
    BY <2>2 DEF FileWrite, LastCleanInv
  <2>3. CASE ScanOldFiles(0)
    <3>1. fstep'[0] # "gone" /\ sem' = sem /\ doomed'[0] = OldSampledFiles
      BY <1>1, <2>3 DEF ScanOldFiles, Goto, FileTypeOK
    <3> QED
      BY <1>1, <3>1, RetainedLeft
  <2>4. CASE RemoveOldFile(0)
    <3> DEFINE name == Oldest(doomed[0])
    <3>1. name \in doomed[0]
      BY <1>1, <2>4, NamesAreNumbers, OldestExists DEF RemoveOldFile
    <3>2. fstep[0] \in {"unlink", "last_unlink"} /\ fstep' = fstep
      BY <2>4 DEF RemoveOldFile
    <3>3. \/ name \in sem /\ sem' = sem \ {name} /\ doomed'[0] = doomed[0]
          \/ name \notin sem /\ sem' = sem /\ doomed'[0] = doomed[0] \ {name}
      BY <1>1, <2>4 DEF RemoveOldFile, FileTypeOK
    <3> HIDE DEF name
    <3>4. sem' \ doomed'[0] = sem \ doomed[0]
      BY <3>1, <3>3
    <3> QED
      BY <3>2, <3>4 DEF LastCleanInv
  <2>5. CASE RemovedOldFiles(0)
    <3>1. sem' = sem /\ doomed[0] = {} /\ (fstep'[0] = "idle" \/ (fstep[0] = "last_unlink" /\ fstep'[0] = "gone"))
      BY <1>1, <2>5 DEF RemovedOldFiles, At, Goto, FileTypeOK
    <3>2. sem \ {} = sem
      OBVIOUS
    <3> QED
      BY <3>1, <3>2 DEF LastCleanInv
  <2>6. CASE FileCut(0)
    <3>1. sem' = sem /\ (fstep'[0] = "idle" \/ fstep'[0] = fstep[0]) /\ fstep'[0] # "last_unlink"
      BY <1>1, <2>6 DEF FileCut, FileTypeOK
    <3> QED
      BY <3>1 DEF LastCleanInv
  <2> QED
    BY <1>5, <2>1, <2>2, <2>3, <2>4, <2>5, <2>6 DEF OutputStep, CallStep
<1> QED
  BY <1>1, <1>2, <1>3, <1>4, <1>5 DEF FileSteps

\* A call that succeeds leaves no data file unannounced.
LEMMA AnnouncedCall ==
    ASSUME FileInv, DoomedOld, faults \in Nat, Announced, NEW o \in Outputs, CallStep(o), faults' = faults
    PROVE  Announced'
<1>1. FileTypeOK /\ FreshInv
  BY DEF FileInv
<1>2. CASE CreateNewFile(o)
  <2>1. /\ csv' = csv \cup {clock} /\ file' = [file EXCEPT ![o] = clock]
        /\ file_name' = [file_name EXCEPT ![o] = clock] /\ fstep[o] \in {"absent", "create"}
        /\ fstep' = [fstep EXCEPT ![o] = IF o = 1 /\ Retained > 0 THEN "scan" ELSE "idle"]
        /\ UNCHANGED <<sem, doomed>>
    BY <1>2 DEF CreateNewFile, Goto
  <2>2. ~Fresh(o)
    BY <1>1, <2>1 DEF FreshInv, Fresh
  <2>3. clock # NoFile
    BY <1>1, NamesAreNumbers DEF NoFile
  <2>4. Fresh(o)' /\ file_name'[o] = clock
    BY <1>1, <2>1, <2>3 DEF Fresh, FileTypeOK
  <2>5. \A p \in Outputs : p # o => (Fresh(p)' <=> Fresh(p)) /\ file_name'[p] = file_name[p]
    BY <1>1, <2>1 DEF Fresh, FileTypeOK
  <2> QED
    BY <2>1, <2>2, <2>4, <2>5 DEF Announced
<1>3. CASE FileWrite(o)
  BY <1>3 DEF FileWrite, Announced, Fresh
<1>4. CASE FileFlush(o) \/ FileRelease(o)
  <2>1. UNCHANGED <<csv, sem, doomed, file_name>>
    BY <1>4 DEF FileFlush, FileRelease
  <2>2. \A p \in Outputs : Fresh(p) => Fresh(p)'
    BY <1>1, <1>4 DEF FileFlush, FileRelease, AfterLastFile, At, Goto, Fresh, FileTypeOK
  <2> QED
    BY <2>1, <2>2 DEF Announced
<1>5. CASE CreateSemaphoreFile(o)
  <2>1. /\ \/ csv' = csv \ {file_name[o]} /\ sem' = sem
           \/ csv' = csv /\ sem' = sem \cup {file_name[o]}
        /\ UNCHANGED <<file, file_name, doomed>>
    BY <1>5 DEF CreateSemaphoreFile
  <2>2. \A p \in Outputs : p # o => fstep'[p] = fstep[p]
    BY <1>1, <1>5 DEF CreateSemaphoreFile, Goto, FileTypeOK
  <2>3. \A p \in Outputs : p # o => (Fresh(p) => Fresh(p)')
    BY <2>1, <2>2 DEF Fresh
  <2> QED
    BY <2>1, <2>3 DEF Announced
<1>6. CASE ScanOldFiles(o)
  <2>1. UNCHANGED <<csv, sem, file, file_name>> /\ doomed[o] = {}
    BY <1>6 DEF ScanOldFiles, DoomedOld
  <2>2. \A p \in Outputs : p # o => doomed'[p] = doomed[p]
    BY <1>1, <1>6 DEF ScanOldFiles, FileTypeOK
  <2>3. \A p \in Outputs : Fresh(p) => Fresh(p)'
    BY <1>1, <1>6 DEF ScanOldFiles, At, Goto, Fresh, FileTypeOK
  <2> QED
    BY <2>1, <2>2, <2>3 DEF Announced
<1>7. CASE RemoveOldFile(o)
  <2> DEFINE name == Oldest(doomed[o])
  <2>1. name \in doomed[o]
    BY <1>1, <1>7, NamesAreNumbers, OldestExists DEF RemoveOldFile
  <2>2. /\ UNCHANGED <<file, file_name, fstep>>
        /\ \/ sem' = sem \ {name} /\ csv' = csv /\ doomed' = doomed
           \/ sem' = sem /\ csv' = csv \ {name} /\ doomed' = [doomed EXCEPT ![o] = @ \ {name}]
    BY <1>7 DEF RemoveOldFile
  <2> HIDE DEF name
  <2>3. \A p \in Outputs : doomed[p] \ {name} \subseteq doomed'[p]
    BY <1>1, <2>2 DEF FileTypeOK
  <2>4. \A p \in Outputs : Fresh(p) => Fresh(p)'
    BY <2>2 DEF Fresh
  <2> QED
    BY <2>1, <2>2, <2>3, <2>4 DEF Announced
<1>8. CASE RemovedOldFiles(o)
  <2>1. UNCHANGED <<csv, sem, doomed, file, file_name>>
    BY <1>8 DEF RemovedOldFiles
  <2>2. \A p \in Outputs : Fresh(p) => Fresh(p)'
    BY <1>1, <1>8 DEF RemovedOldFiles, At, Goto, Fresh, FileTypeOK
  <2> QED
    BY <2>1, <2>2 DEF Announced
<1> QED
  BY <1>2, <1>3, <1>4, <1>5, <1>6, <1>7, <1>8 DEF CallStep

\* The failures are counted.
LEMMA FaultsCounted == faults \in Nat /\ FileSteps => faults' \in Nat /\ faults' >= faults
<1> SUFFICES ASSUME faults \in Nat, FileSteps PROVE faults' = faults \/ faults' = faults + 1
  OBVIOUS
<1> QED
  BY DEF FileSteps, OutputStep, CallStep, CreateNewFile, FileWrite, FileFlush, FileRelease, CreateSemaphoreFile,
     ScanOldFiles, RemoveOldFile, RemovedOldFiles, FileCut, FileCrash, fvars

\* A flush is cut short only when the statistics thread is cancelled.
LEMMA CutStep == ControlInv /\ AnnouncedInv /\ [Next]_vars => (cut' => phase' \in {"cancelled", "ending", "exit"})
<1> SUFFICES ASSUME ControlInv, AnnouncedInv, [Next]_vars, cut' PROVE phase' \in {"cancelled", "ending", "exit"}
  OBVIOUS
<1>1. ASSUME UNCHANGED <<cut, phase>> PROVE phase' \in {"cancelled", "ending", "exit"}
  BY <1>1 DEF AnnouncedInv
<1>2. CASE UNCHANGED vars
  BY <1>1, <1>2 DEF vars, ovars
<1>3. CASE \E t \in Threads : WriteStep(t)
  BY <1>1, <1>3, WriteStepIs
<1>4. CASE \E t \in Threads : \/ EndReport(t) \/ FlushFile(t) \/ FlushSkipped(t) \/ FlushMongo(t) \/ WriteReport(t)
  BY <1>1, <1>4 DEF EndReport, FlushFile, FlushSkipped, FlushMongo, WriteReport
<1>5. CASE StatsStep
  BY <1>1, <1>5 DEF StatsStep, StatsTick, StatsFormat, StatsCheckFlush
<1>6. CASE ReleaseRedis \/ RedisReader \/ RedisServer \/ RedisFault \/ \E o \in Outputs : InFile(o) \/ Broker(o)
  BY <1>1, <1>6 DEF ReleaseRedis, RedisReader, RedisServer, RedisFault, InFile, Broker, ovars
<1>7. CASE StartMain \/ StartWorker \/ Stop \/ ReleaseWorker
  BY <1>7 DEF StartMain, StartWorker, Stop, ReleaseWorker, AnnouncedInv
<1>8. CASE CancelStats \/ ReleaseMain \/ Exit \/ Crash
  BY <1>8 DEF CancelStats, ReleaseMain, Exit, Crash
<1> QED
  BY <1>2, <1>3, <1>4, <1>5, <1>6, <1>7, <1>8, StepCases

\* Without a failure, a crash or a cancelled flush every data file is
\* announced in the end.
LEMMA AnnouncedStep ==
    ControlInv /\ FileInv /\ DoomedOld /\ AnnouncedInv /\ faults \in Nat /\ [Next]_vars => AnnouncedInv'
<1> SUFFICES ASSUME ControlInv, FileInv, DoomedOld, AnnouncedInv, faults \in Nat, [Next]_vars,
                    faults' = 0, crashes' = 0, ~cut'
             PROVE  Announced'
  BY CutStep DEF AnnouncedInv
<1>1. faults = 0
  BY FileStepsOnly, FaultsCounted
<1>2. CASE UNCHANGED fvars /\ UNCHANGED <<cut, crashes>>
  BY <1>1, <1>2 DEF AnnouncedInv, Announced, Fresh, fvars
<1>3. CASE (\E o \in Outputs : CallStep(o)) /\ UNCHANGED <<cut, crashes>>
  BY <1>1, <1>3, AnnouncedCall DEF AnnouncedInv
<1>4. CASE CancelStats
  <2>1. /\ fstep[0] \in {"idle", "absent", "gone"} /\ crashes = 0 /\ phase = "released"
        /\ UNCHANGED <<csv, sem, file, file_name>>
    BY <1>4 DEF CancelStats, FileQuiet
  <2>2. doomed[0] = {} /\ 0 \in Outputs
    BY <2>1, OutputOfThreads DEF DoomedOld
  <2>3. fstep' = fstep /\ doomed' = doomed
    BY <1>4, <2>1, <2>2 DEF CancelStats, FileQuiet, FileInv, FileTypeOK
  <2> QED
    BY <1>1, <2>1, <2>3 DEF AnnouncedInv, Announced, Fresh
<1>5. CASE Crash
  BY <1>5 DEF Crash, ControlInv, ControlTypes
<1> QED
  BY <1>2, <1>3, <1>4, <1>5, FileProjection
-----------------------------------------------------------------------------
\* No channel goes back to an older report.
NeverBack ==
    \A o \in Outputs : /\ file_last'[o] >= file_last[o] /\ kafka_last'[o] >= kafka_last[o]
                       /\ delivered'[o] >= delivered[o] /\ socket_last'[o] >= socket_last[o]

QueueInv == LastTypes /\ LastInv

\* Steps that leave Kafka's queue alone, while reports may begin.
LEMMA QueueStill ==
    ASSUME ControlInv, QueueInv, ControlInv', UNCHANGED <<rd_queue, delivered>>,
           \A o \in Outputs : written[o] <= written'[o],
           file_last' \in [Outputs -> Nat], kafka_last' \in [Outputs -> Nat], socket_last' \in [Outputs -> Nat],
           \A o \in Outputs : /\ file_last'[o] \in {file_last[o], written'[o]}
                              /\ kafka_last'[o] \in {kafka_last[o], written'[o]}
                              /\ socket_last'[o] \in {socket_last[o], written'[o]}
    PROVE  QueueInv' /\ NeverBack
<1>1. LastTypes /\ LastInv /\ ControlTypes /\ ControlTypes'
  BY DEF QueueInv, ControlInv
<1>2. LastTypes'
  BY <1>1 DEF LastTypes
<1>3. ASSUME NEW o \in Outputs
      PROVE  /\ file_last[o] \in Nat /\ kafka_last[o] \in Nat /\ socket_last[o] \in Nat /\ delivered[o] \in Nat
             /\ written[o] \in Nat /\ written'[o] \in Nat /\ written[o] <= written'[o]
  BY <1>1 DEF LastTypes, ControlTypes
<1>4. ASSUME NEW o \in Outputs, NEW i \in 1 .. Len(rd_queue[o]) PROVE rd_queue[o][i][2] \in Nat
  <2>1. rd_queue[o] \in Seq(Messages)
    BY <1>1 DEF LastTypes
  <2>2. rd_queue[o][i] \in Messages
    BY <2>1
  <2> QED
    BY <2>2 DEF Messages
<1>5. ASSUME NEW o \in Outputs
      PROVE  /\ file_last[o] <= written[o] /\ kafka_last[o] <= written[o] /\ socket_last[o] <= written[o]
             /\ delivered[o] <= written[o]
             /\ \A i \in 1 .. Len(rd_queue[o]) :
                   /\ delivered[o] <= rd_queue[o][i][2] /\ rd_queue[o][i][2] <= written[o]
                   /\ \A j \in 1 .. i : rd_queue[o][j][2] <= rd_queue[o][i][2]
  BY <1>1 DEF LastInv
<1>6. ASSUME NEW o \in Outputs
      PROVE  /\ file_last'[o] <= written'[o] /\ kafka_last'[o] <= written'[o] /\ socket_last'[o] <= written'[o]
             /\ file_last'[o] >= file_last[o] /\ kafka_last'[o] >= kafka_last[o] /\ socket_last'[o] >= socket_last[o]
  <2>1. /\ file_last'[o] \in {file_last[o], written'[o]} /\ kafka_last'[o] \in {kafka_last[o], written'[o]}
        /\ socket_last'[o] \in {socket_last[o], written'[o]}
    OBVIOUS
  <2>2. file_last[o] <= written[o] /\ kafka_last[o] <= written[o] /\ socket_last[o] <= written[o]
    BY <1>5
  <2> QED
    BY <1>3, <2>1, <2>2
<1>7. ASSUME NEW o \in Outputs PROVE delivered[o] <= written'[o] /\ delivered[o] >= delivered[o]
  BY <1>3, <1>5
<1>8. ASSUME NEW o \in Outputs, NEW i \in 1 .. Len(rd_queue[o]) PROVE rd_queue[o][i][2] <= written'[o]
  <2>1. rd_queue[o][i][2] \in Nat /\ rd_queue[o][i][2] <= written[o]
    BY <1>4, <1>5
  <2>2. written[o] \in Nat /\ written'[o] \in Nat /\ written[o] <= written'[o]
    BY <1>3
  <2> QED
    BY <2>1, <2>2
<1>9. LastInv'
  BY <1>5, <1>6, <1>7, <1>8 DEF LastInv
<1>10. NeverBack
  BY <1>6, <1>7 DEF NeverBack
<1> QED
  BY <1>2, <1>9, <1>10 DEF QueueInv

\* The queue of an output is dropped.
LEMMA QueueDropped ==
    ASSUME ControlInv, QueueInv, UNCHANGED <<written, file_last, kafka_last, delivered, socket_last>>,
           rd_queue' \in [Outputs -> Seq(Messages)],
           \A o \in Outputs : rd_queue'[o] \in {rd_queue[o], <<>>}
    PROVE  QueueInv' /\ NeverBack
<1>1. LastTypes /\ LastInv
  BY DEF QueueInv
<1>2. Len(<<>>) = 0 /\ KafkaMax \in Nat
  BY BrokerAssumption
<1>3. LastTypes'
  <2>1. \A o \in Outputs : Len(rd_queue'[o]) <= KafkaMax
    BY <1>1, <1>2 DEF LastTypes
  <2> QED
    BY <1>1, <2>1 DEF LastTypes
<1>4. LastInv'
  <2> SUFFICES ASSUME NEW o \in Outputs PROVE
        \A i \in 1 .. Len(rd_queue'[o]) :
              /\ delivered[o] <= rd_queue'[o][i][2] /\ rd_queue'[o][i][2] <= written[o]
              /\ \A j \in 1 .. i : rd_queue'[o][j][2] <= rd_queue'[o][i][2]
    BY <1>1 DEF LastInv
  <2>1. CASE rd_queue'[o] = rd_queue[o]
    BY <1>1, <2>1 DEF LastInv
  <2>2. CASE rd_queue'[o] = <<>>
    BY <1>2, <2>2
  <2> QED
    BY <2>1, <2>2
<1>5. NeverBack
  BY <1>1 DEF NeverBack, LastTypes
<1> QED
  BY <1>3, <1>4, <1>5 DEF QueueInv

\* A message joins the queue: it is the newest report.
LEMMA QueueAppended ==
    ASSUME ControlInv, QueueInv, NEW o \in Outputs, UNCHANGED <<written, file_last, delivered, socket_last>>,
           Len(rd_queue[o]) < KafkaMax,
           rd_queue' = [rd_queue EXCEPT ![o] = Append(@, <<o, written[o]>>)],
           kafka_last' = [kafka_last EXCEPT ![o] = written[o]]
    PROVE  QueueInv' /\ NeverBack
<1>1. LastTypes /\ LastInv /\ ControlTypes
  BY DEF QueueInv, ControlInv
<1> DEFINE q == rd_queue[o]
           n == Len(q)
           w == written[o]
<1>2. q \in Seq(Messages) /\ n \in Nat /\ w \in Nat /\ <<o, w>> \in Messages /\ KafkaMax \in Nat /\ n < KafkaMax
  BY <1>1, BrokerAssumption DEF LastTypes, ControlTypes, Messages
<1>3. /\ rd_queue'[o] = Append(q, <<o, w>>) /\ rd_queue' \in [Outputs -> Seq(Messages)]
      /\ \A p \in Outputs : p # o => rd_queue'[p] = rd_queue[p] /\ kafka_last'[p] = kafka_last[p]
      /\ kafka_last'[o] = w /\ kafka_last' \in [Outputs -> Nat]
  BY <1>1, <1>2 DEF LastTypes
<1>4. /\ Len(rd_queue'[o]) = n + 1 /\ rd_queue'[o][n + 1] = <<o, w>>
      /\ \A i \in 1 .. n : rd_queue'[o][i] = q[i]
  BY <1>2, <1>3
<1>5. /\ \A i \in 1 .. n : /\ delivered[o] <= q[i][2] /\ q[i][2] <= w /\ q[i][2] \in Nat
                           /\ \A j \in 1 .. i : q[j][2] <= q[i][2]
      /\ delivered[o] <= w /\ delivered[o] \in Nat
  <2>1. \A i \in 1 .. n : q[i] \in Messages
    BY <1>2
  <2> QED
    BY <1>1, <2>1 DEF LastInv, LastTypes, Messages
<1> HIDE DEF q, n, w
<1>6. LastTypes'
  <2>1. \A p \in Outputs : Len(rd_queue'[p]) <= KafkaMax
    BY <1>1, <1>2, <1>3, <1>4 DEF LastTypes
  <2> QED
    BY <1>1, <1>3, <2>1 DEF LastTypes
<1>7. \A i \in 1 .. n + 1 : /\ delivered[o] <= rd_queue'[o][i][2] /\ rd_queue'[o][i][2] <= w
                            /\ \A j \in 1 .. i : rd_queue'[o][j][2] <= rd_queue'[o][i][2]
  <2> SUFFICES ASSUME NEW i \in 1 .. n + 1
               PROVE  /\ delivered[o] <= rd_queue'[o][i][2] /\ rd_queue'[o][i][2] <= w
                      /\ \A j \in 1 .. i : rd_queue'[o][j][2] <= rd_queue'[o][i][2]
    OBVIOUS
  <2>1. CASE i \in 1 .. n
    <3>1. \A j \in 1 .. i : j \in 1 .. n
      BY <1>2, <2>1
    <3> QED
      BY <1>4, <1>5, <2>1, <3>1
  <2>2. CASE i = n + 1
    <3>1. rd_queue'[o][i][2] = w
      BY <1>4, <2>2
    <3>2. \A j \in 1 .. i : j = n + 1 \/ j \in 1 .. n
      BY <1>2, <2>2
    <3>3. \A j \in 1 .. i : rd_queue'[o][j][2] <= w
      BY <1>2, <1>4, <1>5, <2>2, <3>1, <3>2
    <3>4. delivered[o] <= w /\ w <= w
      BY <1>2, <1>5
    <3> QED
      BY <3>1, <3>3, <3>4
  <2>3. i \in 1 .. n \/ i = n + 1
    BY <1>2
  <2> QED
    BY <2>1, <2>2, <2>3
<1>8. w <= w /\ kafka_last[o] <= w /\ w = written[o]
  BY <1>1, <1>2 DEF w, LastInv
<1>9. LastInv'
  <2> SUFFICES ASSUME NEW p \in Outputs PROVE
        /\ file_last[p] <= written[p] /\ kafka_last'[p] <= written[p] /\ socket_last[p] <= written[p]
        /\ delivered[p] <= written[p]
        /\ \A i \in 1 .. Len(rd_queue'[p]) :
              /\ delivered[p] <= rd_queue'[p][i][2] /\ rd_queue'[p][i][2] <= written[p]
              /\ \A j \in 1 .. i : rd_queue'[p][j][2] <= rd_queue'[p][i][2]
    BY DEF LastInv
  <2>1. CASE p = o
    BY <1>1, <1>3, <1>4, <1>7, <1>8, <2>1 DEF LastInv
  <2>2. CASE p # o
    BY <1>1, <1>3, <2>2 DEF LastInv
  <2> QED
    BY <2>1, <2>2
<1>10. NeverBack
  BY <1>1, <1>3, <1>8 DEF NeverBack, LastTypes
<1> QED
  BY <1>6, <1>9, <1>10 DEF QueueInv

\* The broker takes the oldest message of the queue, or refuses it.
LEMMA QueueDelivered ==
    ASSUME ControlInv, QueueInv, NEW o \in Outputs, UNCHANGED <<written, file_last, socket_last>>, KafkaDeliver(o)
    PROVE  QueueInv' /\ NeverBack
<1>1. LastTypes /\ LastInv /\ ControlTypes
  BY DEF QueueInv, ControlInv
<1> DEFINE q == rd_queue[o]
           n == Len(q)
<1>2. /\ q # <<>> /\ rd_queue' = [rd_queue EXCEPT ![o] = Tail(@)] /\ kafka_last' = kafka_last
      /\ delivered' = [delivered EXCEPT ![o] = Head(q)[2]] \/ delivered' = delivered
  BY DEF KafkaDeliver
<1>3. /\ q \in Seq(Messages) /\ n \in Nat /\ n > 0 /\ Head(q) = q[1] /\ q[1] \in Messages /\ KafkaMax \in Nat
      /\ n <= KafkaMax
  <2>1. q \in Seq(Messages) /\ n <= KafkaMax
    BY <1>1 DEF LastTypes
  <2> QED
    BY <1>2, <2>1, BrokerAssumption
<1>4. /\ rd_queue' \in [Outputs -> Seq(Messages)] /\ rd_queue'[o] = Tail(q)
      /\ \A p \in Outputs : p # o => rd_queue'[p] = rd_queue[p] /\ delivered'[p] = delivered[p]
      /\ delivered'[o] \in {delivered[o], q[1][2]} /\ delivered' \in [Outputs -> Nat]
  <2>1. Tail(q) \in Seq(Messages) /\ q[1][2] \in Nat
    BY <1>3 DEF Messages
  <2> QED
    BY <1>1, <1>2, <1>3, <2>1 DEF LastTypes
<1>5. Len(rd_queue'[o]) = n - 1
  BY <1>3, <1>4
<1>6. \A i \in 1 .. n - 1 : rd_queue'[o][i] = q[i + 1]
  BY <1>3, <1>4
<1>7. \A i \in 1 .. n : /\ delivered[o] <= q[i][2] /\ q[i][2] <= written[o]
                        /\ \A j \in 1 .. i : q[j][2] <= q[i][2]
  BY <1>1 DEF LastInv
<1>8. delivered[o] \in Nat /\ q[1][2] \in Nat
  BY <1>1, <1>3 DEF LastTypes, Messages
<1> HIDE DEF q, n
<1>9. LastTypes'
  <2>1. \A p \in Outputs : Len(rd_queue'[p]) <= KafkaMax
    <3>1. n - 1 <= KafkaMax
      BY <1>3
    <3> QED
      BY <1>1, <1>4, <1>5, <3>1 DEF LastTypes
  <2> QED
    BY <1>1, <1>2, <1>4, <2>1 DEF LastTypes
<1>10. delivered[o] <= delivered'[o] /\ delivered'[o] <= written[o]
  <2>1. delivered[o] <= q[1][2] /\ q[1][2] <= written[o]
    BY <1>3, <1>7
  <2>2. delivered[o] <= written[o]
    BY <1>1 DEF LastInv
  <2> QED
    BY <1>4, <1>8, <2>1, <2>2
<1>11. ASSUME NEW i \in 1 .. n - 1
       PROVE  /\ delivered'[o] <= rd_queue'[o][i][2] /\ rd_queue'[o][i][2] <= written[o]
              /\ \A j \in 1 .. i : rd_queue'[o][j][2] <= rd_queue'[o][i][2]
  <2>1. i + 1 \in 1 .. n /\ 1 \in 1 .. i + 1
    BY <1>3
  <2>2. \A j \in 1 .. i : j \in 1 .. n - 1 /\ j + 1 \in 1 .. i + 1
    BY <1>3
  <2>3. q[1][2] <= q[i + 1][2] /\ delivered[o] <= q[i + 1][2] /\ q[i + 1][2] <= written[o]
    BY <1>7, <2>1
  <2> QED
    BY <1>4, <1>6, <1>7, <2>1, <2>2, <2>3
<1>12. LastInv'
  <2> SUFFICES ASSUME NEW p \in Outputs PROVE
        /\ file_last[p] <= written[p] /\ kafka_last[p] <= written[p] /\ socket_last[p] <= written[p]
        /\ delivered'[p] <= written[p]
        /\ \A i \in 1 .. Len(rd_queue'[p]) :
              /\ delivered'[p] <= rd_queue'[p][i][2] /\ rd_queue'[p][i][2] <= written[p]
              /\ \A j \in 1 .. i : rd_queue'[p][j][2] <= rd_queue'[p][i][2]
    BY <1>2 DEF LastInv
  <2>1. CASE p = o
    BY <1>1, <1>5, <1>10, <1>11, <2>1 DEF LastInv
  <2>2. CASE p # o
    BY <1>1, <1>4, <2>2 DEF LastInv
  <2> QED
    BY <2>1, <2>2
<1>13. NeverBack
  BY <1>1, <1>2, <1>4, <1>10 DEF NeverBack, LastTypes
<1> QED
  BY <1>9, <1>12, <1>13 DEF QueueInv

\* A step of a thread or of the process that is no write.
LEMMA QueueAlone ==
    ASSUME QueueInv, UNCHANGED <<written, file_last, kafka_last, delivered, socket_last, rd_queue>>
    PROVE  QueueInv' /\ NeverBack
BY DEF QueueInv, LastTypes, LastInv, NeverBack

\* Every channel keeps the order of the reports.
LEMMA QueueStep == ControlInv /\ QueueInv /\ [Next]_vars => QueueInv' /\ NeverBack
<1> SUFFICES ASSUME ControlInv, QueueInv, [Next]_vars PROVE QueueInv' /\ NeverBack
  OBVIOUS
<1>1. /\ ControlTypes /\ SectionInv /\ LastTypes /\ ControlInv'
      /\ \A t \in Threads : OutputOf(t) \in Outputs
      /\ 0 \in Outputs /\ 1 \in Outputs
  BY ControlStep, OutputOfThreads DEF ControlInv, QueueInv
<1>2. ASSUME NEW o \in Outputs PROVE written[o] \in Nat /\ written[o] <= written[o]
  BY <1>1 DEF ControlTypes
<1>3. ASSUME NEW t \in Threads, Writing(t)
      PROVE  msg[t] = <<OutputOf(t), written[OutputOf(t)]>> /\ msg[t][2] = written[OutputOf(t)]
  BY <1>1, <1>3 DEF SectionInv
<1>4. ASSUME NEW t \in Threads, WriteFile(t) PROVE QueueInv' /\ NeverBack
  <2>1. UNCHANGED <<rd_queue, delivered, kafka_last, socket_last, written>>
    BY <1>4 DEF WriteFile, bvars
  <2>2. \/ file_last' = file_last
        \/ file_last' = [file_last EXCEPT ![OutputOf(t)] = written[OutputOf(t)]]
    BY <1>3, <1>4 DEF WriteFile, Writing, Writes
  <2>3. file_last' \in [Outputs -> Nat] /\ \A o \in Outputs : file_last'[o] \in {file_last[o], written[o]}
    BY <1>1, <1>2, <2>2 DEF LastTypes
  <2> QED
    BY <1>1, <1>2, <2>1, <2>3, QueueStill DEF LastTypes
<1>5. ASSUME NEW t \in Threads, WriteSocket(t) PROVE QueueInv' /\ NeverBack
  <2>1. UNCHANGED <<rd_queue, delivered, kafka_last, file_last, written>>
    BY <1>5 DEF WriteSocket, kafka_vars
  <2>2. \/ socket_last' = socket_last
        \/ socket_last' = [socket_last EXCEPT ![OutputOf(t)] = written[OutputOf(t)]]
    BY <1>3, <1>5 DEF WriteSocket, SocketSend, Writing, Writes
  <2>3. socket_last' \in [Outputs -> Nat] /\ \A o \in Outputs : socket_last'[o] \in {socket_last[o], written[o]}
    BY <1>1, <1>2, <2>2 DEF LastTypes
  <2> QED
    BY <1>1, <1>2, <2>1, <2>3, QueueStill DEF LastTypes
<1>6. ASSUME NEW t \in Threads, WriteKafka(t) PROVE QueueInv' /\ NeverBack
  <2> DEFINE o == OutputOf(t)
  <2>1. UNCHANGED <<delivered, socket_last, file_last, written>> /\ o \in Outputs
    BY <1>1, <1>6 DEF WriteKafka, KafkaSend, socket_vars
  <2>2. \/ UNCHANGED <<rd_queue, kafka_last>>
        \/ /\ Len(rd_queue[o]) < KafkaMax
           /\ rd_queue' = [rd_queue EXCEPT ![o] = Append(@, <<o, written[o]>>)]
           /\ kafka_last' = [kafka_last EXCEPT ![o] = written[o]]
    BY <1>3, <1>6 DEF WriteKafka, KafkaSend, Writing, Writes
  <2> HIDE DEF o
  <2> QED
    BY <2>1, <2>2, QueueAlone, QueueAppended
<1>7. ASSUME NEW t \in Threads, WriteRedis(t) \/ WriteMongo(t) PROVE QueueInv' /\ NeverBack
  <2>1. UNCHANGED <<written, file_last, kafka_last, delivered, socket_last, rd_queue>>
    BY <1>7 DEF WriteRedis, WriteMongo, kafka_vars, socket_vars, bvars
  <2> QED
    BY <2>1, QueueAlone
<1>8. ASSUME NEW t \in Threads, EndReport(t) \/ FlushFile(t) \/ FlushSkipped(t) \/ FlushMongo(t)
      PROVE QueueInv' /\ NeverBack
  <2>1. UNCHANGED <<written, file_last, kafka_last, delivered, socket_last, rd_queue>>
    BY <1>8 DEF EndReport, FlushFile, FlushSkipped, FlushMongo, kafka_vars, socket_vars, bvars
  <2> QED
    BY <2>1, QueueAlone
<1>9. ASSUME NEW t \in Threads, WriteReport(t) PROVE QueueInv' /\ NeverBack
  <2>1. /\ UNCHANGED <<file_last, kafka_last, delivered, socket_last, rd_queue>>
        /\ written' = [written EXCEPT ![OutputOf(t)] = @ + 1]
    BY <1>9 DEF WriteReport, bvars
  <2>2. \A o \in Outputs : written[o] <= written'[o]
    BY <1>1, <1>2, <2>1 DEF ControlTypes
  <2> QED
    BY <1>1, <2>1, <2>2, QueueStill DEF LastTypes
<1>10. CASE StatsStep \/ Stop \/ ReleaseRedis \/ CancelStats \/ Exit \/ RedisReader \/ RedisServer \/ RedisFault
            \/ (\E o \in Outputs : InFile(o)) \/ UNCHANGED vars
  <2>1. UNCHANGED <<written, file_last, kafka_last, delivered, socket_last, rd_queue>>
    BY <1>10 DEF StatsStep, StatsTick, StatsFormat, StatsCheckFlush, Stop, ReleaseRedis, CancelStats, Exit, RedisReader,
       RedisServer, RedisFault, InFile, bvars, ovars, vars
  <2> QED
    BY <2>1, QueueAlone
<1>11. CASE StartMain \/ StartWorker
  <2>1. UNCHANGED <<written, file_last>> /\ \E o \in Outputs : OutputAllocInit(o)
    BY <1>1, <1>11 DEF StartMain, StartWorker
  <2>2. UNCHANGED <<kafka_last, delivered, socket_last, rd_queue>>
    BY <2>1 DEF OutputAllocInit, KafkaInit, SocketInit, kafka_vars, socket_vars
  <2> QED
    BY <2>1, <2>2, QueueAlone
<1>12. ASSUME NEW o \in Outputs, Broker(o) PROVE QueueInv' /\ NeverBack
  <2>1. KafkaDeliver(o) /\ UNCHANGED <<written, file_last, socket_last>>
    BY <1>12 DEF Broker, socket_vars, ovars
  <2> QED
    BY <2>1, QueueDelivered
<1>13. CASE ReleaseWorker \/ ReleaseMain
  <2>1. PICK o \in Outputs : UNCHANGED <<written, file_last>> /\ ReleaseOutput(o)
    BY <1>1, <1>13 DEF ReleaseWorker, ReleaseMain
  <2>2. UNCHANGED <<kafka_last, delivered, socket_last>> /\ (rd_queue' = rd_queue \/ rd_queue' = [rd_queue EXCEPT ![o] = <<>>])
    BY <2>1 DEF ReleaseOutput, KafkaRelease, SocketRelease, kafka_vars, socket_vars
  <2>3. <<>> \in Seq(Messages)
    OBVIOUS
  <2>4. rd_queue' \in [Outputs -> Seq(Messages)] /\ \A p \in Outputs : rd_queue'[p] \in {rd_queue[p], <<>>}
    BY <1>1, <2>2, <2>3 DEF LastTypes
  <2> QED
    BY <2>1, <2>2, <2>4, QueueDropped
<1>14. CASE Crash
  <2>1. /\ UNCHANGED <<written, file_last, kafka_last, delivered, socket_last>>
        /\ rd_queue' = [o \in Outputs |-> <<>>]
    BY <1>14, OutputAssumptions DEF Crash, BrokerCrash
  <2>2. <<>> \in Seq(Messages)
    OBVIOUS
  <2>4. rd_queue' \in [Outputs -> Seq(Messages)] /\ \A p \in Outputs : rd_queue'[p] \in {rd_queue[p], <<>>}
    BY <2>1, <2>2
  <2> QED
    BY <2>1, <2>4, QueueDropped
<1> QED
  BY <1>4, <1>5, <1>6, <1>7, <1>8, <1>9, <1>10, <1>11, <1>12, <1>13, <1>14, StepCases DEF WriteStep
-----------------------------------------------------------------------------
MongoInv == MongoTypes /\ MongoOrder /\ MongoBound

\* A thread comes to have a message for MongoDB only by a new report.
LEMMA AheadStep ==
    ASSUME ControlInv, [Next]_vars, NEW t \in Threads, Ahead(t)'
    PROVE  Ahead(t) \/ WriteReport(t)
<1> DEFINE A == {"file", "kafka", "redis", "mongodb"}
<1>1. ControlTypes /\ call'[t] \in A
  BY DEF ControlInv, Ahead
<1>2. ASSUME NEW u \in Threads, NEW c, call' = [call EXCEPT ![u] = c], c \notin A PROVE call[t] \in A
  BY <1>1, <1>2 DEF ControlTypes
<1>3. ASSUME NEW u \in Threads, WriteStep(u) PROVE call[t] \in A
  <2>1. call' = call \/ call' = [call EXCEPT ![u] = NextChannel(call[u])]
    BY <1>3, WriteStepIs
  <2>2. u = t => call[t] \in Writes
    BY <1>3, WriteStepIs
  <2>3. call[u] = "socket" => NextChannel(call[u]) \notin A
    BY NextChannels
  <2> QED
    BY <1>1, <2>1, <2>2, <2>3 DEF Writes, ControlTypes
<1>4. ASSUME NEW u \in Threads, WriteReport(u) PROVE call[t] \in A \/ u = t
  <2>1. call' = [call EXCEPT ![u] = NextChannel("first")]
    BY <1>4 DEF WriteReport, AfterChannel, Goes
  <2> QED
    BY <1>1, <2>1 DEF ControlTypes
<1>5. ASSUME NEW u \in Threads, EndReport(u) \/ FlushFile(u) \/ FlushSkipped(u) \/ FlushMongo(u) PROVE call[t] \in A
  <2>1. \E c \in {"flush", "check", "idle", "flush_mongodb"} : call' = [call EXCEPT ![u] = c]
    BY <1>5 DEF EndReport, FlushFile, FlushSkipped, FlushMongo, Goes
  <2> QED
    BY <1>2, <2>1
<1>6. CASE StatsStep
  <2>1. call' = call \/ \E c \in {"format", "check", "report", "flush", "idle"} : call' = [call EXCEPT !["stats"] = c]
    BY <1>6 DEF StatsStep, StatsTick, StatsFormat, StatsCheckFlush, Goes
  <2>2. "stats" \in Threads
    BY DEF Threads
  <2> QED
    BY <1>1, <1>2, <2>1, <2>2 DEF Ahead
<1>7. CASE StartMain
  <2>1. \E c \in {"idle", "dead"} : call' = [call EXCEPT !["main"] = "idle", !["stats"] = c]
    BY <1>7 DEF StartMain, StartStats
  <2> QED
    BY <1>1, <2>1 DEF Ahead, ControlTypes, Threads
<1>8. CASE StartWorker \/ ReleaseWorker \/ CancelStats \/ ReleaseMain
  <2>1. \E u \in Threads, c \in {"idle", "off", "dead"} : call' = [call EXCEPT ![u] = c]
    BY <1>8 DEF StartWorker, ReleaseWorker, CancelStats, ReleaseMain, Goes, Threads
  <2> QED
    BY <1>2, <2>1 DEF Ahead
<1>9. CASE Stop \/ ReleaseRedis \/ Exit \/ (\E o \in Outputs : InFile(o) \/ Broker(o)) \/ RedisReader \/ RedisServer
           \/ RedisFault \/ UNCHANGED vars
  <2>1. call' = call
    BY <1>9 DEF Stop, ReleaseRedis, Exit, InFile, Broker, RedisReader, RedisServer, RedisFault, ovars, vars
  <2> QED
    BY <1>1, <2>1 DEF Ahead
<1>10. CASE Crash
  <2>1. call'[t] = "off"
    BY <1>10 DEF Crash
  <2> QED
    BY <1>1, <2>1
<1>11. Ahead(t) <=> call[t] \in A
  BY DEF Ahead
<1> HIDE DEF A
<1> QED
  BY <1>3, <1>4, <1>5, <1>6, <1>7, <1>8, <1>9, <1>10, <1>11, StepCases

\* Reports are only added.
LEMMA WrittenStep ==
    ASSUME ControlInv, [Next]_vars
    PROVE  \/ written' = written
           \/ \E t \in Threads : WriteReport(t) /\ written' = [written EXCEPT ![OutputOf(t)] = @ + 1]
<1>1. ASSUME NEW t \in Threads, WriteReport(t) PROVE written' = [written EXCEPT ![OutputOf(t)] = @ + 1]
  BY <1>1 DEF WriteReport
<1>2. ASSUME NEW t \in Threads, WriteStep(t) \/ EndReport(t) \/ FlushFile(t) \/ FlushSkipped(t) \/ FlushMongo(t)
      PROVE  written' = written
  BY <1>2 DEF WriteStep, WriteFile, WriteKafka, WriteRedis, WriteMongo, WriteSocket, EndReport, FlushFile, FlushSkipped,
     FlushMongo
<1>3. CASE StatsStep \/ StartMain \/ StartWorker \/ Stop \/ ReleaseRedis \/ ReleaseWorker \/ CancelStats \/ ReleaseMain
           \/ Exit \/ Crash
  BY <1>3 DEF StatsStep, StatsTick, StatsFormat, StatsCheckFlush, StartMain, StartWorker, Stop, ReleaseRedis,
     ReleaseWorker, CancelStats, ReleaseMain, Exit, Crash, ovars
<1>4. CASE (\E o \in Outputs : InFile(o) \/ Broker(o)) \/ RedisReader \/ RedisServer \/ RedisFault \/ UNCHANGED vars
  BY <1>4 DEF InFile, Broker, RedisReader, RedisServer, RedisFault, ovars, vars
<1> QED
  BY <1>1, <1>2, <1>3, <1>4, StepCases

\* The bound on the messages MongoDB may have only grows.
LEMMA TopStep ==
    ASSUME ControlInv, [Next]_vars, NEW o \in Outputs
    PROVE  Top(o) \in Int /\ Top(o)' \in Int /\ Top(o) <= Top(o)'
<1>1. ControlTypes /\ ControlTypes'
  BY ControlStep DEF ControlInv
<1>2. written[o] \in Nat /\ written'[o] \in Nat
  BY <1>1 DEF ControlTypes
<1>3. Top(o) \in {written[o], written[o] - 1} /\ Top(o)' \in {written'[o], written'[o] - 1}
  BY DEF Top
<1>4. written'[o] \in {written[o], written[o] + 1}
  BY <1>1, WrittenStep DEF ControlTypes
<1>5. CASE \E t \in Threads : Ahead(t)' /\ OutputOf(t) = o /\ ~Ahead(t)
  <2>1. PICK t \in Threads : WriteReport(t) /\ OutputOf(t) = o
    BY <1>5, AheadStep
  <2>2. written' = [written EXCEPT ![o] = @ + 1]
    BY <2>1 DEF WriteReport
  <2>3. written'[o] = written[o] + 1
    BY <1>1, <2>2 DEF ControlTypes
  <2> QED
    BY <1>2, <1>3, <2>3
<1>6. CASE \A t \in Threads : Ahead(t)' /\ OutputOf(t) = o => Ahead(t)
  <2>1. CASE \E t \in Threads : Ahead(t)' /\ OutputOf(t) = o
    <3>1. Top(o) = written[o] - 1 /\ Top(o)' = written'[o] - 1
      BY <1>6, <2>1 DEF Top
    <3> QED
      BY <1>2, <1>4, <3>1
  <2>2. CASE ~ \E t \in Threads : Ahead(t)' /\ OutputOf(t) = o
    <3>1. Top(o)' = written'[o]
      BY <2>2 DEF Top
    <3> QED
      BY <1>2, <1>3, <1>4, <3>1
  <2> QED
    BY <2>1, <2>2
<1> QED
  BY <1>5, <1>6

\* The two components of what a sequence of messages holds.
LEMMA MessageNumbers ==
    ASSUME NEW s \in Seq(Messages), NEW i \in 1 .. Len(s)
    PROVE  s[i] \in Messages /\ s[i][1] \in Outputs /\ s[i][2] \in Nat
<1>1. s[i] \in Messages
  OBVIOUS
<1> QED
  BY <1>1 DEF Messages

\* The caches of some outputs are given up, the collection stays.
LEMMA MongoDropped ==
    ASSUME MongoInv, UNCHANGED database,
           messages_cache' \in [Outputs -> Seq(Messages)],
           \A o \in Outputs : messages_cache'[o] \in {messages_cache[o], <<>>},
           \A o \in Outputs : Top(o) \in Int /\ Top(o)' \in Int /\ Top(o) <= Top(o)'
    PROVE  MongoInv'
<1>1. MongoTypes /\ MongoOrder /\ MongoBound
  BY DEF MongoInv
<1>2. Len(<<>>) = 0 /\ CacheMax \in Nat /\ CacheMax > 0
  BY BrokerAssumption
<1>3. MongoTypes'
  BY <1>1, <1>2 DEF MongoTypes
<1>4. MongoOrder'
  <2> SUFFICES ASSUME NEW o \in Outputs PROVE Batch(messages_cache[o], o)'
    BY <1>1 DEF MongoOrder
  <2>1. Batch(messages_cache[o], o)
    BY <1>1 DEF MongoOrder
  <2> QED
    BY <1>2, <2>1 DEF Batch
<1>5. ASSUME NEW i \in 1 .. Len(database) PROVE database[i][2] <= Top(database[i][1])'
  <2>1. database[i][1] \in Outputs /\ database[i][2] \in Nat
    BY <1>1, MessageNumbers DEF MongoTypes
  <2>2. database[i][2] <= Top(database[i][1])
    BY <1>1 DEF MongoBound
  <2>3. Top(database[i][1]) \in Int /\ Top(database[i][1])' \in Int /\ Top(database[i][1]) <= Top(database[i][1])'
    BY <2>1
  <2> QED
    BY <2>1, <2>2, <2>3
<1>6. ASSUME NEW o \in Outputs, NEW i \in 1 .. Len(messages_cache'[o]) PROVE messages_cache'[o][i][2] <= Top(o)'
  <2>1. messages_cache'[o] = messages_cache[o] /\ i \in 1 .. Len(messages_cache[o])
    BY <1>2
  <2>2. messages_cache[o] \in Seq(Messages)
    BY <1>1 DEF MongoTypes
  <2>3. messages_cache[o][i][2] \in Nat
    BY <2>1, <2>2, MessageNumbers
  <2>4. messages_cache[o][i][2] <= Top(o)
    BY <1>1, <2>1 DEF MongoBound
  <2>5. Top(o) \in Int /\ Top(o)' \in Int /\ Top(o) <= Top(o)'
    OBVIOUS
  <2> QED
    BY <2>1, <2>3, <2>4, <2>5
<1>7. MongoBound'
  <2>1. \A i \in 1 .. Len(database') : database'[i][2] <= Top(database[i][1])'
    BY <1>5
  <2>2. \A o \in Outputs : \A i \in 1 .. Len(messages_cache'[o]) : messages_cache'[o][i][2] <= Top(o)'
    BY <1>6
  <2> QED
    BY <2>1, <2>2 DEF MongoBound
<1> QED
  BY <1>3, <1>4, <1>7 DEF MongoInv

\* A batch of output o is inserted and its cache emptied.
LEMMA MongoInserted ==
    ASSUME MongoInv, NEW o \in Outputs, NEW s \in Seq(Messages), Batch(s, o),
           database' = database \o s, messages_cache' = [messages_cache EXCEPT ![o] = <<>>],
           \A p \in Outputs : Top(p) \in Int /\ Top(p)' \in Int /\ Top(p) <= Top(p)',
           \A j \in 1 .. Len(s) : s[j][2] <= Top(o)'
    PROVE  MongoInv'
<1> DEFINE d == Len(database)
           k == Len(s)
<1>1. MongoTypes /\ MongoOrder /\ MongoBound
  BY DEF MongoInv
<1>2. database \in Seq(Messages) /\ d \in Nat /\ k \in Nat /\ CacheMax \in Nat /\ CacheMax > 0
  BY <1>1, BrokerAssumption DEF MongoTypes
<1>3. /\ database' \in Seq(Messages) /\ Len(database') = d + k
      /\ \A i \in 1 .. d : database'[i] = database[i]
      /\ \A i \in d + 1 .. d + k : database'[i] = s[i - d]
  BY <1>2
<1>4. /\ messages_cache' \in [Outputs -> Seq(Messages)] /\ messages_cache'[o] = <<>>
      /\ \A p \in Outputs : p # o => messages_cache'[p] = messages_cache[p]
  <2>1. <<>> \in Seq(Messages)
    OBVIOUS
  <2> QED
    BY <1>1, <2>1 DEF MongoTypes
<1>5. \A j \in 1 .. k : /\ s[j][1] = o /\ s[j][2] \in Nat
                        /\ \A i \in 1 .. j - 1 : s[i][2] < s[j][2]
                        /\ \A i \in 1 .. d : database[i][1] = o => database[i][2] < s[j][2]
                        /\ s[j][2] <= Top(o)'
  BY MessageNumbers DEF Batch
<1>6. \A i, j \in 1 .. d : i < j /\ database[i][1] = database[j][1] => database[i][2] < database[j][2]
  BY <1>1 DEF MongoOrder
<1>7. \A i \in 1 .. d : database[i][1] \in Outputs /\ database[i][2] \in Nat /\ database[i][2] <= Top(database[i][1])
  BY <1>1, <1>2, MessageNumbers DEF MongoBound
<1>8. MongoTypes'
  <2>1. \A p \in Outputs : Len(messages_cache'[p]) < CacheMax
    <3>1. Len(<<>>) = 0
      OBVIOUS
    <3> QED
      BY <1>1, <1>2, <1>4, <3>1 DEF MongoTypes
  <2> QED
    BY <1>3, <1>4, <2>1 DEF MongoTypes
<1> HIDE DEF d, k
<1>9. ASSUME NEW i \in 1 .. d + k PROVE i \in 1 .. d \/ (i \in d + 1 .. d + k /\ i - d \in 1 .. k)
  BY <1>2
<1>10. ASSUME NEW i \in 1 .. d + k, NEW j \in 1 .. d + k, i < j, database'[i][1] = database'[j][1]
       PROVE  database'[i][2] < database'[j][2]
  <2>1. CASE i \in 1 .. d /\ j \in 1 .. d
    BY <1>3, <1>6, <1>10, <2>1
  <2>2. CASE i \in 1 .. d /\ j \in d + 1 .. d + k
    <3>1. j - d \in 1 .. k
      BY <1>2, <2>2
    <3>2. database'[j] = s[j - d] /\ database'[i] = database[i] /\ database[i][1] = o
      BY <1>3, <1>5, <1>10, <2>2, <3>1
    <3> QED
      BY <1>5, <2>2, <3>1, <3>2
  <2>3. CASE i \in d + 1 .. d + k /\ j \in d + 1 .. d + k
    <3>1. j - d \in 1 .. k /\ i - d \in 1 .. (j - d) - 1
      BY <1>2, <1>10, <2>3
    <3>2. database'[j] = s[j - d] /\ database'[i] = s[i - d]
      BY <1>3, <2>3
    <3> QED
      BY <1>5, <3>1, <3>2
  <2>4. ~(i \in d + 1 .. d + k /\ j \in 1 .. d)
    BY <1>2, <1>10
  <2> QED
    BY <1>9, <2>1, <2>2, <2>3, <2>4
<1>11. ASSUME NEW p \in Outputs PROVE Batch(messages_cache[p], p)'
  <2>1. CASE p = o
    <3>1. Len(<<>>) = 0
      OBVIOUS
    <3> QED
      BY <1>4, <2>1, <3>1 DEF Batch
  <2>2. CASE p # o
    <3>1. Batch(messages_cache[p], p)
      BY <1>1 DEF MongoOrder
    <3>2. ASSUME NEW j \in 1 .. Len(messages_cache[p]), NEW i \in 1 .. d + k, database'[i][1] = p
          PROVE  database'[i][2] < messages_cache[p][j][2]
      <4>1. CASE i \in 1 .. d
        BY <1>3, <3>1, <3>2, <4>1 DEF Batch, d
      <4>2. CASE i - d \in 1 .. k /\ i \in d + 1 .. d + k
        BY <1>3, <1>5, <2>2, <3>2, <4>2
      <4> QED
        BY <1>9, <4>1, <4>2
    <3> QED
      BY <1>3, <1>4, <2>2, <3>1, <3>2 DEF Batch
  <2> QED
    BY <2>1, <2>2
<1>12. MongoOrder'
  BY <1>3, <1>10, <1>11 DEF MongoOrder
<1>13. ASSUME NEW i \in 1 .. d + k PROVE (database[i][2] <= Top(database[i][1]))'
  <2>1. CASE i \in 1 .. d
    <3>1. PICK p \in Outputs : p = database[i][1]
      BY <1>7, <2>1
    <3>2. database[i][2] \in Nat /\ database[i][2] <= Top(p) /\ database'[i] = database[i] /\ database'[i][1] = p
      BY <1>3, <1>7, <2>1, <3>1
    <3>3. Top(p) \in Int /\ Top(p)' \in Int /\ Top(p) <= Top(p)'
      OBVIOUS
    <3>4. database'[i][2] <= Top(p)'
      BY <3>2, <3>3
    <3> QED
      BY <3>2, <3>4
  <2>2. CASE i - d \in 1 .. k /\ i \in d + 1 .. d + k
    <3>1. database'[i] = s[i - d] /\ s[i - d][1] = o /\ s[i - d][2] <= Top(o)'
      BY <1>3, <1>5, <2>2
    <3>2. database'[i][1] = o /\ database'[i][2] <= Top(o)'
      BY <3>1
    <3> QED
      BY <3>2
  <2> QED
    BY <1>9, <2>1, <2>2
<1>14. ASSUME NEW p \in Outputs, NEW i \in 1 .. Len(messages_cache'[p]) PROVE messages_cache'[p][i][2] <= Top(p)'
  <2>1. p # o
    BY <1>4
  <2>2. messages_cache'[p] = messages_cache[p] /\ messages_cache[p] \in Seq(Messages) /\ i \in 1 .. Len(messages_cache[p])
    BY <1>1, <1>4, <2>1 DEF MongoTypes
  <2>3. messages_cache[p][i][2] \in Nat /\ messages_cache[p][i][2] <= Top(p)
    BY <1>1, <2>2, MessageNumbers DEF MongoBound
  <2>4. Top(p) \in Int /\ Top(p)' \in Int /\ Top(p) <= Top(p)'
    OBVIOUS
  <2> QED
    BY <2>2, <2>3, <2>4
<1>15. MongoBound'
  BY <1>3, <1>13, <1>14 DEF MongoBound
<1> QED
  BY <1>8, <1>12, <1>15 DEF MongoInv

\* The next message of an output makes its cache a longer batch.
LEMMA AppendBatch ==
    ASSUME MongoInv, NEW o \in Outputs, NEW w \in Nat, Top(o) = w - 1
    PROVE  LET s == Append(messages_cache[o], <<o, w>>)
           IN  s \in Seq(Messages) /\ Batch(s, o) /\ \A j \in 1 .. Len(s) : s[j][2] <= w
<1> DEFINE c == messages_cache[o]
           n == Len(c)
           s == Append(c, <<o, w>>)
<1>1. MongoTypes /\ MongoOrder /\ MongoBound
  BY DEF MongoInv
<1>2. c \in Seq(Messages) /\ n \in Nat /\ <<o, w>> \in Messages /\ database \in Seq(Messages)
  BY <1>1 DEF MongoTypes, Messages
<1>3. /\ s \in Seq(Messages) /\ Len(s) = n + 1 /\ s[n + 1] = <<o, w>>
      /\ \A i \in 1 .. n : s[i] = c[i]
  BY <1>2
<1>4. \A j \in 1 .. n : /\ c[j][1] = o
                        /\ \A i \in 1 .. j - 1 : c[i][2] < c[j][2]
                        /\ \A i \in 1 .. Len(database) : database[i][1] = o => database[i][2] < c[j][2]
  BY <1>1 DEF MongoOrder, Batch
<1>5. \A j \in 1 .. n : c[j][2] < w /\ c[j][2] <= w
  <2> SUFFICES ASSUME NEW j \in 1 .. n PROVE c[j][2] < w /\ c[j][2] <= w
    OBVIOUS
  <2>1. c[j][2] \in Nat /\ c[j][2] <= Top(o)
    BY <1>1, <1>2, MessageNumbers DEF MongoBound
  <2> QED
    BY <2>1
<1>6. ASSUME NEW i \in 1 .. Len(database), database[i][1] = o PROVE database[i][2] < w
  <2>1. database[i][2] \in Nat /\ database[i][2] <= Top(o)
    BY <1>1, <1>2, <1>6, MessageNumbers DEF MongoBound
  <2> QED
    BY <2>1
<1> HIDE DEF c, n, s
<1>7. ASSUME NEW j \in 1 .. n + 1
      PROVE  /\ s[j][1] = o /\ s[j][2] <= w
             /\ \A i \in 1 .. j - 1 : s[i][2] < s[j][2]
             /\ \A i \in 1 .. Len(database) : database[i][1] = o => database[i][2] < s[j][2]
  <2>1. CASE j \in 1 .. n
    <3>1. \A i \in 1 .. j - 1 : i \in 1 .. n
      BY <1>2, <2>1
    <3> QED
      BY <1>3, <1>4, <1>5, <2>1, <3>1
  <2>2. CASE j = n + 1
    <3>1. s[j][1] = o /\ s[j][2] = w /\ w <= w
      BY <1>3, <2>2
    <3>2. \A i \in 1 .. j - 1 : i \in 1 .. n
      BY <1>2, <2>2
    <3> QED
      BY <1>3, <1>5, <1>6, <3>1, <3>2
  <2> QED
    BY <1>2, <2>1, <2>2
<1>8. Batch(s, o) /\ \A j \in 1 .. Len(s) : s[j][2] <= w
  BY <1>3, <1>7 DEF Batch
<1> QED
  BY <1>3, <1>8 DEF s, c

\* A message joins the cache.
LEMMA MongoCached ==
    ASSUME MongoInv, NEW o \in Outputs, NEW w \in Nat, Top(o) = w - 1, Top(o)' = w, UNCHANGED database,
           messages_cache' = [messages_cache EXCEPT ![o] = Append(messages_cache[o], <<o, w>>)],
           Len(Append(messages_cache[o], <<o, w>>)) < CacheMax,
           \A p \in Outputs : Top(p) \in Int /\ Top(p)' \in Int /\ Top(p) <= Top(p)'
    PROVE  MongoInv'
<1> DEFINE s == Append(messages_cache[o], <<o, w>>)
<1>1. MongoTypes /\ MongoOrder /\ MongoBound
  BY DEF MongoInv
<1>2. s \in Seq(Messages) /\ Batch(s, o) /\ \A j \in 1 .. Len(s) : s[j][2] <= w
  BY AppendBatch
<1>3. Len(s) < CacheMax /\ messages_cache' = [messages_cache EXCEPT ![o] = s]
  OBVIOUS
<1> HIDE DEF s
<1>4. /\ messages_cache' \in [Outputs -> Seq(Messages)] /\ messages_cache'[o] = s
      /\ \A p \in Outputs : p # o => messages_cache'[p] = messages_cache[p]
  BY <1>1, <1>2, <1>3 DEF MongoTypes
<1>5. MongoTypes'
  BY <1>1, <1>3, <1>4 DEF MongoTypes
<1>6. ASSUME NEW p \in Outputs PROVE Batch(messages_cache[p], p)'
  <2>1. CASE p = o
    BY <1>2, <1>4, <2>1 DEF Batch
  <2>2. CASE p # o
    <3>1. Batch(messages_cache[p], p) /\ messages_cache'[p] = messages_cache[p]
      BY <1>1, <1>4, <2>2 DEF MongoOrder
    <3> QED
      BY <3>1 DEF Batch
  <2> QED
    BY <2>1, <2>2
<1>7. MongoOrder'
  BY <1>1, <1>6 DEF MongoOrder
<1>8. ASSUME NEW i \in 1 .. Len(database) PROVE (database[i][2] <= Top(database[i][1]))'
  <2>1. PICK p \in Outputs : p = database[i][1]
    BY <1>1, MessageNumbers DEF MongoTypes
  <2>2. database[i][2] \in Nat /\ database[i][2] <= Top(p)
    BY <1>1, <2>1, MessageNumbers DEF MongoTypes, MongoBound
  <2>3. Top(p) \in Int /\ Top(p)' \in Int /\ Top(p) <= Top(p)'
    OBVIOUS
  <2>4. database[i][2] <= Top(p)'
    BY <2>2, <2>3
  <2> QED
    BY <2>1, <2>4
<1>9. ASSUME NEW p \in Outputs, NEW i \in 1 .. Len(messages_cache'[p]) PROVE messages_cache'[p][i][2] <= Top(p)'
  <2>1. CASE p = o
    BY <1>2, <1>4, <2>1
  <2>2. CASE p # o
    <3>1. messages_cache'[p] = messages_cache[p] /\ messages_cache[p] \in Seq(Messages)
          /\ i \in 1 .. Len(messages_cache[p])
      BY <1>1, <1>4, <2>2 DEF MongoTypes
    <3>2. messages_cache[p][i][2] \in Nat /\ messages_cache[p][i][2] <= Top(p)
      BY <1>1, <3>1, MessageNumbers DEF MongoBound
    <3>3. Top(p) \in Int /\ Top(p)' \in Int /\ Top(p) <= Top(p)'
      OBVIOUS
    <3> QED
      BY <3>1, <3>2, <3>3
  <2> QED
    BY <2>1, <2>2
<1>10. MongoBound'
  BY <1>8, <1>9 DEF MongoBound
<1> QED
  BY <1>5, <1>7, <1>10 DEF MongoInv

\* A thread that writes to MongoDB is the only one inside _write for its output.
LEMMA MongoTop ==
    ASSUME ControlInv, [Next]_vars, NEW t \in Threads, WriteMongo(t)
    PROVE  LET o == OutputOf(t)
           IN  /\ o \in Outputs /\ written[o] \in Nat /\ msg[t] = <<o, written[o]>>
               /\ Top(o) = written[o] - 1 /\ Top(o)' = written[o]
<1> DEFINE o == OutputOf(t)
<1>1. /\ ControlTypes /\ SectionInv /\ SectionInv' /\ ControlTypes' /\ o \in Outputs
  BY ControlStep, OutputOfThreads DEF ControlInv
<1>2. call[t] = "mongodb" /\ written' = written /\ call' = [call EXCEPT ![t] = NextChannel("mongodb")]
  BY DEF WriteMongo, AfterChannel, Goes
<1>3. msg[t] = <<o, written[o]>> /\ written[o] \in Nat /\ Ahead(t) /\ Writing(t)
  BY <1>1, <1>2 DEF SectionInv, Writing, Writes, Ahead, ControlTypes
<1>4. Top(o) = written[o] - 1
  BY <1>3 DEF Top
<1>5. ASSUME NEW u \in Threads, OutputOf(u) = o, Ahead(u)' PROVE FALSE
  <2>1. u # t
    <3>1. call'[t] \in {"socket", "unlock"}
      BY <1>1, <1>2, NextChannels DEF ControlTypes
    <3> QED
      BY <1>5, <3>1 DEF Ahead
  <2>2. Ahead(u) /\ o = 0
    BY <1>1, <1>2, <1>5, <2>1, OutputOfThreads DEF Ahead, ControlTypes
  <2>3. Writing(u)
    BY <2>2 DEF Ahead, Writing, Writes
  <2> QED
    BY <1>1, <1>3, <1>5, <2>1, <2>2, <2>3 DEF SectionInv
<1>6. Top(o)' = written[o]
  <2>1. ~ \E u \in Threads : Ahead(u)' /\ OutputOf(u) = o
    BY <1>5
  <2> QED
    BY <1>2, <2>1 DEF Top
<1> QED
  BY <1>1, <1>3, <1>4, <1>6

\* What a step does to MongoDB's cache and collection.
MongoFlushes(o) == MongoInsert(messages_cache[o]) /\ messages_cache' = [messages_cache EXCEPT ![o] = <<>>]

\* Every step leaves the cache and the collection alone, or is one of the steps on them.
LEMMA MongoProjection ==
    [Next]_vars => \/ UNCHANGED <<messages_cache, database, mongo_lost>>
                   \/ \E t \in Threads : WriteMongo(t)
                   \/ /\ \E o \in Outputs : MongoFlushes(o)
                      /\ \/ \E t \in Threads : FlushMongo(t)
                         \/ ReleaseWorker \/ ReleaseMain
                   \/ /\ \E o \in Outputs : messages_cache' = [messages_cache EXCEPT ![o] = <<>>]
                      /\ UNCHANGED <<database, mongo_lost>>
                      /\ \/ StartMain
                         \/ StartWorker /\ messages_cache' = [messages_cache EXCEPT ![1] = <<>>]
                   \/ Crash
<1> SUFFICES ASSUME [Next]_vars
             PROVE  \/ UNCHANGED <<messages_cache, database, mongo_lost>>
                    \/ \E t \in Threads : WriteMongo(t)
                    \/ /\ \E o \in Outputs : MongoFlushes(o)
                       /\ \/ \E t \in Threads : FlushMongo(t)
                          \/ ReleaseWorker \/ ReleaseMain
                    \/ /\ \E o \in Outputs : messages_cache' = [messages_cache EXCEPT ![o] = <<>>]
                       /\ UNCHANGED <<database, mongo_lost>>
                       /\ \/ StartMain
                          \/ StartWorker /\ messages_cache' = [messages_cache EXCEPT ![1] = <<>>]
                    \/ Crash
  OBVIOUS
<1>1. 0 \in Outputs /\ 1 \in Outputs /\ \A t \in Threads : OutputOf(t) \in Outputs
  BY OutputOfThreads
<1>2. ASSUME NEW t \in Threads, WriteStep(t) PROVE UNCHANGED <<messages_cache, database, mongo_lost>> \/ WriteMongo(t)
  BY <1>2 DEF WriteStep, WriteFile, WriteKafka, WriteRedis, WriteSocket, mongo_vars, bvars
<1>3. ASSUME NEW t \in Threads, EndReport(t) \/ FlushFile(t) \/ FlushSkipped(t) \/ WriteReport(t)
      PROVE  UNCHANGED <<messages_cache, database, mongo_lost>>
  BY <1>3 DEF EndReport, FlushFile, FlushSkipped, WriteReport, bvars
<1>4. ASSUME NEW t \in Threads, FlushMongo(t)
      PROVE  UNCHANGED <<messages_cache, database, mongo_lost>> \/ \E o \in Outputs : MongoFlushes(o)
  BY <1>1, <1>4 DEF FlushMongo, MongoFlush, MongoFlushes, mongo_vars
<1>5. CASE ReleaseWorker \/ ReleaseMain
  <2>1. \E o \in Outputs : ReleaseOutput(o)
    BY <1>1, <1>5 DEF ReleaseWorker, ReleaseMain
  <2>2. UNCHANGED <<messages_cache, database, mongo_lost>> \/ \E o \in Outputs : MongoFlushes(o)
    BY <2>1 DEF ReleaseOutput, MongoRelease, MongoFlushes, mongo_vars
  <2> QED
    BY <1>5, <2>2
<1>6. CASE StartMain
  <2>1. OutputAllocInit(0)
    BY <1>6 DEF StartMain
  <2> QED
    BY <1>1, <1>6, <2>1 DEF OutputAllocInit, MongoInit, mongo_vars
<1>7. CASE StartWorker
  <2>1. OutputAllocInit(1)
    BY <1>7 DEF StartWorker
  <2> QED
    BY <1>1, <1>7, <2>1 DEF OutputAllocInit, MongoInit, mongo_vars
<1>8. CASE StatsStep \/ Stop \/ ReleaseRedis \/ CancelStats \/ Exit \/ (\E o \in Outputs : InFile(o) \/ Broker(o))
           \/ RedisReader \/ RedisServer \/ RedisFault \/ UNCHANGED vars
  BY <1>8 DEF StatsStep, StatsTick, StatsFormat, StatsCheckFlush, Stop, ReleaseRedis, CancelStats, Exit, InFile, Broker,
     RedisReader, RedisServer, RedisFault, mongo_vars, bvars, vars
<1> QED
  BY <1>2, <1>3, <1>4, <1>5, <1>6, <1>7, <1>8, StepCases

\* MongoDB gets the reports of an output in order.
LEMMA MongoStep == ControlInv /\ MongoInv /\ [Next]_vars => MongoInv'
<1> SUFFICES ASSUME ControlInv, MongoInv, [Next]_vars PROVE MongoInv'
  OBVIOUS
<1>1. MongoTypes /\ MongoOrder /\ MongoBound
  BY DEF MongoInv
<1>2. \A p \in Outputs : Top(p) \in Int /\ Top(p)' \in Int /\ Top(p) <= Top(p)'
  BY TopStep
<1>3. <<>> \in Seq(Messages)
  OBVIOUS
<1>4. ASSUME NEW o \in Outputs, messages_cache' = [messages_cache EXCEPT ![o] = <<>>]
      PROVE  /\ messages_cache' \in [Outputs -> Seq(Messages)]
             /\ \A p \in Outputs : messages_cache'[p] \in {messages_cache[p], <<>>}
  BY <1>1, <1>3, <1>4 DEF MongoTypes
<1>5. CASE UNCHANGED <<messages_cache, database, mongo_lost>>
  <2>1. /\ messages_cache' \in [Outputs -> Seq(Messages)]
        /\ \A p \in Outputs : messages_cache'[p] \in {messages_cache[p], <<>>}
    BY <1>1, <1>5 DEF MongoTypes
  <2> QED
    BY <1>2, <1>5, <2>1, MongoDropped
<1>6. ASSUME NEW o \in Outputs, UNCHANGED database, messages_cache' = [messages_cache EXCEPT ![o] = <<>>]
      PROVE  MongoInv'
  BY <1>2, <1>4, <1>6, MongoDropped
<1>7. ASSUME NEW o \in Outputs, MongoFlushes(o) PROVE MongoInv'
  <2> DEFINE s == messages_cache[o]
  <2>1. /\ database' = database \/ database' = database \o s
        /\ messages_cache' = [messages_cache EXCEPT ![o] = <<>>]
    BY <1>7 DEF MongoFlushes, MongoInsert
  <2>2. s \in Seq(Messages) /\ Batch(s, o)
    BY <1>1 DEF MongoTypes, MongoOrder
  <2>3. ASSUME NEW j \in 1 .. Len(s) PROVE s[j][2] <= Top(o)'
    <3>1. s[j][2] \in Nat /\ s[j][2] <= Top(o)
      BY <1>1, <2>2, MessageNumbers DEF MongoBound
    <3>2. Top(o) \in Int /\ Top(o)' \in Int /\ Top(o) <= Top(o)'
      BY <1>2
    <3> QED
      BY <3>1, <3>2
  <2> HIDE DEF s
  <2>4. CASE database' = database
    BY <1>6, <2>1, <2>4
  <2>5. CASE database' = database \o s
    BY <1>2, <2>1, <2>2, <2>3, <2>5, MongoInserted
  <2> QED
    BY <2>1, <2>4, <2>5
<1>8. ASSUME NEW t \in Threads, WriteMongo(t) PROVE MongoInv'
  <2>1. PICK o \in Outputs : o = OutputOf(t)
    BY <1>8, MongoTop
  <2>2. PICK w \in Nat : w = written[o]
    BY <1>8, <2>1, MongoTop
  <2>3. msg[t] = <<o, w>> /\ Top(o) = w - 1 /\ Top(o)' = w
    BY <1>8, <2>1, <2>2, MongoTop
  <2>4. PICK s : s = Append(messages_cache[o], <<o, w>>)
    OBVIOUS
  <2>5. s \in Seq(Messages) /\ Batch(s, o) /\ \A j \in 1 .. Len(s) : s[j][2] <= Top(o)'
    BY <2>3, <2>4, AppendBatch
  <2>6. \/ UNCHANGED <<messages_cache, database>>
        \/ Len(s) < CacheMax /\ messages_cache' = [messages_cache EXCEPT ![o] = s] /\ database' = database
        \/ /\ messages_cache' = [messages_cache EXCEPT ![o] = <<>>]
           /\ database' = database \/ database' = database \o s
    BY <1>8, <2>1, <2>3, <2>4 DEF WriteMongo, MongoWrite, MongoInsert
  <2>7. CASE UNCHANGED <<messages_cache, database>>
    <3>1. /\ messages_cache' \in [Outputs -> Seq(Messages)]
          /\ \A p \in Outputs : messages_cache'[p] \in {messages_cache[p], <<>>}
      BY <1>1, <2>7 DEF MongoTypes
    <3> QED
      BY <1>2, <2>7, <3>1, MongoDropped
  <2>8. CASE Len(s) < CacheMax /\ messages_cache' = [messages_cache EXCEPT ![o] = s] /\ database' = database
    BY <1>2, <2>3, <2>4, <2>8, MongoCached
  <2>9. CASE messages_cache' = [messages_cache EXCEPT ![o] = <<>>] /\ database' = database
    BY <1>6, <2>9
  <2>10. CASE messages_cache' = [messages_cache EXCEPT ![o] = <<>>] /\ database' = database \o s
    BY <1>2, <2>5, <2>10, MongoInserted
  <2> QED
    BY <2>6, <2>7, <2>8, <2>9, <2>10
<1>9. CASE Crash
  <2>1. database' = database /\ messages_cache' = [o \in Outputs |-> <<>>]
    BY <1>9, OutputAssumptions DEF Crash, BrokerCrash
  <2>2. /\ messages_cache' \in [Outputs -> Seq(Messages)]
        /\ \A p \in Outputs : messages_cache'[p] \in {messages_cache[p], <<>>}
    BY <1>3, <2>1
  <2> QED
    BY <1>2, <2>1, <2>2, MongoDropped
<1> QED
  BY <1>5, <1>6, <1>7, <1>8, <1>9, MongoProjection

\* A batch that was in the cache of an output is in the collection or given up.
LEMMA KeptInserted ==
    ASSUME MongoTypes, NEW s \in Seq(Messages), MongoInsert(s), NEW m,
           m \in mongo_lost \/ (\E i \in 1 .. Len(s) : s[i] = m) \/ (\E i \in 1 .. Len(database) : database[i] = m)
    PROVE  m \in mongo_lost' \/ \E i \in 1 .. Len(database') : database'[i] = m
<1>1. database \in Seq(Messages) /\ Len(s) \in Nat /\ Len(database) \in Nat
  BY DEF MongoTypes
<1>2. CASE database' = database \o s /\ mongo_lost' = mongo_lost
  <2>1. ASSUME NEW i \in 1 .. Len(s)
        PROVE  Len(database) + i \in 1 .. Len(database') /\ database'[Len(database) + i] = s[i]
    BY <1>1, <1>2
  <2>2. ASSUME NEW i \in 1 .. Len(database) PROVE i \in 1 .. Len(database') /\ database'[i] = database[i]
    BY <1>1, <1>2
  <2> QED
    BY <1>2, <2>1, <2>2
<1>3. CASE database' = database /\ mongo_lost' = mongo_lost \cup {s[i] : i \in DOMAIN s}
  <2>1. DOMAIN s = 1 .. Len(s)
    OBVIOUS
  <2> QED
    BY <1>3, <2>1
<1> QED
  BY <1>2, <1>3 DEF MongoInsert

\* A flush keeps every message.
LEMMA KeptFlushed ==
    ASSUME MongoTypes, NEW o \in Outputs, MongoFlushes(o), NEW m, Kept(m)
    PROVE  Kept(m)'
<1>1. messages_cache[o] \in Seq(Messages) /\ MongoInsert(messages_cache[o])
  BY DEF MongoTypes, MongoFlushes
<1>2. \A p \in Outputs : p # o => messages_cache'[p] = messages_cache[p]
  BY DEF MongoTypes, MongoFlushes
<1>3. CASE \E p \in Outputs : p # o /\ \E i \in 1 .. Len(messages_cache[p]) : messages_cache[p][i] = m
  BY <1>2, <1>3 DEF Kept
<1>4. CASE \/ m \in mongo_lost \/ (\E i \in 1 .. Len(database) : database[i] = m)
           \/ \E i \in 1 .. Len(messages_cache[o]) : messages_cache[o][i] = m
  BY <1>1, <1>4, KeptInserted DEF Kept
<1> QED
  BY <1>3, <1>4 DEF Kept

\* mongodb_output_write keeps every message, the new one too.
LEMMA KeptWritten ==
    ASSUME MongoTypes, NEW o \in Outputs, NEW w \in Nat, MongoWrite(o, <<o, w>>), NEW m, Kept(m) \/ m = <<o, w>>
    PROVE  Kept(m)'
<1> DEFINE c == messages_cache[o]
           s == Append(c, <<o, w>>)
<1>1. c \in Seq(Messages) /\ <<o, w>> \in Messages
  BY DEF MongoTypes, Messages
<1>2. /\ s \in Seq(Messages) /\ Len(s) = Len(c) + 1 /\ s[Len(c) + 1] = <<o, w>> /\ Len(c) \in Nat
      /\ \A i \in 1 .. Len(c) : s[i] = c[i]
  BY <1>1
<1>3. /\ Len(c) + 1 \in 1 .. Len(s)
      /\ \A i \in 1 .. Len(c) : i \in 1 .. Len(s)
  BY <1>2
<1>4. (\E i \in 1 .. Len(c) : c[i] = m) \/ m = <<o, w>> => \E i \in 1 .. Len(s) : s[i] = m
  BY <1>2, <1>3
<1>5. \/ mongo_lost' = mongo_lost \cup {<<o, w>>} /\ UNCHANGED <<messages_cache, database>>
      \/ messages_cache' = [messages_cache EXCEPT ![o] = s] /\ UNCHANGED <<database, mongo_lost>>
      \/ MongoInsert(s) /\ messages_cache' = [messages_cache EXCEPT ![o] = <<>>]
  BY DEF MongoWrite
<1>6. messages_cache' = messages_cache \/ \A p \in Outputs : p # o => messages_cache'[p] = messages_cache[p]
  BY <1>5 DEF MongoTypes
<1>7. messages_cache' = [messages_cache EXCEPT ![o] = s] => messages_cache'[o] = s
  BY DEF MongoTypes
<1> HIDE DEF c, s
<1>8. CASE mongo_lost' = mongo_lost \cup {<<o, w>>} /\ UNCHANGED <<messages_cache, database>>
  BY <1>8 DEF Kept
<1>9. CASE messages_cache' = [messages_cache EXCEPT ![o] = s] /\ UNCHANGED <<database, mongo_lost>>
  <2>1. CASE \E i \in 1 .. Len(s) : s[i] = m
    BY <1>7, <1>9, <2>1 DEF Kept
  <2>2. CASE \E p \in Outputs : p # o /\ \E i \in 1 .. Len(messages_cache[p]) : messages_cache[p][i] = m
    BY <1>6, <2>2 DEF Kept
  <2>3. CASE m \in mongo_lost \/ \E i \in 1 .. Len(database) : database[i] = m
    BY <1>9, <2>3 DEF Kept
  <2> QED
    BY <1>4, <2>1, <2>2, <2>3 DEF Kept, c
<1>10. CASE MongoInsert(s) /\ messages_cache' = [messages_cache EXCEPT ![o] = <<>>]
  <2>1. CASE \E p \in Outputs : p # o /\ \E i \in 1 .. Len(messages_cache[p]) : messages_cache[p][i] = m
    BY <1>6, <2>1 DEF Kept
  <2>2. CASE m \in mongo_lost \/ (\E i \in 1 .. Len(s) : s[i] = m) \/ \E i \in 1 .. Len(database) : database[i] = m
    BY <1>2, <1>10, <2>2, KeptInserted DEF Kept
  <2> QED
    BY <1>4, <2>1, <2>2 DEF Kept, c
<1> QED
  BY <1>5, <1>8, <1>9, <1>10

\* No step but a start or a crash forgets a message.
LEMMA KeptStep ==
    ASSUME ControlInv, MongoInv, [Next]_vars, ~(StartMain \/ StartWorker \/ Crash)
    PROVE  \A m : Kept(m) => Kept(m)'
<1>1. MongoTypes
  BY DEF MongoInv
<1>2. CASE UNCHANGED <<messages_cache, database, mongo_lost>>
  BY <1>2 DEF Kept
<1>3. ASSUME NEW t \in Threads, WriteMongo(t), NEW m, Kept(m) PROVE Kept(m)'
  <2>1. PICK o \in Outputs, w \in Nat : msg[t] = <<o, w>> /\ o = OutputOf(t)
    BY <1>3, MongoTop
  <2>2. MongoWrite(o, <<o, w>>)
    BY <1>3, <2>1 DEF WriteMongo
  <2> QED
    BY <1>1, <1>3, <2>2, KeptWritten
<1>4. ASSUME NEW o \in Outputs, MongoFlushes(o), NEW m, Kept(m) PROVE Kept(m)'
  BY <1>1, <1>4, KeptFlushed
<1> QED
  BY <1>2, <1>3, <1>4, MongoProjection

\* The start of the worker forgets nothing but its own empty cache.
LEMMA KeptStart ==
    ASSUME MongoInv, StartWorker, NEW m, Kept(m), m[1] = 1 => written[1] = 0 /\ m[2] > 0
    PROVE  Kept(m)'
<1>1. /\ messages_cache' = messages_cache \/ messages_cache' = [messages_cache EXCEPT ![1] = <<>>]
      /\ UNCHANGED <<database, mongo_lost>>
  BY DEF StartWorker, OutputAllocInit, MongoInit, mongo_vars
<1>2. 1 \in Outputs /\ MongoTypes /\ MongoOrder /\ MongoBound
  BY OutputOfThreads DEF MongoInv
<1>3. \A p \in Outputs : p # 1 => messages_cache'[p] = messages_cache[p]
  BY <1>1, <1>2 DEF MongoTypes
<1>4. ASSUME NEW i \in 1 .. Len(messages_cache[1]), messages_cache[1][i] = m PROVE FALSE
  <2>1. m[1] = 1 /\ m[2] \in Nat
    <3>1. messages_cache[1] \in Seq(Messages) /\ Batch(messages_cache[1], 1)
      BY <1>2 DEF MongoTypes, MongoOrder
    <3> QED
      BY <1>4, <3>1, MessageNumbers DEF Batch
  <2>2. m[2] <= Top(1) /\ Top(1) \in {written[1], written[1] - 1}
    BY <1>2, <1>4 DEF MongoBound, Top
  <2> QED
    BY <2>1, <2>2
<1>5. CASE \E p \in Outputs : p # 1 /\ \E i \in 1 .. Len(messages_cache[p]) : messages_cache[p][i] = m
  BY <1>3, <1>5 DEF Kept
<1>6. CASE m \in mongo_lost \/ \E i \in 1 .. Len(database) : database[i] = m
  BY <1>1, <1>6 DEF Kept
<1> QED
  BY <1>4, <1>5, <1>6 DEF Kept

\* A message is set by its report and cleared at the end of it.
LEMMA MsgStep ==
    ASSUME ControlInv, [Next]_vars, ~Crash
    PROVE  /\ UNCHANGED <<channels, crashes>>
           /\ \/ UNCHANGED <<msg, written>>
              \/ \E t \in Threads : /\ EndReport(t) /\ call[t] = "unlock"
                                    /\ msg' = [msg EXCEPT ![t] = NoMsg] /\ written' = written
              \/ \E t \in Threads : /\ call[t] \in {"idle", "report"}
                                    /\ WriteReport(t)
                                    /\ msg' = [msg EXCEPT ![t] = <<OutputOf(t), written[OutputOf(t)] + 1>>]
                                    /\ written' = [written EXCEPT ![OutputOf(t)] = @ + 1]
<1>1. ASSUME NEW t \in Threads, WriteReport(t)
      PROVE  /\ UNCHANGED <<channels, crashes>>
             /\ msg' = [msg EXCEPT ![t] = <<OutputOf(t), written[OutputOf(t)] + 1>>]
             /\ written' = [written EXCEPT ![OutputOf(t)] = @ + 1]
  BY <1>1 DEF WriteReport
<1>2. ASSUME NEW t \in Threads, WriteStep(t) \/ FlushFile(t) \/ FlushSkipped(t) \/ FlushMongo(t)
      PROVE  UNCHANGED <<msg, written, channels, crashes>>
  BY <1>2 DEF WriteStep, WriteFile, WriteKafka, WriteRedis, WriteMongo, WriteSocket, FlushFile, FlushSkipped, FlushMongo
<1>3. ASSUME NEW t \in Threads, EndReport(t)
      PROVE  /\ UNCHANGED <<channels, crashes>>
             /\ call[t] = "unlock" /\ msg' = [msg EXCEPT ![t] = NoMsg] /\ written' = written
  BY <1>3 DEF EndReport
<1>4. CASE StatsStep \/ StartMain \/ StartWorker \/ Stop \/ ReleaseRedis \/ ReleaseWorker \/ CancelStats \/ ReleaseMain
           \/ Exit
  BY <1>4 DEF StatsStep, StatsTick, StatsFormat, StatsCheckFlush, StartMain, StartWorker, Stop, ReleaseRedis,
     ReleaseWorker, CancelStats, ReleaseMain, Exit, ovars
<1>5. CASE (\E o \in Outputs : InFile(o) \/ Broker(o)) \/ RedisReader \/ RedisServer \/ RedisFault \/ UNCHANGED vars
  BY <1>5 DEF InFile, Broker, RedisReader, RedisServer, RedisFault, ovars, vars
<1> QED
  BY <1>1, <1>2, <1>3, <1>4, <1>5, StepCases

\* The worker has not started, or it had not before.
LEMMA BeforeStep ==
    ASSUME ControlInv, [Next]_vars, ~Crash
    PROVE  /\ phase' = "start" => phase = "start"
           /\ phase' = "run" /\ call'["worker"] = "off" => phase = "start" \/ (phase = "run" /\ call["worker"] = "off")
<1>1. ControlTypes /\ "worker" \in Threads
  BY DEF ControlInv, Threads
<1>2. ASSUME NEW t \in Threads, \/ WriteStep(t) \/ EndReport(t) \/ FlushFile(t) \/ FlushSkipped(t) \/ FlushMongo(t)
                                \/ WriteReport(t)
      PROVE  phase' = phase /\ (call'["worker"] = "off" => call["worker"] = "off")
  <2>1. phase' = phase
    BY <1>2 DEF WriteStep, WriteFile, WriteKafka, WriteRedis, WriteMongo, WriteSocket, EndReport, FlushFile,
       FlushSkipped, FlushMongo, WriteReport
  <2>2. \A c \in Writes \cup {"first"} : NextChannel(c) # "off"
    BY NextChannels DEF Writes
  <2>3. call' = call \/ \E c : c # "off" /\ call' = [call EXCEPT ![t] = c]
    <3>1. CASE WriteStep(t)
      BY <2>2, <3>1, WriteStepIs
    <3>2. CASE WriteReport(t)
      BY <2>2, <3>2 DEF WriteReport, AfterChannel, Goes
    <3>3. CASE EndReport(t) \/ FlushFile(t) \/ FlushSkipped(t) \/ FlushMongo(t)
      <4>1. \E c \in {"flush", "check", "idle", "flush_mongodb"} : call' = [call EXCEPT ![t] = c]
        BY <3>3 DEF EndReport, FlushFile, FlushSkipped, FlushMongo, Goes
      <4> QED
        BY <4>1
    <3> QED
      BY <1>2, <3>1, <3>2, <3>3
  <2> QED
    BY <1>1, <2>1, <2>3 DEF ControlTypes
<1>3. CASE StatsStep
  <2>1. phase' = phase
    BY <1>3 DEF StatsStep, StatsTick, StatsFormat, StatsCheckFlush
  <2>2. call' = call \/ \E c \in {"format", "check", "report", "flush", "idle"} : call' = [call EXCEPT !["stats"] = c]
    BY <1>3 DEF StatsStep, StatsTick, StatsFormat, StatsCheckFlush, Goes
  <2> QED
    BY <1>1, <2>1, <2>2 DEF ControlTypes
<1>4. CASE StartMain \/ Stop \/ ReleaseWorker \/ CancelStats \/ ReleaseMain \/ Exit
  BY <1>4 DEF StartMain, Stop, ReleaseWorker, CancelStats, ReleaseMain, Exit
<1>5. CASE StartWorker
  BY <1>5 DEF StartWorker
<1>6. CASE ReleaseRedis \/ (\E o \in Outputs : InFile(o) \/ Broker(o)) \/ RedisReader \/ RedisServer \/ RedisFault
           \/ UNCHANGED vars
  BY <1>6 DEF ReleaseRedis, InFile, Broker, RedisReader, RedisServer, RedisFault, ovars, vars
<1> QED
  BY <1>2, <1>3, <1>4, <1>5, <1>6, StepCases

\* A message is past MongoDB only after mongodb_output_write.
LEMMA PastStep ==
    ASSUME ControlInv, [Next]_vars, "mongodb" \in channels, NEW t \in Threads, call'[t] \in {"socket", "unlock"}
    PROVE  /\ msg'[t] = msg[t]
           /\ call[t] \in {"socket", "unlock"} \/ WriteMongo(t)
<1> DEFINE P == {"socket", "unlock"}
<1>1. ControlTypes
  BY DEF ControlInv
<1>2. ASSUME NEW u \in Threads, NEW c, call' = [call EXCEPT ![u] = c], c \notin P PROVE call[t] \in P /\ u # t
  BY <1>1, <1>2 DEF ControlTypes
<1>3. ASSUME NEW u \in Threads, WriteStep(u) PROVE msg'[t] = msg[t] /\ (call[t] \in P \/ WriteMongo(t))
  <2>1. msg' = msg
    BY <1>3, WriteStepIs DEF WriteStep, WriteFile, WriteKafka, WriteRedis, WriteMongo, WriteSocket
  <2>2. call' = call \/ call' = [call EXCEPT ![u] = NextChannel(call[u])]
    BY <1>3, WriteStepIs
  <2>3. CASE call' = call \/ u # t
    BY <1>1, <2>1, <2>2, <2>3 DEF ControlTypes
  <2>4. CASE call' # call /\ u = t
    <3>1. call[t] \in {"mongodb", "socket"}
      BY <1>3, <2>2, <2>4, <1>2, NextChannels, WriteStepIs DEF Writes
    <3> QED
      BY <1>3, <2>1, <2>4, <3>1 DEF WriteStep, WriteFile, WriteKafka, WriteRedis, WriteSocket
  <2> QED
    BY <2>3, <2>4
<1>4. ASSUME NEW u \in Threads, WriteReport(u) PROVE msg'[t] = msg[t] /\ call[t] \in P
  <2>1. /\ call' = [call EXCEPT ![u] = NextChannel("first")]
        /\ \E m : msg' = [msg EXCEPT ![u] = m]
    BY <1>4 DEF WriteReport, AfterChannel, Goes
  <2>2. call[t] \in P /\ u # t
    BY <1>2, <2>1, NextChannels
  <2> QED
    BY <1>1, <2>1, <2>2 DEF ControlTypes
<1>5. ASSUME NEW u \in Threads, EndReport(u) \/ FlushFile(u) \/ FlushSkipped(u) \/ FlushMongo(u)
      PROVE  msg'[t] = msg[t] /\ call[t] \in P
  <2>1. \E c \in {"flush", "check", "idle", "flush_mongodb"} : call' = [call EXCEPT ![u] = c]
    BY <1>5 DEF EndReport, FlushFile, FlushSkipped, FlushMongo, Goes
  <2>2. call[t] \in P /\ u # t
    BY <1>2, <2>1
  <2>3. msg' = msg \/ msg' = [msg EXCEPT ![u] = NoMsg]
    BY <1>5 DEF EndReport, FlushFile, FlushSkipped, FlushMongo
  <2> QED
    BY <1>1, <2>2, <2>3 DEF ControlTypes
<1>6. CASE StatsStep
  <2>1. call' = call \/ \E c \in {"format", "check", "report", "flush", "idle"} : call' = [call EXCEPT !["stats"] = c]
    BY <1>6 DEF StatsStep, StatsTick, StatsFormat, StatsCheckFlush, Goes
  <2>2. "stats" \in Threads /\ msg' = msg
    BY <1>6 DEF Threads, StatsStep, StatsTick, StatsFormat, StatsCheckFlush
  <2> QED
    BY <1>2, <2>1, <2>2
<1>7. CASE StartMain
  <2>1. msg' = msg /\ \E c \in {"idle", "dead"} : call' = [call EXCEPT !["main"] = "idle", !["stats"] = c]
    BY <1>7 DEF StartMain, StartStats
  <2> QED
    BY <1>1, <2>1 DEF ControlTypes, Threads
<1>8. CASE StartWorker \/ ReleaseWorker \/ CancelStats \/ ReleaseMain
  <2>1. msg' = msg /\ \E u \in Threads, c \in {"idle", "off", "dead"} : call' = [call EXCEPT ![u] = c]
    BY <1>8 DEF StartWorker, ReleaseWorker, CancelStats, ReleaseMain, Goes, Threads
  <2> QED
    BY <1>2, <2>1
<1>9. CASE Stop \/ ReleaseRedis \/ Exit \/ (\E o \in Outputs : InFile(o) \/ Broker(o)) \/ RedisReader \/ RedisServer
           \/ RedisFault \/ UNCHANGED vars
  BY <1>9 DEF Stop, ReleaseRedis, Exit, InFile, Broker, RedisReader, RedisServer, RedisFault, ovars, vars
<1>10. CASE Crash
  BY <1>10 DEF Crash
<1> QED
  BY <1>3, <1>4, <1>5, <1>6, <1>7, <1>8, <1>9, <1>10, StepCases

\* No report is forgotten between output_write_report and MongoDB.
LEMMA MongoKeptStep == ControlInv /\ MongoInv /\ MongoKept /\ [Next]_vars => MongoKept'
<1> SUFFICES ASSUME ControlInv, MongoInv, MongoKept, [Next]_vars, crashes' = 0 PROVE MongoKept'
  BY DEF MongoKept
<1>1. ControlTypes /\ PhaseInv /\ SectionInv /\ "worker" \in Threads /\ 1 \in Outputs
  BY OutputOfThreads DEF ControlInv, Threads
<1>2. ~Crash
  BY <1>1 DEF Crash, ControlTypes
<1>3. crashes = 0 /\ channels' = channels
  BY <1>2, MsgStep
<1>4. /\ phase = "start" => \A o \in Outputs : written[o] = 0
      /\ phase = "run" /\ call["worker"] = "off" => written[1] = 0
      /\ "mongodb" \in channels =>
           /\ \A t \in Threads : call[t] \in {"socket", "unlock"} => Kept(msg[t])
           /\ \A o \in Outputs : \A n \in 1 .. written[o] : Kept(<<o, n>>) \/ \E t \in Threads : msg[t] = <<o, n>>
  BY <1>3 DEF MongoKept, On
<1>5. phase' = "start" => \A o \in Outputs : written'[o] = 0
  <2>1. ASSUME phase' = "start" PROVE written' = written /\ phase = "start"
    <3>1. phase = "start" /\ \A t \in Threads : call[t] = "off"
      BY <1>1, <1>2, <2>1, BeforeStep DEF PhaseInv
    <3> QED
      BY <1>2, <3>1, MsgStep
  <2> QED
    BY <1>4, <2>1
<1>6. phase' = "run" /\ call'["worker"] = "off" => written'[1] = 0
  <2> SUFFICES ASSUME phase' = "run", call'["worker"] = "off" PROVE written'[1] = 0
    OBVIOUS
  <2>1. phase = "start" \/ (phase = "run" /\ call["worker"] = "off")
    BY <1>2, BeforeStep
  <2>2. written[1] = 0 /\ call["worker"] = "off"
    BY <1>1, <1>4, <2>1 DEF PhaseInv
  <2>3. ASSUME NEW t \in Threads, call[t] \in {"idle", "report"}, written' = [written EXCEPT ![OutputOf(t)] = @ + 1]
        PROVE  written'[1] = written[1]
    <3>1. t # "worker"
      BY <2>2, <2>3
    <3>2. OutputOf(t) = 0
      BY <3>1 DEF OutputOf
    <3> QED
      BY <1>1, <2>3, <3>2 DEF ControlTypes
  <2> QED
    BY <1>2, <2>2, <2>3, MsgStep
<1>7. ASSUME NEW t \in Threads, "mongodb" \in channels, call'[t] \in {"socket", "unlock"} PROVE Kept(msg[t])'
  <2>1. PICK o \in Outputs, w \in Nat : msg[t] = <<o, w>>
    BY <1>1 DEF ControlTypes, Messages
  <2>2. msg'[t] = <<o, w>> /\ (call[t] \in {"socket", "unlock"} \/ WriteMongo(t))
    BY <1>7, <2>1, PastStep
  <2>3. CASE WriteMongo(t)
    <3>1. o = OutputOf(t)
      BY <2>1, <2>3, MongoTop
    <3>2. MongoWrite(o, <<o, w>>)
      BY <2>1, <2>3, <3>1 DEF WriteMongo
    <3>3. Kept(<<o, w>>)'
      BY <3>2, KeptWritten DEF MongoInv
    <3> QED
      BY <2>2, <3>3
  <2>4. CASE call[t] \in {"socket", "unlock"}
    <3>1. Kept(<<o, w>>) /\ msg[t] = <<OutputOf(t), written[OutputOf(t)]>>
      BY <1>1, <1>4, <1>7, <2>1, <2>4 DEF SectionInv, Writing, Writes
    <3>2. ~StartMain
      BY <1>1, <2>4 DEF StartMain, PhaseInv
    <3>3. StartWorker => o # 1
      <4> SUFFICES ASSUME StartWorker PROVE o # 1
        OBVIOUS
      <4>1. t # "worker"
        BY <2>4 DEF StartWorker
      <4> QED
        BY <2>1, <3>1, <4>1 DEF OutputOf
    <3>4. PICK m : m = <<o, w>>
      OBVIOUS
    <3>5. Kept(m) /\ m[1] = o
      BY <3>1, <3>4
    <3>6. Kept(m)'
      BY <1>2, <3>2, <3>3, <3>5, KeptStart, KeptStep
    <3> QED
      BY <2>2, <3>4, <3>6
  <2> QED
    BY <2>2, <2>3, <2>4
<1>8. ASSUME NEW o \in Outputs, NEW n \in 1 .. written'[o], "mongodb" \in channels
      PROVE  Kept(<<o, n>>)' \/ \E t \in Threads : msg'[t] = <<o, n>>
  <2>1. written[o] \in Nat /\ n \in Nat /\ n > 0
    BY <1>1 DEF ControlTypes
  <2>2. PICK m : m = <<o, n>>
    OBVIOUS
  <2>3. m[1] = o /\ m[2] = n /\ m # NoMsg
    BY <2>1, <2>2 DEF NoMsg
  <2>4. CASE n \in 1 .. written[o] /\ Kept(m)
    <3>1. ~StartMain
      BY <1>4, <2>1, <2>4 DEF StartMain
    <3>2. StartWorker => written[1] = 0
      BY <1>4 DEF StartWorker
    <3>3. Kept(m)'
      BY <1>2, <2>1, <2>3, <2>4, <3>1, <3>2, KeptStart, KeptStep
    <3> QED
      BY <2>2, <3>3
  <2>5. CASE n \in 1 .. written[o] /\ ~Kept(m)
    <3>1. PICK u \in Threads : msg[u] = m
      BY <1>4, <1>8, <2>2, <2>5
    <3>2. CASE msg'[u] = msg[u]
      BY <2>2, <3>1, <3>2
    <3>3. CASE EndReport(u) /\ call[u] = "unlock"
      BY <1>4, <1>8, <2>5, <3>1, <3>3
    <3>4. CASE call[u] \in {"idle", "report"}
      BY <1>1, <2>3, <3>1, <3>4 DEF SectionInv, Writing, Writes
    <3> QED
      BY <1>1, <1>2, <3>2, <3>3, <3>4, MsgStep DEF ControlTypes
  <2>6. CASE n \notin 1 .. written[o]
    <3>1. PICK t \in Threads : /\ msg' = [msg EXCEPT ![t] = <<OutputOf(t), written[OutputOf(t)] + 1>>]
                               /\ written' = [written EXCEPT ![OutputOf(t)] = @ + 1]
      BY <1>2, <1>8, <2>6, MsgStep
    <3>2. o = OutputOf(t) /\ written'[o] = written[o] + 1
      BY <1>1, <1>8, <2>6, <3>1 DEF ControlTypes
    <3>3. n = written[o] + 1
      BY <2>1, <2>6, <3>2
    <3>4. msg'[t] = <<o, n>>
      BY <1>1, <3>1, <3>2, <3>3 DEF ControlTypes
    <3> QED
      BY <3>4
  <2> QED
    BY <1>4, <2>4, <2>5, <2>6
<1> QED
  BY <1>3, <1>5, <1>6, <1>7, <1>8 DEF MongoKept, On
-----------------------------------------------------------------------------
\* The timers of the statistics thread stay in range: timer_1 is reset when it
\* reaches its period.
LEMMA TimerStep ==
    CounterTypes /\ [Next]_vars => timer_1' \in 0 .. ReportPeriod - 1 /\ timer_2' \in 0 .. TimerWrap - 1
<1> SUFFICES ASSUME CounterTypes, [Next]_vars
             PROVE  timer_1' \in 0 .. ReportPeriod - 1 /\ timer_2' \in 0 .. TimerWrap - 1
  OBVIOUS
<1>1. /\ ReportPeriod \in Nat /\ ReportPeriod > 0 /\ TimerWrap \in Nat /\ TimerWrap > 0
      /\ timer_1 \in Nat /\ timer_1 < ReportPeriod /\ timer_2 \in Nat /\ timer_2 < TimerWrap
  BY OutputAssumptions DEF CounterTypes
<1>2. ASSUME NEW a \in Nat PROVE a % TimerWrap \in 0 .. TimerWrap - 1 /\ a % TimerWrap <= a
  BY <1>1
<1>3. CASE StatsTick
  <2>1. /\ timer_2' = (timer_2 + 1) % TimerWrap
        /\ \/ timer_1' = 0
           \/ timer_1 + 1 # ReportPeriod /\ timer_1' = (timer_1 + 1) % TimerWrap
    BY <1>3 DEF StatsTick
  <2>2. timer_1 + 1 \in Nat /\ timer_2 + 1 \in Nat
    BY <1>1
  <2>3. PICK b \in Nat : b = (timer_1 + 1) % TimerWrap /\ b <= timer_1 + 1
    BY <1>1, <1>2, <2>2
  <2>4. timer_1' = 0 \/ (timer_1 + 1 # ReportPeriod /\ timer_1' = b)
    BY <2>1, <2>3
  <2> QED
    BY <1>1, <1>2, <2>1, <2>2, <2>3, <2>4
<1>4. CASE timer_1' \in {timer_1, 0} /\ timer_2' \in {timer_2, 0}
  BY <1>1, <1>4
<1>5. ASSUME NEW t \in Threads, \/ WriteStep(t) \/ EndReport(t) \/ FlushFile(t) \/ FlushSkipped(t) \/ FlushMongo(t)
                                \/ WriteReport(t)
      PROVE  timer_1' = timer_1 /\ timer_2' = timer_2
  BY <1>5 DEF WriteStep, WriteFile, WriteKafka, WriteRedis, WriteMongo, WriteSocket, EndReport, FlushFile,
     FlushSkipped, FlushMongo, WriteReport
<1>6. CASE StatsStep /\ ~StatsTick
  BY <1>4, <1>6 DEF StatsStep, StatsFormat, StatsCheckFlush
<1>7. CASE StartMain \/ StartWorker \/ Stop \/ ReleaseRedis \/ ReleaseWorker \/ CancelStats \/ ReleaseMain \/ Exit \/ Crash
  BY <1>4, <1>7 DEF StartMain, StartWorker, Stop, ReleaseRedis, ReleaseWorker, CancelStats, ReleaseMain, Exit, Crash,
     ovars
<1>8. CASE (\E o \in Outputs : InFile(o) \/ Broker(o)) \/ RedisReader \/ RedisServer \/ RedisFault \/ UNCHANGED vars
  BY <1>4, <1>8 DEF InFile, Broker, RedisReader, RedisServer, RedisFault, ovars, vars
<1> QED
  BY <1>3, <1>4, <1>5, <1>6, <1>7, <1>8, StepCases

\* The invariant holds in the initial states.
LEMMA OutputInitInv == Init => OutputInv
<1> SUFFICES ASSUME Init PROVE OutputInv
  OBVIOUS
<1>1. Threads = {"main", "stats", "worker"} /\ Outputs = {0, 1} /\ Clients = Outputs /\ NoMsg \in Messages
  BY OutputOfThreads, OutputAssumptions DEF NoMsg, Messages
<1>2. ControlInv
  <2>1. ControlTypes
    BY <1>1 DEF Init, ControlTypes, Phases, Calls
  <2>2. PhaseInv /\ SectionInv
    BY DEF Init, PhaseInv, SectionInv, Writing, Writes
  <2> QED
    BY <2>1, <2>2 DEF ControlInv
<1>3. CounterTypes
  BY OutputAssumptions DEF Init, FileInit, CounterTypes
<1>4. FileInv /\ RedisInv
  BY FileInitInv, RedisStartInv DEF Init
<1>5. FilePhaseInv /\ DoomedOld /\ LastCleanInv /\ AnnouncedInv
  BY <1>1 DEF Init, FileInit, FilePhaseInv, DoomedOld, LastCleanInv, AnnouncedInv, Announced
<1>6. Len(<<>>) = 0 /\ <<>> \in Seq(Messages) /\ KafkaMax \in Nat /\ CacheMax \in Nat /\ CacheMax > 0
  BY BrokerAssumption
<1>7. /\ rd_queue = [o \in Outputs |-> <<>>] /\ messages_cache = [o \in Outputs |-> <<>>] /\ database = <<>>
      /\ file_last = [o \in Outputs |-> 0] /\ kafka_last = [o \in Outputs |-> 0] /\ written = [o \in Outputs |-> 0]
      /\ delivered = [o \in Outputs |-> 0] /\ socket_last = [o \in Outputs |-> 0]
  BY <1>1 DEF Init, BrokerInit
<1>8. LastTypes /\ LastInv
  BY <1>6, <1>7 DEF LastTypes, LastInv
<1>9. MongoTypes /\ MongoOrder /\ MongoBound
  BY <1>6, <1>7 DEF MongoTypes, MongoOrder, Batch, MongoBound
<1>10. MongoKept
  <2>1. \A t \in Threads : call[t] = "off"
    BY DEF Init
  <2> QED
    BY <1>1, <1>7, <2>1 DEF MongoKept
<1> QED
  BY <1>2, <1>3, <1>4, <1>5, <1>8, <1>9, <1>10 DEF OutputInv, DirectoryInv, BrokerInv

\* Every step keeps it.
LEMMA OutputStepInv == OutputInv /\ [Next]_vars => OutputInv'
<1> SUFFICES ASSUME OutputInv, [Next]_vars PROVE OutputInv'
  OBVIOUS
<1>1. /\ ControlInv /\ CounterTypes /\ FileInv /\ FilePhaseInv /\ DoomedOld /\ LastCleanInv /\ AnnouncedInv
      /\ QueueInv /\ MongoInv /\ MongoKept /\ RedisInv /\ faults \in Nat
  BY DEF OutputInv, DirectoryInv, BrokerInv, QueueInv, MongoInv, CounterTypes
<1>2. ControlInv'
  BY <1>1, ControlStep
<1>3. FileSteps
  BY FileStepsOnly
<1>4. CounterTypes'
  BY <1>1, <1>3, TimerStep, FaultsCounted DEF CounterTypes
<1>5. FileInv' /\ FilePhaseInv' /\ LastCleanInv' /\ AnnouncedInv'
  BY <1>1, <1>3, FileStepInv, FilePhaseStep, LastCleanStep, AnnouncedStep
<1>6. DoomedOld'
  BY <1>1, <1>3, CleanersApart, DoomedStaysOld
<1>7. QueueInv' /\ MongoInv' /\ MongoKept'
  BY <1>1, QueueStep, MongoStep, MongoKeptStep
<1>8. RedisInv'
  BY <1>1, RedisProjection, RedisStepInv
<1> QED
  BY <1>2, <1>4, <1>5, <1>6, <1>7, <1>8 DEF OutputInv, DirectoryInv, BrokerInv, QueueInv, MongoInv
-----------------------------------------------------------------------------
(* The theorems. *)

(* The conjunction of the invariants of the threads, the directory, the       *)
(* brokers and the shared connection holds in every reachable state of        *)
(* output.c.                                                                  *)
THEOREM OutputInvariant == Spec => []OutputInv
BY OutputInitInv, OutputStepInv, PTL DEF Spec

(* Type correctness of the outputs, with what the code bounds: the cache of   *)
(* mongodb_output_write, the queue of librdkafka and the timers.              *)
THEOREM OutputTypeOK == Spec => []TypeOK
<1>1. OutputInv => TypeOK
  <2> SUFFICES ASSUME OutputInv PROVE TypeOK
    OBVIOUS
  <2>1. FileTypeOK /\ ControlTypes /\ CounterTypes /\ LastTypes /\ MongoTypes
    BY DEF OutputInv, DirectoryInv, FileInv, ControlInv, BrokerInv
  <2>2. timer_1 < ReportPeriod /\ timer_2 \in 0 .. TimerWrap - 1
    BY <2>1, OutputAssumptions DEF CounterTypes
  <2>3. \A o \in Outputs : Len(messages_cache[o]) < CacheMax /\ Len(rd_queue[o]) <= KafkaMax
    BY <2>1 DEF LastTypes, MongoTypes
  <2> QED
    BY <2>1, <2>2, <2>3 DEF TypeOK, ControlTypes, Phases, Calls, Writes
<1> QED
  BY <1>1, OutputInvariant, PTL

(* file_output.c: a semaphore file announces a complete data file, whatever   *)
(* the two outputs that share the directory, the clean-ups and the crashes    *)
(* do in between.                                                             *)
THEOREM DirectoryStaysConsistent == Spec => []DirectoryConsistent
<1>1. OutputInv => DirectoryConsistent
  BY FileInvConsistent DEF OutputInv, DirectoryInv
<1> QED
  BY <1>1, OutputInvariant, PTL

(* thredis.c: every thread gets the reply to its own command.                 *)
THEOREM RepliesAreOwn == Spec => []OwnReply
<1>1. OutputInv => OwnReply
  BY DEF OutputInv, RedisInv
<1> QED
  BY <1>1, OutputInvariant, PTL

(* file_output.c: the clean-up deletes a data file only while Retained newer  *)
(* ones are announced.                                                        *)
THEOREM NewestFilesStay == Spec => KeepsNewest
<1>1. OutputInv /\ [Next]_vars =>
        [\A n \in csv \ csv' : n \in filled => Cardinality({m \in sem : m > n}) >= Retained]_fvars
  <2> SUFFICES ASSUME OutputInv, [Next]_vars, NEW n \in csv \ csv', n \in filled
               PROVE  Cardinality({m \in sem : m > n}) >= Retained
    OBVIOUS
  <2>1. FileInv /\ DoomedOld /\ FileSteps
    BY FileStepsOnly DEF OutputInv, DirectoryInv
  <2> QED
    BY <2>1, KeepsNewestStep
<1> QED
  BY <1>1, OutputInvariant, PTL DEF Spec, KeepsNewest

(* output.c: every channel sees the reports of an output in the order in      *)
(* which output_write_report took them.                                       *)
THEOREM ChannelsKeepOrder == Spec => ChannelOrder
<1>1. OutputInv /\ OutputInv' /\ [Next]_vars =>
        [\A o \in Outputs :
            /\ file_last'[o] >= file_last[o] /\ kafka_last'[o] >= kafka_last[o]
            /\ delivered'[o] >= delivered[o] /\ socket_last'[o] >= socket_last[o]
            /\ \A i, j \in DOMAIN database' :
                  i < j /\ database'[i][1] = database'[j][1] => database'[i][2] < database'[j][2]]_vars
  <2> SUFFICES ASSUME OutputInv, OutputInv', [Next]_vars
               PROVE  \A o \in Outputs :
                        /\ file_last'[o] >= file_last[o] /\ kafka_last'[o] >= kafka_last[o]
                        /\ delivered'[o] >= delivered[o] /\ socket_last'[o] >= socket_last[o]
                        /\ \A i, j \in DOMAIN database' :
                             i < j /\ database'[i][1] = database'[j][1] => database'[i][2] < database'[j][2]
    OBVIOUS
  <2>1. ControlInv /\ QueueInv /\ MongoTypes' /\ MongoOrder'
    BY DEF OutputInv, BrokerInv, QueueInv
  <2>2. NeverBack
    BY <2>1, QueueStep
  <2>3. DOMAIN database' = 1 .. Len(database')
    BY <2>1 DEF MongoTypes
  <2> QED
    BY <2>1, <2>2, <2>3 DEF NeverBack, MongoOrder
<1> QED
  BY <1>1, OutputInvariant, PTL DEF Spec, ChannelOrder

(* output_release and file_output_release: at the exit of the probe at most   *)
(* Retained files are left and every data file is announced, unless a file    *)
(* could not be created, a process crashed or a flush was cancelled.          *)
THEOREM ExitIsClean == Spec => []ExitClean
<1>1. OutputInv => ExitClean
  <2> SUFFICES ASSUME OutputInv, phase = "exit", On("file")
               PROVE  /\ Retained > 0 => Cardinality(sem) <= Retained
                      /\ faults = 0 /\ crashes = 0 /\ ~cut => csv = sem
    BY DEF ExitClean
  <2>1. /\ FileInv /\ FilePhaseInv /\ DoomedOld /\ LastCleanInv /\ AnnouncedInv
        /\ Outputs = {0, 1} /\ DirectoryConsistent
    BY OutputOfThreads, FileInvConsistent DEF OutputInv, DirectoryInv
  <2>2. fstep[0] = "gone" /\ fstep[1] = "gone"
    BY <2>1 DEF FilePhaseInv
  <2>3. \A o \in Outputs : file[o] = NoFile /\ doomed[o] = {} /\ ~Fresh(o)
    BY <2>1, <2>2 DEF FileInv, FreshInv, DoomedOld, Fresh
  <2>4. Retained > 0 => Cardinality(sem) <= Retained
    BY <2>1, <2>2 DEF LastCleanInv
  <2>5. faults = 0 /\ crashes = 0 /\ ~cut => csv \subseteq sem
    BY <2>1, <2>3 DEF AnnouncedInv, Announced
  <2>6. sem \subseteq csv
    BY <2>1 DEF DirectoryConsistent
  <2> QED
    BY <2>4, <2>5, <2>6
<1> QED
  BY <1>1, OutputInvariant, PTL

\* The elements of a concatenation.
LEMMA Concatenation ==
    ASSUME NEW s \in Seq(Messages), NEW u \in Seq(Messages)
    PROVE  /\ s \o u \in Seq(Messages) /\ Len(s \o u) = Len(s) + Len(u)
           /\ \A i \in 1 .. Len(s) : (s \o u)[i] = s[i]
           /\ \A i \in Len(s) + 1 .. Len(s) + Len(u) : (s \o u)[i] = u[i - Len(s)]
OBVIOUS

\* Where the messages of Held are.
LEMMA HeldIs ==
    ASSUME MongoTypes
    PROVE  LET d == Len(database)
               a == Len(messages_cache[0])
               b == Len(messages_cache[1])
           IN  /\ d \in Nat /\ a \in Nat /\ b \in Nat /\ DOMAIN Held = 1 .. d + a + b
               /\ \A i \in 1 .. d : Held[i] = database[i]
               /\ \A i \in d + 1 .. d + a : Held[i] = messages_cache[0][i - d]
               /\ \A i \in d + a + 1 .. d + a + b : Held[i] = messages_cache[1][i - (d + a)]
<1> DEFINE d == Len(database)
           a == Len(messages_cache[0])
           b == Len(messages_cache[1])
           e == database \o messages_cache[0]
<1>1. /\ database \in Seq(Messages) /\ messages_cache[0] \in Seq(Messages) /\ messages_cache[1] \in Seq(Messages)
      /\ d \in Nat /\ a \in Nat /\ b \in Nat
  BY OutputOfThreads DEF MongoTypes
<1>2. /\ e \in Seq(Messages) /\ Len(e) = d + a
      /\ \A i \in 1 .. d : e[i] = database[i]
      /\ \A i \in d + 1 .. d + a : e[i] = messages_cache[0][i - d]
  BY <1>1, Concatenation
<1>3. Held = e \o messages_cache[1]
  BY DEF Held
<1> HIDE DEF e
<1>4. /\ Held \in Seq(Messages) /\ Len(Held) = Len(e) + b
      /\ \A i \in 1 .. Len(e) : Held[i] = e[i]
      /\ \A i \in Len(e) + 1 .. Len(e) + b : Held[i] = messages_cache[1][i - Len(e)]
  BY <1>1, <1>2, <1>3, Concatenation
<1>5. DOMAIN Held = 1 .. d + a + b
  BY <1>2, <1>4
<1>6. (\A i \in 1 .. d : i \in 1 .. d + a) /\ (\A i \in d + 1 .. d + a : i \in 1 .. d + a)
  BY <1>1
<1> HIDE DEF d, a, b
<1>7. /\ \A i \in 1 .. d : Held[i] = database[i]
      /\ \A i \in d + 1 .. d + a : Held[i] = messages_cache[0][i - d]
      /\ \A i \in d + a + 1 .. d + a + b : Held[i] = messages_cache[1][i - (d + a)]
  BY <1>2, <1>4, <1>6
<1> QED
  BY <1>1, <1>5, <1>7 DEF d, a, b

\* No message is held twice.
LEMMA HeldOnce ==
    ASSUME MongoTypes, MongoOrder, NEW i \in DOMAIN Held, NEW j \in DOMAIN Held, i < j
    PROVE  Held[i] # Held[j]
<1> DEFINE d == Len(database)
           a == Len(messages_cache[0])
           b == Len(messages_cache[1])
<1>1. /\ d \in Nat /\ a \in Nat /\ b \in Nat /\ DOMAIN Held = 1 .. d + a + b
      /\ \A k \in 1 .. d : Held[k] = database[k]
      /\ \A k \in d + 1 .. d + a : Held[k] = messages_cache[0][k - d]
      /\ \A k \in d + a + 1 .. d + a + b : Held[k] = messages_cache[1][k - (d + a)]
  BY HeldIs
<1>2. Batch(messages_cache[0], 0) /\ Batch(messages_cache[1], 1)
  BY OutputOfThreads DEF MongoOrder
<1>3. \A k \in 1 .. d : database[k][2] \in Nat
  BY MessageNumbers DEF MongoTypes
<1>4. /\ messages_cache[0] \in Seq(Messages) /\ messages_cache[1] \in Seq(Messages)
  BY OutputOfThreads DEF MongoTypes
<1>5. /\ \A k \in 1 .. a : /\ messages_cache[0][k][1] = 0 /\ messages_cache[0][k][2] \in Nat
                           /\ \A l \in 1 .. k - 1 : messages_cache[0][l][2] < messages_cache[0][k][2]
                           /\ \A l \in 1 .. d : database[l][1] = 0 => database[l][2] < messages_cache[0][k][2]
      /\ \A k \in 1 .. b : /\ messages_cache[1][k][1] = 1 /\ messages_cache[1][k][2] \in Nat
                           /\ \A l \in 1 .. k - 1 : messages_cache[1][l][2] < messages_cache[1][k][2]
                           /\ \A l \in 1 .. d : database[l][1] = 1 => database[l][2] < messages_cache[1][k][2]
  BY <1>2, <1>4, MessageNumbers DEF Batch
<1>6. \A k, l \in 1 .. d : k < l /\ database[k][1] = database[l][1] => database[k][2] < database[l][2]
  BY DEF MongoOrder
<1> HIDE DEF d, a, b
<1>7. i \in 1 .. d + a + b /\ j \in 1 .. d + a + b
  BY <1>1
<1>8. ASSUME NEW k \in 1 .. d + a + b
      PROVE  \/ k \in 1 .. d
             \/ k \in d + 1 .. d + a /\ k - d \in 1 .. a
             \/ k \in d + a + 1 .. d + a + b /\ k - (d + a) \in 1 .. b
  BY <1>1
<1>9. CASE j \in 1 .. d
  <2>1. i \in 1 .. d
    BY <1>1, <1>7, <1>9
  <2> QED
    BY <1>1, <1>3, <1>6, <1>9, <2>1
<1>10. CASE j \in d + 1 .. d + a /\ j - d \in 1 .. a
  <2>1. CASE i \in 1 .. d
    <3>1. Held[i] = database[i] /\ Held[j] = messages_cache[0][j - d]
      BY <1>1, <1>10, <2>1
    <3>2. database[i][1] = 0 => database[i][2] < messages_cache[0][j - d][2]
      BY <1>5, <1>10, <2>1
    <3>3. messages_cache[0][j - d][1] = 0 /\ messages_cache[0][j - d][2] \in Nat
      BY <1>5, <1>10
    <3> QED
      BY <3>1, <3>2, <3>3
  <2>2. CASE i \notin 1 .. d
    <3>1. i \in d + 1 .. d + a /\ i - d \in 1 .. a /\ i - d \in 1 .. (j - d) - 1
      BY <1>1, <1>7, <1>10, <2>2
    <3>2. messages_cache[0][i - d][2] < messages_cache[0][j - d][2]
      BY <1>5, <1>10, <3>1
    <3> QED
      BY <1>1, <1>5, <1>10, <3>1, <3>2
  <2> QED
    BY <2>1, <2>2
<1>11. CASE j \in d + a + 1 .. d + a + b /\ j - (d + a) \in 1 .. b
  <2>1. CASE i \in 1 .. d
    <3>1. Held[i] = database[i] /\ Held[j] = messages_cache[1][j - (d + a)]
      BY <1>1, <1>11, <2>1
    <3>2. database[i][1] = 1 => database[i][2] < messages_cache[1][j - (d + a)][2]
      BY <1>5, <1>11, <2>1
    <3>3. messages_cache[1][j - (d + a)][1] = 1 /\ messages_cache[1][j - (d + a)][2] \in Nat
      BY <1>5, <1>11
    <3> QED
      BY <3>1, <3>2, <3>3
  <2>2. CASE i \in d + 1 .. d + a /\ i - d \in 1 .. a
    <3>1. Held[i][1] = 0 /\ Held[j][1] = 1
      BY <1>1, <1>5, <1>11, <2>2
    <3> QED
      BY <3>1
  <2>3. CASE i \in d + a + 1 .. d + a + b /\ i - (d + a) \in 1 .. b
    <3>1. i - (d + a) \in 1 .. (j - (d + a)) - 1
      BY <1>1, <1>7, <1>11, <2>3
    <3>2. messages_cache[1][i - (d + a)][2] < messages_cache[1][j - (d + a)][2]
      BY <1>5, <1>11, <3>1
    <3> QED
      BY <1>1, <1>5, <1>11, <2>3, <3>2
  <2> QED
    BY <1>7, <1>8, <2>1, <2>2, <2>3
<1> QED
  BY <1>7, <1>8, <1>9, <1>10, <1>11

\* A message that is kept and not lost is held.
LEMMA HeldKept ==
    ASSUME MongoTypes, NEW m, Kept(m), m \notin mongo_lost
    PROVE  \E i \in DOMAIN Held : Held[i] = m
<1> DEFINE d == Len(database)
           a == Len(messages_cache[0])
           b == Len(messages_cache[1])
<1>1. /\ d \in Nat /\ a \in Nat /\ b \in Nat /\ DOMAIN Held = 1 .. d + a + b
      /\ \A k \in 1 .. d : Held[k] = database[k]
      /\ \A k \in d + 1 .. d + a : Held[k] = messages_cache[0][k - d]
      /\ \A k \in d + a + 1 .. d + a + b : Held[k] = messages_cache[1][k - (d + a)]
  BY HeldIs
<1>2. \/ \E i \in 1 .. d : database[i] = m
      \/ \E i \in 1 .. a : messages_cache[0][i] = m
      \/ \E i \in 1 .. b : messages_cache[1][i] = m
  BY OutputOfThreads DEF Kept
<1> HIDE DEF d, a, b
<1>3. ASSUME NEW i \in 1 .. d, database[i] = m PROVE i \in DOMAIN Held /\ Held[i] = m
  BY <1>1, <1>3
<1>4. ASSUME NEW i \in 1 .. a, messages_cache[0][i] = m PROVE d + i \in DOMAIN Held /\ Held[d + i] = m
  <2>1. d + i \in d + 1 .. d + a /\ d + i \in 1 .. d + a + b /\ (d + i) - d = i
    BY <1>1
  <2> QED
    BY <1>1, <1>4, <2>1
<1>5. ASSUME NEW i \in 1 .. b, messages_cache[1][i] = m PROVE d + a + i \in DOMAIN Held /\ Held[d + a + i] = m
  <2>1. d + a + i \in d + a + 1 .. d + a + b /\ d + a + i \in 1 .. d + a + b /\ (d + a + i) - (d + a) = i
    BY <1>1
  <2> QED
    BY <1>1, <1>5, <2>1
<1> QED
  BY <1>2, <1>3, <1>4, <1>5

(* mongodb_output.c: every report is in the cache or the collection exactly   *)
(* once, or was given up with an error.                                       *)
THEOREM MongoKeepsOnce == Spec => []MongoOnce
<1>1. OutputInv => MongoOnce
  <2> SUFFICES ASSUME OutputInv PROVE MongoOnce
    OBVIOUS
  <2>1. MongoTypes /\ MongoOrder /\ MongoKept /\ crashes \in Nat
    BY DEF OutputInv, BrokerInv, ControlInv, ControlTypes
  <2>2. \A i, j \in DOMAIN Held : Held[i] = Held[j] => i = j
    <3> SUFFICES ASSUME NEW i \in DOMAIN Held, NEW j \in DOMAIN Held, Held[i] = Held[j] PROVE i = j
      OBVIOUS
    <3>1. i \in Int /\ j \in Int
      BY <2>1, HeldIs
    <3>2. ~(i < j) /\ ~(j < i)
      BY <2>1, HeldOnce
    <3> QED
      BY <3>1, <3>2
  <2>3. ASSUME On("mongodb"), NEW o \in Outputs, NEW n \in 1 .. written[o]
        PROVE  \/ <<o, n>> \in mongo_lost
               \/ \E i \in DOMAIN Held : Held[i] = <<o, n>>
               \/ crashes > 0
               \/ \E t \in Threads : msg[t] = <<o, n>>
    <3>1. CASE crashes = 0
      <4>1. Kept(<<o, n>>) \/ \E t \in Threads : msg[t] = <<o, n>>
        BY <2>1, <2>3, <3>1 DEF MongoKept
      <4> QED
        BY <2>1, <4>1, HeldKept
    <3>2. CASE crashes # 0
      BY <2>1, <3>2
    <3> QED
      BY <3>1, <3>2
  <2> QED
    BY <2>2, <2>3 DEF MongoOnce
<1> QED
  BY <1>1, OutputInvariant, PTL
=============================================================================
