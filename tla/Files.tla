------------------------------- MODULE Files -------------------------------
(***************************************************************************)
(* The file system of fat.c and file.c on top of the disk driver: DriveInit*)
(* finds the partition at boot, GetFileInfo looks a name up in the root    *)
(* directory, and the system calls OPEN, READ and EXEC use both.           *)
(*                                                                         *)
(* A sector is a record of the fields the code reads from it.  OPEN and    *)
(* READ sleep in ATARead; EXEC and DriveInit poll, and EXEC makes its two  *)
(* reads inside one system call.                                           *)
(***************************************************************************)
EXTENDS Ata, SequencesExt

CONSTANTS Volumes,       \* the disks the kernel may find
          Names,         \* names the programs ask for: sequences of characters
          DriveKinds,    \* what ATAInit finds in the places of the four drives
          SyscallsInUse, \* the file system calls of the programs
          Booted         \* start behind DriveInit, which met no error?

ASSUME FilesAssumption ==
  /\ DriveKinds \in [0 .. 3 -> {"ata", "none", "atapi", "error"}]
  /\ DriveKinds[0] = "ata"
  /\ SyscallsInUse \subseteq {"OPEN", "READ", "EXEC"}
  /\ Booted \in BOOLEAN

VARIABLES disk,      \* the sectors of the disk, from 0
          drives,    \* each drive: is it there, and its first partition table entry
          partition, \* partitions[0]
          probing,   \* the drive DriveInit is at; see BootRecord and Done
          op,        \* the call each process is in, the name and the file it works on
          opened,    \* the name each process last passed to OPEN, and the file it got
          loaded     \* the name and the sector of its last successful READ or EXEC

fileVars  == <<disk, drives, partition, probing, op, opened, loaded>>
filesVars == <<vars, fileVars>>

BootRecord == 4 \* DriveInit reads the boot record of the partition
Done       == 5 \* DriveInit has returned

-----------------------------------------------------------------------------
(***************************************************************************)
(* The disk, as a formatting program lays it out: the partition somewhere  *)
(* behind the master boot record; in it the boot record, the rest of the   *)
(* reserved sectors, the FATs, the root directory and the clusters, one    *)
(* for each file.  A file is its name and lies in one sector.              *)
(***************************************************************************)
Other           == [kind |-> "other"]
DataOf(name)    == [kind |-> "data", name |-> name]
Unused          == [name |-> <<>>, clusterHead |-> 0, size |-> 0]
FileEntry(f, i) == [name |-> f, clusterHead |-> i + 1, size |-> 512]

MasterBootRecordOf(v) == [kind |-> "mbr", first |-> v.active, startLBA |-> v.start]
BootRecordOf(v) ==
  [kind |-> "boot", reservedSectors |-> v.reserved, numbersOfFATs |-> v.fats,
   sectorsOfFAT |-> v.perFAT, sectorsOfCluster |-> v.perCluster,
   numbersOfRootDirEntries |-> v.rootEntries]

\* The entries of a directory whose first slot is not used any more.
DirectoryOf(files) ==
  [kind |-> "directory",
   entries |-> [i \in 1 .. Len(files) + 1 |->
                  IF i = 1 THEN Unused ELSE FileEntry(files[i - 1], i - 1)]]

\* Where the root directory begins, and the cluster of the i-th file.
RootOf(v)       == v.start + v.reserved + v.fats * v.perFAT
ClusterOf(v, i) == RootOf(v) + (v.rootEntries + 15) \div 16 + (i - 1) * v.perCluster

FileAt(v, lba) == {i \in 1 .. Len(v.files) : lba = ClusterOf(v, i)}

SectorOf(v, lba) ==
  CASE lba = 0               -> MasterBootRecordOf(v)
    [] lba = v.start         -> BootRecordOf(v)
    [] lba = RootOf(v)       -> DirectoryOf(v.files)
    [] FileAt(v, lba) # {}   -> DataOf(v.files[CHOOSE i \in FileAt(v, lba) : TRUE])
    [] OTHER                 -> Other

DiskOf(v) == [lba \in 0 .. ClusterOf(v, Len(v.files) + 1) - 1 |-> SectorOf(v, lba)]

\* The fields are numbers one finds on a disk, the files fit the first sector of
\* the root directory behind the unused entry, and any sector may be asked for.
ASSUME VolumesAssumption ==
  /\ 512 \in Sizes
  /\ \A v \in Volumes :
       /\ v.active \in 0 .. 255
       /\ {v.start, v.reserved, v.perCluster, v.rootEntries} \subseteq Nat \ {0}
       /\ {v.fats, v.perFAT} \subseteq Nat
       /\ v.files \in Seq(Seq(STRING) \ {<<>>}) /\ Len(v.files) < 16
       /\ DOMAIN DiskOf(v) \subseteq Lbas

SectorAt(lba) == IF lba \in DOMAIN disk THEN disk[lba] ELSE Other

-----------------------------------------------------------------------------
(***************************************************************************)
(* fat.c                                                                   *)
(***************************************************************************)

\* ATAIdentify: is there a disk in this place?
ATAIdentify(kind) == kind = "ata"

NoTable == [isValid |-> FALSE, startLBA |-> 0]

\* The first entry of the partition table in a sector: valid if its first byte,
\* the one that marks an active partition, is not 0.  The zeroed entry otherwise.
PartitionTable(s) ==
  IF s.kind = "mbr" /\ s.first # 0
  THEN [isValid |-> TRUE, startLBA |-> s.startLBA] ELSE NoTable

Zeroed == [kind |-> "boot", reservedSectors |-> 0, numbersOfFATs |-> 0, sectorsOfFAT |-> 0,
           sectorsOfCluster |-> 0, numbersOfRootDirEntries |-> 0]

\* Mutant: the sectors of the root directory are rounded down.
RootSectorsDown(n) == (n * 32) \div 512

RootSectors(n) == (n * 32 + 511) \div 512

\* The fields of partitions[0] somebody reads, after ParseBootRecord.  A sector
\* of another kind has zeros in their places.
ParseBootRecord(s, startLBA) ==
  LET br   == IF s.kind = "boot" THEN s ELSE Zeroed
      root == RootSectors(br.numbersOfRootDirEntries)
      data == startLBA + br.reservedSectors + br.sectorsOfFAT * br.numbersOfFATs + root
  IN  [startLBA |-> startLBA, sectorsOfCluster |-> br.sectorsOfCluster,
       dataStartLBA |-> data, rootDirStartLBA |-> data - root]

-----------------------------------------------------------------------------
(***************************************************************************)
(* file.c                                                                  *)
(***************************************************************************)
NotFound == [start |-> -1, size |-> -1]

EntriesOf(s) == IF s.kind = "directory" THEN s.entries ELSE <<>>

\* Mutant: the first cluster of the data is taken to have number 0.
StartOfFromZero(e) == partition.dataStartLBA + partition.sectorsOfCluster * e.clusterHead

StartOf(e) == partition.dataStartLBA + partition.sectorsOfCluster * (e.clusterHead - 2)

\* Does strncmp(filename, entry, length) find them equal, with an entry in use?
Matches(e, name) == e.name # <<>> /\ IsPrefix(name, e.name)

\* What GetFileInfo puts into its file when it searches the sector s.
GetFileInfo(s, name) ==
  LET hits == {i \in DOMAIN EntriesOf(s) : Matches(EntriesOf(s)[i], name)}
  IN  IF hits = {} THEN NotFound
      ELSE LET e == EntriesOf(s)[CHOOSE i \in hits : \A j \in hits : i <= j]
           IN  [start |-> StartOf(e), size |-> e.size]

\* The sectors a buffer may hold after ATARead returned "value" with "data" in it.
\* GetFileInfo does not look at the result: a buffer nothing was written to holds
\* whatever was in its place.
InBuffer(value, data) ==
  IF value = -1 \/ data = <<>> THEN {disk[lba] : lba \in DOMAIN disk} ELSE {SectorAt(data[1])}

-----------------------------------------------------------------------------
(***************************************************************************)
(* Where a process is.  A call whose read is not over is Reading; behind a *)
(* polled read the code of the same call goes on.                          *)
(***************************************************************************)
Me   == currentProcess
NoOp == [call |-> "none", name |-> <<>>, file |-> NotFound]

Begin(c, name, file) == op' = [op EXCEPT ![Me] = [call |-> c, name |-> name, file |-> file]]
End                  == op' = [op EXCEPT ![Me] = NoOp]

\* The program of the current process runs, and DriveInit is over.
InProgram == cpu = "task" /\ op[Me] = NoOp /\ probing = Done

\* The current process is behind a polled read of this call, with or without
\* success, in code no other step of the processor comes between.
Behind(c) == cpu = "task" /\ op[Me].call = c /\ ~Reading(Me)
InSyscall == Behind("EXEC directory") \/ Behind("EXEC file")

PolledReadReturns == cpu = "ATAPollingUntilReady" /\ ATAReadReturns

\* What the buffer may hold when ATARead has returned to the current process.
Got == InBuffer(call[Me].returned, buffer[Me])

(***************************************************************************)
(* DriveInit: sector 0 is read for each drive there is, always from the    *)
(* first one, then the first sector of its first partition.                *)
(***************************************************************************)
NextDrive(i) ==
  CHOOSE d \in i .. BootRecord :
    /\ d = BootRecord \/ drives[d].isValid
    /\ \A e \in i .. d - 1 : ~drives[e].isValid

DriveInit ==
  /\ probing # Done /\ op[Me] = NoOp
  /\ ATARead(IF probing = BootRecord THEN drives[0].table.startLBA ELSE 0, 512, TRUE)
  /\ Begin("DriveInit", <<>>, NotFound)
  /\ UNCHANGED <<disk, drives, partition, probing, opened, loaded>>

DriveInitGoesOn ==
  /\ Behind("DriveInit")
  /\ \E s \in Got :
       IF probing = BootRecord
       THEN /\ partition' = ParseBootRecord(s, drives[0].table.startLBA)
            /\ probing' = Done
            /\ UNCHANGED drives
       ELSE /\ drives' = [drives EXCEPT ![probing].table = PartitionTable(s)]
            /\ probing' = NextDrive(probing + 1)
            /\ UNCHANGED partition
  /\ End
  /\ UNCHANGED <<vars, disk, opened, loaded>>

\* DriveInit polls with interrupts on; the key's handler leaves nothing behind.
KeyWhileDriveInitPolls ==
  /\ cpu = "ATAPollingUntilReady" /\ probing # Done
  /\ Presented(KBC_INTERRUPT_NUM - PIC_MASTER_INTERRUPT_NUM)
  /\ irr' = irr \ {Line(KBC_INTERRUPT_NUM)}
  /\ UNCHANGED <<processList, pstate, pid, parent, currentProcess, resume, cpu,
                 hpetEnabled, isr, ataVars, fileVars>>

-----------------------------------------------------------------------------
(***************************************************************************)
(* SYSCALL_OPEN and SYSCALL_READ: one sleeping read each.                  *)
(***************************************************************************)
Open(name, s) == opened' = [opened EXCEPT ![Me] = [name |-> name, file |-> GetFileInfo(s, name)]]

OPEN(name) ==
  /\ InProgram /\ "OPEN" \in SyscallsInUse
  /\ ATARead(partition.rootDirStartLBA, 512, FALSE)
  /\ IF Full
     THEN UNCHANGED op /\ \E s \in InBuffer(-1, <<>>) : Open(name, s)
     ELSE UNCHANGED opened /\ Begin("OPEN", name, NotFound)
  /\ UNCHANGED <<disk, drives, partition, probing, loaded>>

READ ==
  /\ InProgram /\ "READ" \in SyscallsInUse
  /\ opened[Me].file # NotFound
  /\ LET file == opened[Me].file
     IN  /\ ATARead(file.start, file.size, FALSE)
         /\ IF Full THEN UNCHANGED op ELSE Begin("READ", opened[Me].name, file)
  /\ UNCHANGED <<disk, drives, partition, probing, opened, loaded>>

Load(name, s) == loaded' = [loaded EXCEPT ![Me] = [name |-> name, sector |-> s]]

\* The sleeping read returns, and with it the system call.
OPENReturns ==
  /\ op[Me].call = "OPEN"
  /\ ATAReadReturns
  /\ \E s \in InBuffer(call'[Me].returned, buffer'[Me]) : Open(op[Me].name, s)
  /\ End
  /\ UNCHANGED <<disk, drives, partition, probing, loaded>>

READReturns ==
  /\ op[Me].call = "READ"
  /\ ATAReadReturns
  /\ IF call'[Me].returned = -1 THEN UNCHANGED loaded
     ELSE \E s \in InBuffer(call'[Me].returned, buffer'[Me]) : Load(op[Me].name, s)
  /\ End
  /\ UNCHANGED <<disk, drives, partition, probing, opened>>

-----------------------------------------------------------------------------
(***************************************************************************)
(* SYSCALL_EXEC: two polled reads in one system call, with interrupts off. *)
(***************************************************************************)
EXEC(name) ==
  /\ InProgram /\ "EXEC" \in SyscallsInUse
  /\ ATARead(partition.rootDirStartLBA, 512, TRUE)
  /\ Begin("EXEC directory", name, NotFound)
  /\ UNCHANGED <<disk, drives, partition, probing, opened, loaded>>

\* Mutant: the result of GetFileInfo is not looked at.
FoundUnchecked(file) == TRUE

Found(file) == file # NotFound

\* GetFileInfo's search, kmalloc for the file, and its read.
ExecFindsFile ==
  /\ Behind("EXEC directory")
  /\ \E s \in Got :
       LET file == GetFileInfo(s, op[Me].name)
       IN  \/ /\ Found(file)
              /\ ATARead(file.start, file.size, TRUE)
              /\ Begin("EXEC file", op[Me].name, file)
           \/ UNCHANGED vars /\ End \* no such file, or no memory
  /\ UNCHANGED <<disk, drives, partition, probing, opened, loaded>>

\* Mutant: the result of ReadFile is not looked at.
CompleteUnchecked(returned, file) == TRUE

Complete(returned, file) == returned = file.size

ExecLoads ==
  /\ Behind("EXEC file")
  /\ IF Complete(call[Me].returned, op[Me].file)
     THEN \E s \in Got : Load(op[Me].name, s)
     ELSE UNCHANGED loaded
  /\ End
  /\ UNCHANGED <<vars, disk, drives, partition, probing, opened>>

-----------------------------------------------------------------------------
Nothing == [name |-> <<>>, sector |-> Other]
Unopened == [name |-> <<>>, file |-> NotFound]

FilesInit ==
  /\ AtaInit
  /\ \E v \in Volumes :
       LET d == DiskOf(v)
           t == IF Booted THEN PartitionTable(d[0]) ELSE NoTable
       IN  /\ disk = d
           /\ drives = [i \in 0 .. 3 |->
                          [isValid |-> ATAIdentify(DriveKinds[i]),
                           table |-> IF ATAIdentify(DriveKinds[i]) THEN t ELSE NoTable]]
           /\ partition = IF Booted THEN ParseBootRecord(d[t.startLBA], t.startLBA)
                          ELSE ParseBootRecord(Zeroed, 0)
  /\ probing = IF Booted THEN Done ELSE 0
  /\ op = [p \in Procs |-> NoOp]
  /\ opened = [p \in Procs |-> Unopened]
  /\ loaded = [p \in Procs |-> Nothing]

\* A child inherits its parent's memory; a kernel thread has a stack of its own.
Fork(child) ==
  /\ InProgram
  /\ \/ /\ sysFork(child)
        /\ opened' = [opened EXCEPT ![child] = opened[Me]]
        /\ loaded' = [loaded EXCEPT ![child] = loaded[Me]]
     \/ KernelThread(child) /\ UNCHANGED <<opened, loaded>>
  /\ UNCHANGED <<ataVars, disk, drives, partition, probing, op>>

Quiet == UNCHANGED <<ataVars, fileVars>>

FilesNext ==
  \/ (Tick \/ KeyPress \/ ResumeElsewhere) /\ Quiet
  \/ ~InSyscall /\ (HPETHandler \/ doKBCInterrupt) /\ Quiet
  \/ InProgram /\ (SchedulerStart \/ sysExit) /\ Quiet
  \/ (DriveAnswers \/ PolledReadReturns) /\ UNCHANGED fileVars
  \/ ~InSyscall /\ ATAHandler /\ UNCHANGED fileVars
  \/ KeyWhileDriveInitPolls
  \/ \E child \in Procs : Fork(child)
  \/ DriveInit \/ DriveInitGoesOn
  \/ \E name \in Names : OPEN(name) \/ EXEC(name)
  \/ READ
  \/ OPENReturns \/ READReturns
  \/ ExecFindsFile \/ ExecLoads

FilesSpec == FilesInit /\ [][FilesNext]_filesVars

\* As in Ata: a call that sleeps in its read has nothing else to wait for.
FilesFairness ==
  /\ WF_filesVars(SchedulerStart /\ Quiet)
  /\ WF_filesVars(Tick /\ Quiet)
  /\ WF_filesVars(HPETHandler /\ Quiet)
  /\ WF_filesVars(ResumeElsewhere /\ Quiet)
  /\ WF_filesVars(OPENReturns)
  /\ WF_filesVars(READReturns)
  /\ WF_filesVars(DriveAnswers /\ UNCHANGED fileVars)
  /\ SF_filesVars(ATAHandler /\ UNCHANGED fileVars)

FairFilesSpec == FilesSpec /\ FilesFairness /\ RoomBetweenInterrupts

-----------------------------------------------------------------------------
(***************************************************************************)
(* Properties                                                              *)
(***************************************************************************)
FileRecords == {NotFound} \cup [start : Nat, size : Sizes]

FilesTypeOK ==
  /\ AtaTypeOK
  /\ \A i \in 0 .. 3 : drives[i].isValid \in BOOLEAN /\ drives[i].table.startLBA \in Nat
  /\ partition.rootDirStartLBA \in Nat /\ partition.dataStartLBA \in Nat
  /\ probing \in 0 .. Done
  /\ \A p \in Procs :
       /\ op[p].name \in Names \cup {<<>>} /\ op[p].file \in FileRecords
       /\ opened[p].name \in Names \cup {<<>>} /\ opened[p].file \in FileRecords
       /\ loaded[p].name \in Names \cup {<<>>}

\* The files a name may stand for: strncmp compares as far as the name goes.
Means(name) == {s \in {disk[lba] : lba \in DOMAIN disk} : s.kind = "data" /\ IsPrefix(name, s.name)}

\* What a program gets by READ after OPEN, or executes by EXEC, is the contents
\* of a file its name means, wherever the partition lies, whatever failed at
\* boot or later, and whoever reads meanwhile: DriveInit, ParseBootRecord and
\* GetFileInfo ignore the results of their reads.
LoadsTheNamedFile ==
  \A p \in Procs : loaded[p] # Nothing => loaded[p].sector \in Means(loaded[p].name)

\* Without drive errors OPEN finds a file exactly when there is one, and the
\* sector it gives to the program is that file's.
OpenFindsTheFile ==
  \A p \in Procs :
    LET file == opened[p].file
    IN  opened[p] # Unopened =>
          IF Means(opened[p].name) = {} THEN file = NotFound
          ELSE file # NotFound /\ SectorAt(file.start) \in Means(opened[p].name)
=============================================================================
