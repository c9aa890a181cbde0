--------------------------------- MODULE Disk ---------------------------------
(***************************************************************************)
(* How the loader reads the kernel: the TAR walk of                        *)
(* inufw/platform/pc/module/tar/base.c over the ATA PIO driver of          *)
(* module/ata/base.c, with the drive behind its registers.                 *)
(*                                                                         *)
(* A sector is named by what it holds: the header of a member, a part of a *)
(* member, or nothing.  A register holds one digit of a block address and  *)
(* the digit written before it, as a drive with 48-bit addresses keeps     *)
(* them.                                                                   *)
(***************************************************************************)
EXTENDS Integers, Sequences, FiniteSetsExt

CONSTANTS
  Base,        \* 256, the range of a register
  Word,        \* 2^32, the range of UIntPtr and of the sizes in headers
  SectorSize,  \* TAR_SECTOR
  Archives,    \* archives: sequences of members
  Failures     \* how the drive shows an error: with BSY set or when "done"

Limit == Base * Base * Base    \* 0x01000000: what three registers address

\* A member of an archive: does its name contain the one that is looked for,
\* its size in bytes, and the sector of its header.
Member == [matches : BOOLEAN, size : Nat, first : Nat]

\* TAR rounds what follows a header up to sectors.
DataSectors(member) ==
  member.size \div SectorSize + (IF member.size % SectorSize = 0 THEN 0 ELSE 1)

Behind(member) == member.first + 1 + DataSectors(member)

\* The Makefile packs a directory, which is the first member; each member
\* lies behind the one before it, and somewhere there is the one looked for.
\* Sectors and sizes do not exceed the words that the loader has for them.
ASSUME DiskAssumption ==
  /\ Base \in Nat \ {0, 1} /\ SectorSize \in Nat \ {0}
  /\ Word \in 1 .. Limit * Limit
  /\ \A a \in Archives :
       /\ a \in Seq(Member) /\ a # << >>
       /\ a[1].size = 0 /\ ~a[1].matches /\ a[1].first = 0
       /\ \A i \in 1 .. Len(a) - 1 : a[i + 1].first = Behind(a[i])
       /\ \A i \in DOMAIN a :
            Behind(a[i]) <= Word /\ SectorSize * DataSectors(a[i]) < Word
       /\ \E i \in DOMAIN a : a[i].matches
  /\ Failures \subseteq {"busy", "done"}

VARIABLES
  archive,
  drive,     \* the drive: its registers, status and the sector it offers
  pc,        \* the next step of AtaReadSector, or of AtaInitialize
  lba,       \* the sector that AtaReadSector is asked for
  taken,     \* what AtaIn took from the data register
  task,      \* what the loader is doing
  sector,    \* TAR: the sector the walk has come to
  length,    \* FwReadFileLength: the sectors of the loader's buffer
  located,   \* TarReadFile: the first sector of the file
  count,     \* TarReadFile: the sectors to read
  buffer     \* what AtaRead has put into it

vars == <<archive, drive, pc, lba, taken, task, sector, length, located, count, buffer>>
tarVars == <<archive, task, sector, length, located, count, buffer>>

(* Definitions named Fault... are slips the code could contain at that      *)
(* place; each shows that a property below would notice (see the README).   *)

Nothing == [member |-> 0, part |-> 0]    \* sectors behind the archive
Junk    == [member |-> -1, part |-> 0]   \* what a drive without data offers

\* ceil(size / SectorSize), as lines 35-38 and 51-54 write it.
Sectors(size) == size \div SectorSize + (IF size % SectorSize = 0 THEN 0 ELSE 1)

Extent(i) == archive[i].first .. archive[i].first + DataSectors(archive[i])

Content(s) ==
  IF \E i \in DOMAIN archive : s \in Extent(i)
    THEN LET i == CHOOSE i \in DOMAIN archive : s \in Extent(i) IN
         [member |-> i, part |-> s - archive[i].first]
    ELSE Nothing

-------------------------------------------------------------------------------
(* The drive.                                                              *)

Low(n)   == n % Base      \* & 0xFF
Upper(n) == n \div Base   \* >> 8
Push(register, digit) == <<digit, register[1]>>

\* READ takes three digits, READ EXT six, the older ones above.
Address(extended) ==
  LET Number(k) == drive.lo[k] + Base * drive.mid[k] + Base * Base * drive.hi[k]
  IN  IF extended THEN Number(1) + Limit * Number(2) ELSE Number(1)

Command(name, offer) ==
  [drive EXCEPT !.busy = TRUE, !.error = FALSE, !.ready = FALSE,
                !.command = name, !.offer = offer]

\* The drive carries a command out; a read makes its sector ready.
Complete ==
  /\ drive.busy /\ ~drive.error
  /\ drive' = [drive EXCEPT !.busy = FALSE,
                            !.ready = drive.command \in {"identify", "read"}]
  /\ UNCHANGED <<pc, lba, taken, tarVars>>

\* It cannot: there is no data, and the status says so, as drives do once BSY
\* is clear, or else while it is set.
Fail(how) ==
  /\ drive.busy /\ ~drive.error
  /\ drive' = [drive EXCEPT !.error = TRUE, !.busy = how = "busy", !.offer = Junk]
  /\ UNCHANGED <<pc, lba, taken, tarVars>>

-------------------------------------------------------------------------------
(* The driver.                                                             *)

\* AtaWait leaves its loop when the drive is not busy or has data; it looks
\* at the error bits only inside.
AtaWaited == ~drive.busy \/ drive.ready

AtaFaulty ==
  /\ pc \notin {"reset", "disable", "second", "first", "load", "idle", "halted"}
  /\ drive.busy /\ ~drive.ready /\ drive.error
  /\ pc' = "halted"
  /\ UNCHANGED <<drive, lba, taken, tarVars>>

\* AtaInitialize.  The reset selects the first drive, which stays busy with it
\* for a time that nobody waits for.
AtaReset ==
  /\ pc = "reset"
  /\ drive' = [Command("reset", Junk) EXCEPT !.lba = FALSE, !.selected = 0]
  /\ pc' = "disable"
  /\ UNCHANGED <<lba, taken, tarVars>>

\* A drive that is busy takes nothing that is written to its registers.
AtaSelectDrive(from, index, to) ==
  /\ pc = from
  /\ drive' = IF drive.busy THEN drive ELSE [drive EXCEPT !.selected = index]
  /\ pc' = to
  /\ UNCHANGED <<lba, taken, tarVars>>

\* nIEN is set in both drives; nothing is modelled that it would hold back.
AtaDisableIrq ==
  \/ AtaSelectDrive("disable", 0, "second")
  \/ AtaSelectDrive("second", 1, "first")
  \/ AtaSelectDrive("first", 0, "load")

\* AtaIdentify up to its first AtaWait: drive 0, sector 0, and a count of 16
\* bits, the upper byte of which goes to the register behind.
AtaIdentifyLoad ==
  /\ pc = "load"
  /\ drive' = IF drive.busy THEN drive
              ELSE [drive EXCEPT !.selected = 0, !.lo = Push(Push(@, 0), 0),
                                 !.mid = Push(@, 0), !.hi = Push(@, 0)]
  /\ pc' = "identify"
  /\ UNCHANGED <<lba, taken, tarVars>>

AtaIdentify ==
  /\ pc = "identify" /\ AtaWaited
  /\ drive' = Command("identify", Junk)
  /\ pc' = "identifyIn"
  /\ UNCHANGED <<lba, taken, tarVars>>

AtaIdentifyIn ==
  /\ pc = "identifyIn" /\ AtaWaited
  /\ drive' = Command("flush", Junk)
  /\ pc' = "select"
  /\ UNCHANGED <<lba, taken, tarVars>>

AtaInitialize == AtaWaited /\ AtaSelectDrive("select", 0, "idle")

\* AtaReadSector, from one AtaWait to the next.
AtaFlushCache ==
  /\ pc = "flush" /\ AtaWaited
  /\ drive' = Command("flush", Junk)
  /\ pc' = "configure"
  /\ UNCHANGED <<lba, taken, tarVars>>

\* three registers written with the digits of n
Written(d, n) ==
  [d EXCEPT !.lo = Push(@, Low(n)), !.mid = Push(@, Low(Upper(n))),
            !.hi = Push(@, Low(Upper(Upper(n))))]

FaultAtaConfigureLoad ==           \* the upper digits last
  /\ pc = "configure" /\ AtaWaited
  /\ drive' = IF lba < Limit THEN Written(drive, lba)
              ELSE Written(Written(drive, lba), lba \div Limit)
  /\ pc' = "drive"
  /\ UNCHANGED <<lba, taken, tarVars>>

\* Beyond 0x01000000 each register is written twice, the upper digits first.
AtaConfigureLoad ==
  /\ pc = "configure" /\ AtaWaited
  /\ drive' = IF lba < Limit THEN Written(drive, lba)
              ELSE Written(Written(drive, lba \div Limit), lba)
  /\ pc' = "drive"
  /\ UNCHANGED <<lba, taken, tarVars>>

AtaSetDrive ==
  /\ pc = "drive" /\ AtaWaited
  /\ drive' = [drive EXCEPT !.lba = TRUE]
  /\ pc' = "command"
  /\ UNCHANGED <<lba, taken, tarVars>>

AtaSendRead ==
  /\ pc = "command" /\ AtaWaited
  /\ drive' = Command("read",
                IF drive.lba /\ drive.selected = 0
                  THEN Content(Address(lba >= Limit)) ELSE Junk)
  /\ pc' = "in"
  /\ UNCHANGED <<lba, taken, tarVars>>

AtaIn ==
  /\ pc = "in" /\ AtaWaited
  /\ taken' = drive.offer
  /\ drive' = [drive EXCEPT !.ready = FALSE, !.offer = Junk]
  /\ pc' = "read"
  /\ UNCHANGED <<lba, tarVars>>

-------------------------------------------------------------------------------
(* The walk over the archive.                                              *)

Read(s) == pc' = "flush" /\ lba' = s /\ UNCHANGED <<drive, taken>>

\* BtldrInitialize asks for the length first, and then for the file, which
\* TarReadFile locates and measures again before it reads.
FwReadFileLength ==
  /\ task = "start" /\ pc = "idle"
  /\ task' = "length" /\ sector' = 0 /\ Read(0)
  /\ UNCHANGED <<archive, length, located, count, buffer>>

IsHeader == taken.member \in DOMAIN archive /\ taken.part = 0
Matches  == IsHeader /\ archive[taken.member].matches
Header   == archive[taken.member]

FaultNextSector == sector + Sectors(Header.size)

\* Lines 34-38 and 57-61.
NextSector == sector + 1 + Sectors(Header.size)

\* A header that is not the one: on to the next.  What is no header gives a
\* size, and so a next sector, that nobody meant; the model stops there.
WalkOn ==
  /\ task \in {"length", "locate", "measure"} /\ pc = "read" /\ ~Matches
  /\ IF IsHeader
       THEN sector' = NextSector /\ Read(NextSector) /\ UNCHANGED task
       ELSE task' = "lost" /\ UNCHANGED <<sector, drive, pc, lba, taken>>
  /\ UNCHANGED <<archive, length, located, count, buffer>>

TarReadFileLength ==
  /\ task = "length" /\ pc = "read" /\ Matches
  /\ length' = Sectors(Header.size)
  /\ task' = "locate" /\ sector' = 1 /\ Read(1)
  /\ UNCHANGED <<archive, located, count, buffer>>

FaultTarLocateFileSector ==        \* the sector of the header
  /\ task = "locate" /\ pc = "read" /\ Matches
  /\ located' = sector
  /\ task' = "measure" /\ sector' = 0 /\ Read(0)
  /\ UNCHANGED <<archive, length, count, buffer>>

TarLocateFileSector ==
  /\ task = "locate" /\ pc = "read" /\ Matches
  /\ located' = sector + 1
  /\ task' = "measure" /\ sector' = 0 /\ Read(0)
  /\ UNCHANGED <<archive, length, count, buffer>>

\* AtaRead(count, located, buffer): the next sector, or the end.
AtaReadOn(done, next, n) ==
  IF done = n
    THEN task' = "done" /\ pc' = "idle" /\ UNCHANGED <<drive, lba, taken, sector>>
    ELSE task' = "read" /\ sector' = next /\ Read(next)

TarReadFile ==
  /\ task = "measure" /\ pc = "read" /\ Matches
  /\ count' = Sectors(Header.size)
  /\ AtaReadOn(0, located, count')
  /\ UNCHANGED <<archive, length, located, buffer>>

FaultAtaRead ==                    \* one sector too many
  /\ task = "read" /\ pc = "read"
  /\ buffer' = Append(buffer, taken)
  /\ AtaReadOn(Len(buffer), sector + 1, count)
  /\ UNCHANGED <<archive, length, located, count>>

AtaRead ==
  /\ task = "read" /\ pc = "read"
  /\ buffer' = Append(buffer, taken)
  /\ AtaReadOn(Len(buffer'), sector + 1, count)
  /\ UNCHANGED <<archive, length, located, count>>

-------------------------------------------------------------------------------
Init ==
  /\ archive \in Archives
  /\ drive = [lo |-> <<1, 1>>, mid |-> <<1, 1>>, hi |-> <<1, 1>>, lba |-> FALSE,
              busy |-> FALSE, ready |-> FALSE, error |-> FALSE, command |-> "none",
              offer |-> Junk, selected |-> 0]
  /\ pc = "reset" /\ lba = 0 /\ taken = Junk
  /\ task = "start" /\ sector = 0
  /\ length = 0 /\ located = 0 /\ count = 0 /\ buffer = << >>

Drive == Complete \/ \E how \in Failures : Fail(how)

Loader ==
  \/ AtaReset \/ AtaDisableIrq \/ AtaIdentifyLoad \/ AtaIdentify \/ AtaIdentifyIn
  \/ AtaInitialize
  \/ AtaFlushCache \/ AtaConfigureLoad \/ AtaSetDrive \/ AtaSendRead \/ AtaIn
  \/ AtaFaulty
  \/ FwReadFileLength \/ WalkOn \/ TarReadFileLength \/ TarLocateFileSector
  \/ TarReadFile \/ AtaRead

Next == Drive \/ Loader

\* The loader is the only program; a drive ends every command somehow.
Spec == Init /\ [][Next]_vars /\ WF_vars(Drive) /\ WF_vars(Loader)

-------------------------------------------------------------------------------
Digit == 0 .. Base - 1
SectorName == [member : Nat \cup {-1}, part : Nat]
DriveState ==
  [lo : Digit \X Digit, mid : Digit \X Digit, hi : Digit \X Digit, lba : BOOLEAN,
   busy : BOOLEAN, ready : BOOLEAN, error : BOOLEAN, offer : SectorName,
   command : {"none", "reset", "identify", "flush", "read"}, selected : {0, 1}]

\* Loader and drive keep their types; names of sectors are as in Content.
TypeOK ==
  /\ archive \in Archives
  /\ drive \in DriveState
  /\ pc \in {"reset", "disable", "second", "first", "load", "identify", "identifyIn",
             "select", "idle", "flush", "configure", "drive", "command", "in", "read",
             "halted"}
  /\ lba \in Nat /\ sector \in Nat /\ length \in Nat /\ located \in Nat /\ count \in Nat
  /\ taken \in SectorName /\ buffer \in Seq(SectorName)
  /\ task \in {"start", "length", "locate", "measure", "read", "done", "lost"}

\* Whatever the address, on either side of 0x01000000, the sector that comes
\* out of the data register is the one that AtaReadSector was asked for; every
\* register holds digits that fit it.  It is not if the drive shows an error
\* with BSY clear: AtaWait has not looked at it (line 71).
ReadsAskedSector ==
  /\ TypeOK
  /\ pc = "read" => taken = IF drive.error THEN Junk ELSE Content(lba)

\* the member that the loader should get
Wanted == Min({i \in DOMAIN archive : archive[i].matches})

\* TarReadFile delivers the first member whose name matches: as many sectors
\* as it has, each in its place, but for those that the drive failed to read.
FileDelivered ==
  task = "done" =>
    /\ Len(buffer) = DataSectors(archive[Wanted])
    /\ \A k \in DOMAIN buffer : buffer[k] \in {[member |-> Wanted, part |-> k], Junk}

\* What is read fits the buffer that BtldrInitialize laid out beforehand, for
\* the length that another walk over the archive had answered.
FitsBuffer == task \in {"read", "done"} => Len(buffer) <= length

\* The loader gets its file, or halts because the drive is faulty, or goes by
\* a header that it took from a drive which was showing an error.
Answers == <>(task = "done" \/ pc = "halted" \/ (task = "lost" /\ drive.error))
===============================================================================
