------------------------------- MODULE BootDisk -------------------------------
(***************************************************************************)
(* How the boot sector (boot/boot.s) and the loader (boot/loader.s) read   *)
(* the disk through boot/disk.inc: the partition table, the head of the    *)
(* Green file system, the loader, the kernel.  The sectors on the disk     *)
(* stand for their content.                                                *)
(*                                                                         *)
(* The LBA packet lies over the geometry that check_disk stores in CHS     *)
(* mode: its dword with the destination is sectors, the lower half of its  *)
(* LBA is heads, and the upper half, which read_disk_lba does not write,   *)
(* begins with cylinders.                                                  *)
(*                                                                         *)
(* The BIOS (external) answers either way at each check, and each of its   *)
(* reads may fail.  When memory then holds something else than what was    *)
(* asked for, the code goes on with it; the model stops.                   *)
(***************************************************************************)
EXTENDS Integers, Sequences

CONSTANTS Sectors,      \* the disk's sectors per track
          HeadCount,        \* the disk's heads
          Cylinders,    \* the disk's cylinders, as the BIOS tells them
          Starts,       \* where partitions may start
          LoaderStart,  \* of the file system's head: where the loader starts
          KernelStart   \* and where the kernel starts, from the partition's start

ASSUME DiskAssumption ==
  /\ Sectors \in Nat \ {0} /\ Sectors <= 63 /\ HeadCount \in Nat \ {0} /\ HeadCount <= 255
  /\ Cylinders \in 1..1024
  /\ \A start \in Starts : start \in Nat \ {0} /\ start <= 60000
  /\ LoaderStart \in Nat \ {0} /\ LoaderStart <= 1000
  /\ KernelStart \in Nat \ {0} /\ KernelStart <= 1000

VARIABLES pc,            \* what is read next, or how it ended
          table,         \* external: the four entries of the partition table
          read_disk_fun,
          sectors, heads, cylinders,
          start_sector,
          found,         \* eax after the search of the partition table
          loaded,        \* ghost: the sector that was read for each area
          failed         \* ghost: whether a read has failed

diskVars == <<pc, table, read_disk_fun, sectors, heads, cylinders, start_sector, found,
              loaded, failed>>

\* No sector, and one whose number does not fit 32 bits
Nowhere == -1
Beyond == -2

Entry(status, id, start) == [status |-> status, id |-> id, start |-> start]
Entries ==
  {Entry(0, 0, 0)} \cup
  UNION {{Entry(0, 224, start), Entry(128, 11, start), Entry(128, 224, start)} : start \in Starts}
IsGreen(e) == e.status = 128 /\ e.id = 224

\* mem_set has cleared the parameters, boot_drive is not told apart
DiskInit ==
  /\ table \in [1..4 -> Entries]
  /\ pc = "check boot"
  /\ read_disk_fun = "none"
  /\ sectors = 0 /\ heads = 0 /\ cylinders = 0 /\ start_sector = 0 /\ found = 0
  /\ loaded = [area \in {"mbr", "fs", "loader", "kernel"} |-> Nowhere]
  /\ failed = FALSE

\* check_disk; in CHS mode the BIOS tells the geometry.  The loader calls it anew.
CheckDisk ==
  /\ pc \in {"check boot", "check loader"}
  /\ pc' = IF pc = "check boot" THEN "mbr" ELSE "kernel"
  /\ \/ read_disk_fun' = "lba" /\ UNCHANGED <<sectors, heads, cylinders>>
     \/ /\ read_disk_fun' = "chs"
        /\ sectors' = Sectors /\ heads' = HeadCount /\ cylinders' = Cylinders
  /\ UNCHANGED <<table, start_sector, found, loaded, failed>>

-----------------------------------------------------------------------------

\* A faulty ChsSector that counts sectors from 0 as LBA does.
ChsSectorFromZero(lba, s, h) ==
  LET cylinder == ((lba \div s) \div h) % 1024
      cl == (lba % s) % 256
      head == ((lba \div s) % h) % 256
  IN  ((cylinder % 256) * HeadCount + head) * Sectors + (cl % 64) - 1

\* The sector read_disk_chs has the BIOS read for lba with the geometry s and h: the
\* cylinder has 10 bits, of which cl holds two beside the number of the sector, from 1.
\* Nowhere if the disk has no such sector.
ChsSector(lba, s, h) ==
  LET cylinder == ((lba \div s) \div h) % 1024
      head == ((lba \div s) % h) % 256
      cl == (((lba % s) % 256) + 1 + (cylinder \div 256) * 64) % 256
      track == ((cylinder % 256) + (cl \div 64) * 256) * HeadCount + head
  IN  IF head < HeadCount /\ cl % 64 \in 1..Sectors
      THEN track * Sectors + (cl % 64) - 1 ELSE Nowhere

\* The areas and their destinations, as segment * 65536 + offset; for fs, whose segment
\* is cs, which is 0, the address the Makefile gives the section.
Destination == [mbr |-> 1536, fs |-> 2048, loader |-> 32768, kernel |-> 268435456]
NextRead == [mbr |-> "fs", fs |-> "loader", loader |-> "check loader", kernel |-> "running"]

\* What a read of lba leaves in its area, and whether the program can go on with it
Arrived(area, lba, sector) ==
  /\ loaded' = [loaded EXCEPT ![area] = sector]
  /\ pc' = IF sector = lba THEN NextRead[area] ELSE "stray"

\* read_disk_chs with the geometry s and h, when a read has failed before or none has.
\* It does not look at the result of the BIOS.
ReadDiskChs(area, lba, s, h, before) ==
  IF s = 0 \/ h = 0
  THEN pc' = "divide error" /\ failed' = before /\ UNCHANGED loaded
  ELSE \/ Arrived(area, lba, ChsSector(lba, s, h)) /\ failed' = before
       \/ Arrived(area, lba, Nowhere) /\ failed' = TRUE

\* Where the LBA packet lies over the geometry
PacketCells(area, lba) == sectors' = Destination[area] /\ heads' = lba

\* The sector the packet names: cylinders is the upper half of its LBA.
PacketSector(lba) == IF cylinders = 0 THEN lba ELSE Beyond

\* read_disk_lba; if the BIOS fails it goes on in read_disk_chs
ReadDiskLba(area, lba) ==
  /\ PacketCells(area, lba)
  /\ \/ Arrived(area, lba, PacketSector(lba)) /\ UNCHANGED failed
     \/ ReadDiskChs(area, lba, sectors', heads', TRUE)

ReadDisk(area, lba) ==
  /\ pc = area
  /\ \/ read_disk_fun = "lba" /\ ReadDiskLba(area, lba)
     \/ /\ read_disk_fun = "chs" /\ ReadDiskChs(area, lba, sectors, heads, failed)
        /\ UNCHANGED <<sectors, heads>>
  /\ UNCHANGED <<table, read_disk_fun, cylinders>>

-----------------------------------------------------------------------------

GreenEntries == {i \in 1..4 : IsGreen(table[i])}
FirstGreen == CHOOSE i \in GreenEntries : \A j \in GreenEntries : i <= j

\* The start of the first entry that is active and Green
PartitionStart == table[FirstGreen].start

\* al after the search of a table without one: of the last entry, the byte it failed for
LastByte == IF table[4].status = 128 THEN table[4].id ELSE table[4].status

\* The first read of read_loader and the search of the table it brought
ReadMbr ==
  /\ ReadDisk("mbr", 0)
  /\ IF pc' # "fs" THEN UNCHANGED <<start_sector, found>>
     ELSE IF GreenEntries # {}
     THEN start_sector' = PartitionStart /\ found' = PartitionStart
     ELSE found' = LastByte /\ UNCHANGED start_sector

\* The head of the file system, from the start of the partition
ReadFs == ReadDisk("fs", found) /\ UNCHANGED <<start_sector, found>>

\* The loader; without a partition, what was read for its head is no file system
ReadLoader ==
  /\ GreenEntries # {}
  /\ ReadDisk("loader", LoaderStart + start_sector)
  /\ UNCHANGED <<start_sector, found>>

ReadKernel == ReadDisk("kernel", start_sector + KernelStart) /\ UNCHANGED <<start_sector, found>>

DiskNext == CheckDisk \/ ReadMbr \/ ReadFs \/ ReadLoader \/ ReadKernel

DiskSpec == DiskInit /\ [][DiskNext]_diskVars

-----------------------------------------------------------------------------

\* Reads by LBA when the first check had chosen CHS, as the loader's own check may
ModesMixed == read_disk_fun = "lba" /\ cylinders # 0

\* As long as no read fails and the loader's check does not choose LBA after CHS, every
\* read finds the sector it asked for, without a division by zero: the CHS arithmetic
\* gives the place of the sector in any geometry, and LBA reads spoil the geometry only
\* where nobody uses it before the loader asks the BIOS again.
\* The kernel that is started, and the loader and the file system head before it, are
\* those of the first active Green partition, also when some LBA reads failed.
RightLoaded ==
  /\ pc \in {"stray", "divide error"} => failed \/ ModesMixed
  /\ pc = "running" =>
       /\ loaded["fs"] = table[FirstGreen].start
       /\ loaded["loader"] = table[FirstGreen].start + LoaderStart
       /\ loaded["kernel"] = table[FirstGreen].start + KernelStart

\* What disk.inc:140 says: LBA and CHS use one buffer, as they cannot collide.  So no
\* read goes astray unless the BIOS fails.  But cylinders, stored when the boot sector
\* chose CHS, is the upper half of the LBA when the loader chooses LBA.
ModesApart == pc \in {"stray", "divide error"} => failed
=============================================================================
