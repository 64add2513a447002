------------------------------- MODULE DiskIO -------------------------------
(***************************************************************************)
(* Sector transfers through the BIOS: syslinux/libcore/fs/diskio.c.        *)
(*                                                                         *)
(* A call of disk->rdwr_sectors is a loop over chunks; a chunk is tried    *)
(* RETRY_COUNT + 1 times, then halved, and when a single sector will not   *)
(* transfer the EDD routine hands over to the CHS routine.  All callers    *)
(* read (is_write = 0).  Buffer addresses are counted in units of a part   *)
(* of a sector, so that a buffer need not be aligned with the 64 KiB       *)
(* segments that a BIOS transfer must not cross.  The BIOS, INT 13h, is    *)
(* external: any call of it may succeed or fail, and it always returns.    *)
(***************************************************************************)
EXTENDS Integers

CONSTANTS
  RETRY_COUNT,
  MaxTransfers,   \* what disk->maxtransfer may be after disk_init
  SectorSize,     \* bytes in a sector
  SecUnits,       \* address units in a sector
  SegUnits,       \* address units in a 64 KiB segment
  LowLimit,       \* 0xf0000: a buffer above it needs the transfer buffer
  Bufs,           \* buffer addresses passed by callers
  Lbas,           \* first sectors passed by callers
  MaxCount,       \* bound: sectors per call
  PartStart,      \* disk->part_start
  SecPerTrack,    \* disk->s
  ChsMax          \* chs_max(disk), where cylinder 1024 would start

ASSUME DiskAssumption ==
  /\ RETRY_COUNT \in Nat /\ MaxTransfers \subseteq Nat \ {0}
  /\ SectorSize \in Nat \ {0, 1} /\ SecUnits \in Nat \ {0}
  /\ SegUnits \in Nat /\ SecUnits <= SegUnits
  /\ LowLimit \in Nat /\ Bufs \subseteq Nat /\ Lbas \subseteq Nat
  /\ MaxCount \in Nat /\ PartStart \in Nat
  /\ SecPerTrack \in Nat \ {0} /\ ChsMax \in Nat

VARIABLES
  rdwr,           \* disk->rdwr_sectors: "edd" or "chs"
  maxtransfer,    \* disk->maxtransfer
  pc,             \* "idle", "loop", "try" or "ret"
  call,           \* the caller's arguments
  mode,           \* the routine that is running
  lba, ptr, count, done, chunk, retry, mt,   \* its local variables
  bufarg,         \* its buf argument
  mem,            \* which sector each slot of the caller's buffer holds
  fell,           \* sectors transferred before the fallback to CHS, -1: none
  fails           \* history: the failures in a row of the current BIOS request

vars == <<rdwr, maxtransfer, pc, call, mode, lba, ptr, count, done, chunk,
          retry, mt, bufarg, mem, fell, fails>>

MinOf(a, b) == IF a <= b THEN a ELSE b
NoSector == -1
Slot == 0 .. MaxCount - 1

(***************************************************************************)
(* disk_init decides the method and the transfer limit.                    *)
(***************************************************************************)
Init ==
  /\ rdwr \in {"edd", "chs"}
  /\ maxtransfer \in MaxTransfers
  /\ pc = "idle" /\ mode = rdwr
  /\ call = [buf |-> 0, lba |-> 0, count |-> 0]
  /\ lba = 0 /\ ptr = 0 /\ count = 0 /\ done = 0 /\ chunk = 0
  /\ retry = 0 /\ mt = maxtransfer /\ bufarg = 0
  /\ mem = [i \in Slot |-> NoSector] /\ fell = -1 /\ fails = 0

\* chs_rdwr_sectors gives up at once on an impossible request.
Enter(m, b, l, c) ==
  /\ mode' = m
  /\ bufarg' = b /\ ptr' = b /\ lba' = l + PartStart /\ count' = c /\ done' = 0
  /\ mt' = maxtransfer
  /\ pc' = IF m = "chs" /\ l + PartStart >= ChsMax THEN "ret" ELSE "loop"

\* disk->rdwr_sectors(disk, buf, lba, count, 0)
RdwrSectors(b, l, c) ==
  /\ pc = "idle"
  /\ call' = [buf |-> b, lba |-> l, count |-> c]
  /\ Enter(rdwr, b, l, c)
  /\ mem' = [i \in Slot |-> NoSector] /\ fell' = -1 /\ fails' = 0
  /\ UNCHANGED <<rdwr, maxtransfer, chunk, retry>>

(***************************************************************************)
(* The head of the loop: a chunk that fits.                                *)
(***************************************************************************)
FreeSeg(a) == (SegUnits - (a % SegUnits)) \div SecUnits

\* The CHS routine looks at buf where the EDD routine looks at ptr.
Direct == (IF mode = "chs" THEN bufarg ELSE ptr) <= LowLimit /\ FreeSeg(ptr) > 0

\* Where the BIOS puts the data: in place or in core_xfer_buf.
Target == IF Direct THEN ptr ELSE 0

TrackLeft == SecPerTrack - (lba % SecPerTrack)

\* Mutant: the segment boundary is not looked at.
ChunkSizeIgnoresSegment ==
  IF mode = "chs" THEN MinOf(MinOf(count, mt), TrackLeft) ELSE MinOf(count, mt)

ChunkSize ==
  LET fit == MinOf(MinOf(count, mt), FreeSeg(Target))
  IN IF mode = "chs" THEN MinOf(fit, TrackLeft) ELSE fit

NextChunk ==
  /\ pc = "loop" /\ count > 0
  /\ chunk' = ChunkSize /\ retry' = RETRY_COUNT /\ fails' = 0
  /\ pc' = "try"
  /\ UNCHANGED <<rdwr, maxtransfer, call, mode, lba, ptr, count, done, mt,
                 bufarg, mem, fell>>

AllDone ==
  /\ pc = "loop" /\ count = 0
  /\ pc' = "ret"
  /\ UNCHANGED <<rdwr, maxtransfer, call, mode, lba, ptr, count, done, chunk,
                 retry, mt, bufarg, mem, fell, fails>>

\* A CHS address past cylinder 1023 is not even tried.
Addressable == mode = "edd" \/ lba < ChsMax

\* The slots of the caller's buffer that the chunk at address a fills.
Delivered(a) ==
  [i \in Slot |->
     LET k == i - (a - call.buf) \div SecUnits
     IN IF k \in 0 .. chunk - 1 THEN lba - PartStart + k ELSE mem[i]]

\* Mutant: bytes are subtracted from a count of sectors.
IntOkCountsBytes ==
  /\ pc = "try" /\ Addressable
  /\ mem' = Delivered(ptr)
  /\ maxtransfer' = mt
  /\ ptr' = ptr + chunk * SecUnits
  /\ lba' = lba + chunk /\ count' = count - chunk * SectorSize /\ done' = done + chunk
  /\ pc' = "loop"
  /\ UNCHANGED <<rdwr, call, mode, chunk, retry, mt, bufarg, fell, fails>>

(***************************************************************************)
(* INT 13h succeeds: the chunk is in the buffer, and a transfer size that  *)
(* had to be reduced is remembered.                                        *)
(***************************************************************************)
\* Mutant: the buffer position does not advance.
IntOkForgetsPtr ==
  /\ pc = "try" /\ Addressable
  /\ mem' = Delivered(ptr)
  /\ maxtransfer' = mt
  /\ lba' = lba + chunk /\ count' = count - chunk /\ done' = done + chunk
  /\ pc' = "loop"
  /\ UNCHANGED <<rdwr, call, mode, ptr, chunk, retry, mt, bufarg, fell, fails>>

IntOk ==
  /\ pc = "try" /\ Addressable
  /\ mem' = Delivered(ptr)
  /\ maxtransfer' = mt
  /\ ptr' = ptr + chunk * SecUnits
  /\ lba' = lba + chunk /\ count' = count - chunk /\ done' = done + chunk
  /\ pc' = "loop"
  /\ UNCHANGED <<rdwr, call, mode, chunk, retry, mt, bufarg, fell, fails>>

\* INT 13h fails and there are retries left.
Retry ==
  /\ pc = "try" /\ Addressable /\ retry > 0
  /\ retry' = retry - 1 /\ fails' = fails + 1
  /\ UNCHANGED <<rdwr, maxtransfer, pc, call, mode, lba, ptr, count, done,
                 chunk, mt, bufarg, mem, fell>>

\* Mutant: a chunk is halved to at least one sector.
HalveRoundsUp ==
  /\ pc = "try" /\ Addressable /\ retry = 0
  /\ chunk' = (chunk + 1) \div 2 /\ mt' = (chunk + 1) \div 2
  /\ retry' = RETRY_COUNT /\ fails' = 0
  /\ UNCHANGED <<rdwr, maxtransfer, pc, call, mode, lba, ptr, count, done,
                 bufarg, mem, fell>>

\* No retries left: half the chunk, and that becomes the limit of this call.
Halve ==
  /\ pc = "try" /\ Addressable /\ retry = 0 /\ chunk > 1
  /\ chunk' = chunk \div 2 /\ mt' = chunk \div 2
  /\ retry' = RETRY_COUNT /\ fails' = 0
  /\ UNCHANGED <<rdwr, maxtransfer, pc, call, mode, lba, ptr, count, done,
                 bufarg, mem, fell>>

(***************************************************************************)
(* A single sector that cannot be read ends the CHS routine, and makes the *)
(* EDD routine call the CHS routine for the rest, with the buf and the     *)
(* part_start-relative lba it has itself.                                  *)
(***************************************************************************)
Exhausted == Addressable /\ retry = 0 /\ chunk = 1

FallBack ==
  /\ pc = "try" /\ mode = "edd" /\ Exhausted
  /\ fell' = done
  /\ Enter("chs", bufarg, lba - PartStart, count)
  /\ fails' = fails + 1
  /\ UNCHANGED <<rdwr, maxtransfer, call, chunk, retry, mem>>

\* Mutant: the routine gives up without having tried single sectors.
ChsGivesUpEarly ==
  /\ pc = "try" /\ mode = "chs" /\ (~ Addressable \/ retry = 0)
  /\ pc' = "ret"
  /\ fails' = IF Addressable THEN fails + 1 ELSE fails
  /\ UNCHANGED <<rdwr, maxtransfer, call, mode, lba, ptr, count, done, chunk,
                 retry, mt, bufarg, mem, fell>>

ChsGivesUp ==
  /\ pc = "try" /\ mode = "chs" /\ (~ Addressable \/ Exhausted)
  /\ pc' = "ret"
  /\ fails' = IF Addressable THEN fails + 1 ELSE fails
  /\ UNCHANGED <<rdwr, maxtransfer, call, mode, lba, ptr, count, done, chunk,
                 retry, mt, bufarg, mem, fell>>

\* What the fallback had to transfer.
Rest == call.count - fell

\* The call returns done.  After a fallback, the number of sectors done is
\* compared with a number of bytes to decide whether the disk is a CHS disk.
Return ==
  /\ pc = "ret"
  /\ pc' = "idle"
  /\ rdwr' = IF fell >= 0 /\ done = Rest * SectorSize THEN "chs" ELSE rdwr
  /\ UNCHANGED <<maxtransfer, call, mode, lba, ptr, count, done, chunk, retry,
                 mt, bufarg, mem, fell, fails>>

Step ==
  \/ NextChunk \/ AllDone \/ IntOk \/ Retry \/ Halve \/ FallBack
  \/ ChsGivesUp \/ Return

Next ==
  \/ \E b \in Bufs, l \in Lbas, c \in 0 .. MaxCount : RdwrSectors(b, l, c)
  \/ Step

Spec == Init /\ [][Next]_vars /\ WF_vars(Step)

-----------------------------------------------------------------------------
TypeOK ==
  /\ rdwr \in {"edd", "chs"} /\ mode \in {"edd", "chs"}
  /\ pc \in {"idle", "loop", "try", "ret"}
  /\ {maxtransfer, lba, ptr, count, done, chunk, retry, mt, bufarg, fails} \subseteq Nat
  /\ call \in [buf : Nat, lba : Nat, count : 0 .. MaxCount]
  /\ mem \in [Slot -> Nat \cup {NoSector}]
  /\ fell \in -1 .. MaxCount

\* diskio.c:43-66, 168-185.  What is asked of the BIOS is at least one sector,
\* no more than what is left and than the limit, and lies within one 64 KiB
\* segment and, for CHS, one track.
ChunkLegal ==
  pc = "try" =>
    /\ chunk \in 1 .. MinOf(count, mt)
    /\ (Target % SegUnits) + chunk * SecUnits <= SegUnits
    /\ mode = "chs" => (lba % SecPerTrack) + chunk <= SecPerTrack

\* diskio.c:119-133, 252-265.  When a call returns, the first done sectors of
\* the buffer hold the sectors asked for, in order, however often chunks were
\* retried, halved and bounced; the fallback to CHS included, as long as EDD
\* had not transferred anything.
TransferCorrect ==
  pc = "ret" /\ fell <= 0 =>
    /\ done <= call.count
    /\ \A i \in 0 .. done - 1 : mem[i] = call.lba + i

\* diskio.c:96-116, 210-249.  A call comes back short only when the CHS routine
\* cannot address the next sector or has failed to read it, alone,
\* RETRY_COUNT + 1 times in a row.
ShortOnlyWhenHopeless ==
  pc = "ret" /\ count > 0 =>
    /\ mode = "chs"
    /\ lba >= ChsMax \/ (chunk = 1 /\ fails = RETRY_COUNT + 1)

\* diskio.c:99-102, 221.  The retries and halvings end: every call returns.
CallsReturn == (pc # "idle") ~> (pc = "idle")

-----------------------------------------------------------------------------
(* What comments say and the code does not do. *)

\* diskio.c:235: "Try to fall back to CHS."  What EDD could not read is read by
\* CHS: the sectors reported done are in the buffer.
FallbackCompletesTransfer ==
  pc = "ret" => \A i \in 0 .. done - 1 : mem[i] = call.lba + i
=============================================================================
