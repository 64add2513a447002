---------------------------- MODULE DiskIOProofs ----------------------------
(***************************************************************************)
(* Sector transfers are legal and land where they belong, for every disk   *)
(* geometry, sector size, segment size and number of retries.              *)
(***************************************************************************)
EXTENDS DiskIO, TLAPS

\* Sectors that were transferred before the routine that is running.
Before == IF fell >= 0 THEN fell ELSE 0

\* Local variables and arguments agree on what has been transferred: position
\* in the buffer, next sector and what is left.
PositionInv ==
  /\ bufarg = call.buf /\ ptr = bufarg + done * SecUnits
  /\ pc # "idle" => /\ lba = call.lba + PartStart + Before + done
                    /\ done + count + Before = call.count
  /\ mode = "edd" => fell = -1

\* Where there was no fallback, or one before anything was transferred.
BufferInv ==
  pc # "idle" /\ fell <= 0 => \A i \in 0 .. done - 1 : mem[i] = call.lba + i

\* The limit never becomes 0, and retries are counted down to 0.
LimitInv ==
  /\ maxtransfer > 0 /\ mt > 0
  /\ pc = "try" => retry <= RETRY_COUNT /\ fails = RETRY_COUNT - retry

IInv == /\ TypeOK /\ PositionInv /\ BufferInv /\ LimitInv /\ ChunkLegal
        /\ ShortOnlyWhenHopeless

-----------------------------------------------------------------------------
(* Arithmetic. *)

\* What the quotient of a division is.
LEMMA DivFacts ==
  ASSUME NEW a \in Nat, NEW d \in Nat \ {0}
  PROVE  /\ a \div d \in Nat /\ a % d \in 0 .. d - 1
         /\ (a \div d) * d <= a
         /\ a >= d => a \div d >= 1
<1>1. a % d \in 0 .. d - 1
  OBVIOUS
<1>2. a \div d \in Nat
  OBVIOUS
<1>3. (a \div d) * d <= a
  OBVIOUS
<1>4. a >= d => a \div d >= 1
  OBVIOUS
<1>5. QED
  BY <1>1, <1>2, <1>3, <1>4

\* Multiplication is monotonic.
LEMMA MulMono ==
  ASSUME NEW a \in Nat, NEW b \in Nat, NEW c \in Nat, a <= b
  PROVE  a * c <= b * c /\ a * c \in Nat
OBVIOUS

\* A multiple of the divisor divides exactly.
LEMMA DivExact ==
  ASSUME NEW a \in Nat, NEW d \in Nat \ {0}
  PROVE  (a * d) \div d = a
OBVIOUS

\* A chunk that FreeSeg allows does not cross a segment boundary.
LEMMA FreeSegFits ==
  ASSUME NEW a \in Nat
  PROVE  /\ FreeSeg(a) \in Nat /\ a % SegUnits \in 0 .. SegUnits - 1
         /\ \A c \in 0 .. FreeSeg(a) : (a % SegUnits) + c * SecUnits <= SegUnits
<1>1. SegUnits \in Nat \ {0} /\ SecUnits \in Nat \ {0}
  BY DiskAssumption
<1>2. a % SegUnits \in 0 .. SegUnits - 1
  BY <1>1, DivFacts
<1>3. SegUnits - (a % SegUnits) \in Nat
  BY <1>1, <1>2
<1>4. FreeSeg(a) \in Nat /\ FreeSeg(a) * SecUnits <= SegUnits - (a % SegUnits)
  BY <1>1, <1>3, DivFacts DEF FreeSeg
<1>5. ASSUME NEW c \in 0 .. FreeSeg(a) PROVE (a % SegUnits) + c * SecUnits <= SegUnits
  <2>1. c \in Nat /\ c <= FreeSeg(a)
    BY <1>4
  <2>2. c * SecUnits <= FreeSeg(a) * SecUnits /\ c * SecUnits \in Nat /\ FreeSeg(a) * SecUnits \in Nat
    BY <1>1, <1>4, <2>1, MulMono
  <2>3. QED
    BY <1>1, <1>2, <1>4, <2>2
<1>6. QED
  BY <1>2, <1>4, <1>5

\* The transfer buffer has room for a sector.
LEMMA BounceFits == 0 \in Nat /\ FreeSeg(0) > 0
<1>1. SegUnits \in Nat \ {0} /\ SecUnits \in Nat \ {0} /\ SegUnits >= SecUnits
  BY DiskAssumption
<1>2. 0 % SegUnits = 0
  BY <1>1
<1>3. SegUnits \div SecUnits >= 1 /\ SegUnits \div SecUnits \in Nat
  BY <1>1, DivFacts
<1>4. SegUnits - (0 % SegUnits) = SegUnits
  BY <1>1, <1>2
<1>5. QED
  BY <1>3, <1>4 DEF FreeSeg


-----------------------------------------------------------------------------
(* The invariant holds at the start and is preserved. *)

\* The invariant holds after disk_init.
LEMMA InitInv == Init => IInv
<1> SUFFICES ASSUME Init PROVE IInv
  OBVIOUS
<1>1. maxtransfer \in Nat \ {0} /\ 0 \in 0 .. MaxCount /\ -1 \in -1 .. MaxCount /\ 0 * SecUnits = 0
  BY DiskAssumption DEF Init
<1>2. TypeOK
  <2>1. mem \in [Slot -> Nat \cup {NoSector}]
    BY DEF Init
  <2>2. call \in [buf : Nat, lba : Nat, count : 0 .. MaxCount]
    BY <1>1 DEF Init
  <2>3. QED
    BY <1>1, <2>1, <2>2 DEF Init, TypeOK
<1>3. PositionInv
  BY <1>1 DEF Init, PositionInv
<1>4. BufferInv /\ LimitInv /\ ChunkLegal /\ ShortOnlyWhenHopeless
  BY <1>1 DEF Init, BufferInv, LimitInv, ChunkLegal, ShortOnlyWhenHopeless
<1>5. QED
  BY <1>2, <1>3, <1>4 DEF IInv

\* The types of the numbers, one by one.
LEMMA Numbers ==
  ASSUME TypeOK
  PROVE  /\ maxtransfer \in Nat /\ lba \in Nat /\ ptr \in Nat /\ count \in Nat /\ done \in Nat
         /\ chunk \in Nat /\ retry \in Nat /\ mt \in Nat /\ bufarg \in Nat /\ fails \in Nat
         /\ call.buf \in Nat /\ call.lba \in Nat /\ call.count \in 0 .. MaxCount
         /\ call.count \in Nat /\ fell \in Int /\ fell >= -1
         /\ PartStart \in Nat /\ SecUnits \in Nat \ {0} /\ MaxCount \in Nat
         /\ RETRY_COUNT \in Nat /\ ChsMax \in Nat /\ SecPerTrack \in Nat \ {0}
BY DiskAssumption DEF TypeOK

\* A call starts with nothing transferred.
LEMMA CallInv ==
  ASSUME IInv, NEW b \in Bufs, NEW l \in Lbas, NEW c \in 0 .. MaxCount, RdwrSectors(b, l, c)
  PROVE  IInv'
<1>1. /\ b \in Nat /\ l \in Nat /\ c \in Nat /\ PartStart \in Nat /\ maxtransfer \in Nat
      /\ MaxCount \in Nat /\ SecUnits \in Nat /\ -1 \in -1 .. MaxCount
      /\ maxtransfer > 0
  BY DiskAssumption, Numbers DEF IInv, LimitInv
<1>2. /\ call' = [buf |-> b, lba |-> l, count |-> c] /\ mode' = rdwr
      /\ bufarg' = b /\ ptr' = b /\ lba' = l + PartStart /\ count' = c /\ done' = 0
      /\ mt' = maxtransfer /\ mem' = [i \in Slot |-> NoSector] /\ fell' = -1 /\ fails' = 0
      /\ UNCHANGED <<rdwr, maxtransfer, chunk, retry>>
      /\ pc' = IF rdwr = "chs" /\ l + PartStart >= ChsMax THEN "ret" ELSE "loop"
  BY DEF RdwrSectors, Enter
<1>3. TypeOK'
  <2>1. call' \in [buf : Nat, lba : Nat, count : 0 .. MaxCount]
    BY <1>1, <1>2
  <2>2. mem' \in [Slot -> Nat \cup {NoSector}]
    BY <1>2
  <2>3. {maxtransfer', lba', ptr', count', done', chunk', retry', mt', bufarg', fails'} \subseteq Nat
    BY <1>1, <1>2, Numbers DEF IInv
  <2>4. QED
    BY <1>1, <1>2, <2>1, <2>2, <2>3 DEF IInv, TypeOK
<1>4. PositionInv'
  <2>1. call'.buf = b /\ call'.lba = l /\ call'.count = c
    BY <1>2
  <2>2. b + 0 * SecUnits = b /\ l + PartStart + 0 + 0 = l + PartStart /\ 0 + c + 0 = c
    BY <1>1
  <2>3. QED
    BY <1>2, <2>1, <2>2 DEF PositionInv, Before
<1>5. BufferInv' /\ LimitInv' /\ ChunkLegal'
  BY <1>1, <1>2 DEF BufferInv, LimitInv, ChunkLegal
<1>6. ShortOnlyWhenHopeless'
  BY <1>2 DEF ShortOnlyWhenHopeless
<1>7. QED
  BY <1>3, <1>4, <1>5, <1>6 DEF IInv

\* The chunk chosen at the head of the loop is at least one sector and legal.
LEMMA NextChunkInv == ASSUME IInv, NextChunk PROVE IInv'
<1>1. /\ pc = "loop" /\ count > 0 /\ chunk' = ChunkSize /\ retry' = RETRY_COUNT /\ fails' = 0
      /\ pc' = "try"
      /\ UNCHANGED <<rdwr, maxtransfer, call, mode, lba, ptr, count, done, mt, bufarg, mem, fell>>
  BY DEF NextChunk
<1>2. /\ count \in Nat /\ mt \in Nat /\ mt > 0 /\ ptr \in Nat /\ lba \in Nat
      /\ SecPerTrack \in Nat \ {0} /\ RETRY_COUNT \in Nat
  BY Numbers DEF IInv, LimitInv
<1>3. Target \in Nat /\ FreeSeg(Target) \in Nat /\ FreeSeg(Target) > 0 /\ Target' = Target
  <2>1. Target' = Target
    BY <1>1 DEF Target, Direct
  <2>2. Target \in Nat /\ FreeSeg(Target) > 0
    BY <1>2, BounceFits DEF Target, Direct
  <2>3. QED
    BY <2>1, <2>2, FreeSegFits
<1>4. lba % SecPerTrack \in 0 .. SecPerTrack - 1
  BY <1>2, DivFacts
<1>5. /\ ChunkSize \in Nat /\ ChunkSize >= 1 /\ ChunkSize <= count /\ ChunkSize <= mt
      /\ ChunkSize <= FreeSeg(Target)
      /\ mode = "chs" => ChunkSize <= SecPerTrack - (lba % SecPerTrack)
  BY <1>1, <1>2, <1>3, <1>4 DEF ChunkSize, MinOf, TrackLeft
<1>6. ChunkLegal'
  <2>1. chunk' \in 1 .. MinOf(count, mt) /\ ChunkSize \in 0 .. FreeSeg(Target)
    BY <1>1, <1>2, <1>3, <1>5 DEF MinOf
  <2>2. (Target % SegUnits) + ChunkSize * SecUnits <= SegUnits
    BY <1>3, <2>1, FreeSegFits
  <2>3. mode = "chs" => (lba % SecPerTrack) + ChunkSize <= SecPerTrack
    BY <1>2, <1>4, <1>5
  <2>4. QED
    BY <1>1, <1>3, <2>1, <2>2, <2>3 DEF ChunkLegal
<1>7. TypeOK'
  BY <1>1, <1>2, <1>5 DEF IInv, TypeOK
<1>8. PositionInv' /\ BufferInv' /\ LimitInv' /\ ShortOnlyWhenHopeless'
  BY <1>1, <1>2 DEF IInv, PositionInv, BufferInv, LimitInv, ShortOnlyWhenHopeless, Before
<1>9. QED
  BY <1>6, <1>7, <1>8 DEF IInv

\* The loop ends when nothing is left.
LEMMA AllDoneInv == ASSUME IInv, AllDone PROVE IInv'
<1>1. /\ pc = "loop" /\ count = 0 /\ pc' = "ret"
      /\ UNCHANGED <<rdwr, maxtransfer, call, mode, lba, ptr, count, done, chunk, retry, mt,
                     bufarg, mem, fell, fails>>
  BY DEF AllDone
<1>2. TypeOK'
  BY <1>1 DEF IInv, TypeOK
<1>3. PositionInv' /\ BufferInv' /\ LimitInv' /\ ShortOnlyWhenHopeless' /\ ChunkLegal'
  BY <1>1 DEF IInv, PositionInv, BufferInv, LimitInv, ShortOnlyWhenHopeless, Before, ChunkLegal
<1>4. QED
  BY <1>2, <1>3 DEF IInv

\* A chunk that was transferred is where it belongs, after those before it.
LEMMA IntOkInv == ASSUME IInv, IntOk PROVE IInv'
<1>1. /\ pc = "try" /\ mem' = Delivered(ptr) /\ maxtransfer' = mt
      /\ ptr' = ptr + chunk * SecUnits
      /\ lba' = lba + chunk /\ count' = count - chunk /\ done' = done + chunk /\ pc' = "loop"
      /\ UNCHANGED <<rdwr, call, mode, chunk, retry, mt, bufarg, fell, fails>>
  BY DEF IntOk
<1>2. /\ maxtransfer \in Nat /\ lba \in Nat /\ ptr \in Nat /\ count \in Nat /\ done \in Nat
      /\ chunk \in Nat /\ mt \in Nat /\ mt > 0 /\ bufarg \in Nat /\ call.buf \in Nat
      /\ call.lba \in Nat /\ call.count \in Nat /\ fell \in Int /\ fell >= -1
      /\ PartStart \in Nat /\ SecUnits \in Nat \ {0} /\ MaxCount \in Nat /\ call.count <= MaxCount
  BY Numbers DEF IInv, LimitInv
<1>3. /\ bufarg = call.buf /\ ptr = bufarg + done * SecUnits /\ Before \in Nat
      /\ lba = call.lba + PartStart + Before + done /\ done + count + Before = call.count
      /\ Before' = Before
  BY <1>1, <1>2 DEF IInv, PositionInv, Before
<1>4. chunk >= 1 /\ chunk <= count
  BY <1>1, <1>2 DEF IInv, ChunkLegal, MinOf
<1>5. (ptr - call.buf) \div SecUnits = done
  <2>1. done * SecUnits \in Nat /\ chunk * SecUnits \in Nat
    BY <1>2, MulMono
  <2>2. ptr - call.buf = done * SecUnits
    BY <1>2, <1>3, <2>1
  <2>3. QED
    BY <1>2, <2>2, DivExact
<1>6. mem' = [i \in Slot |-> IF i - done \in 0 .. chunk - 1
                             THEN lba - PartStart + (i - done) ELSE mem[i]]
  BY <1>1, <1>5 DEF Delivered
<1>7. mem' \in [Slot -> Nat \cup {NoSector}]
  <2>1. ASSUME NEW i \in Slot, i - done \in 0 .. chunk - 1
        PROVE  lba - PartStart + (i - done) \in Nat
    BY <1>2, <1>3, <2>1 DEF Slot
  <2>2. mem \in [Slot -> Nat \cup {NoSector}]
    BY DEF IInv, TypeOK
  <2>3. QED
    BY <1>6, <2>1, <2>2
<1>8. ptr' \in Nat /\ ptr' = bufarg + done' * SecUnits
  <2>1. done * SecUnits \in Nat /\ chunk * SecUnits \in Nat
    BY <1>2, MulMono
  <2>2. (done + chunk) * SecUnits = done * SecUnits + chunk * SecUnits
    BY <1>2
  <2>3. QED
    BY <1>1, <1>2, <1>3, <2>1, <2>2
<1>9. TypeOK'
  <2>1. {maxtransfer', lba', ptr', count', done', chunk', retry', mt', bufarg', fails'} \subseteq Nat
    BY <1>1, <1>2, <1>4, <1>8, Numbers DEF IInv
  <2>2. QED
    BY <1>1, <1>7, <2>1 DEF IInv, TypeOK
<1>10. PositionInv'
  BY <1>1, <1>2, <1>3, <1>4, <1>8 DEF IInv, PositionInv
<1>11. BufferInv'
  <2> SUFFICES ASSUME fell <= 0, NEW i \in 0 .. done' - 1 PROVE mem'[i] = call.lba + i
    BY <1>1 DEF BufferInv
  <2>1. i \in Slot /\ i \in Int
    BY <1>1, <1>2, <1>3, <1>4 DEF Slot
  <2>2. CASE i < done
    <3>1. i - done \notin 0 .. chunk - 1 /\ i \in 0 .. done - 1
      BY <1>1, <1>2, <2>1, <2>2
    <3>2. mem[i] = call.lba + i
      BY <1>1, <3>1 DEF IInv, BufferInv
    <3>3. QED
      BY <1>6, <2>1, <3>1, <3>2
  <2>3. CASE i >= done
    <3>1. i - done \in 0 .. chunk - 1
      BY <1>1, <1>2, <2>1, <2>3
    <3>2. Before = 0
      BY <1>2 DEF Before
    <3>3. lba - PartStart + (i - done) = call.lba + i
      BY <1>2, <1>3, <2>1, <3>2
    <3>4. QED
      BY <1>6, <2>1, <3>1, <3>3
  <2>4. QED
    BY <1>2, <2>1, <2>2, <2>3
<1>12. LimitInv' /\ ChunkLegal' /\ ShortOnlyWhenHopeless'
  BY <1>1, <1>2 DEF IInv, LimitInv, ChunkLegal, ShortOnlyWhenHopeless
<1>13. QED
  BY <1>9, <1>10, <1>11, <1>12 DEF IInv

\* A retry changes nothing but the number of retries left.
LEMMA RetryInv == ASSUME IInv, Retry PROVE IInv'
<1>1. /\ pc = "try" /\ retry > 0 /\ retry' = retry - 1 /\ fails' = fails + 1
      /\ UNCHANGED <<rdwr, maxtransfer, pc, call, mode, lba, ptr, count, done, chunk, mt, bufarg,
                     mem, fell>>
  BY DEF Retry
<1>2. retry \in Nat /\ fails \in Nat /\ RETRY_COUNT \in Nat
  BY Numbers DEF IInv
<1>3. TypeOK'
  BY <1>1, <1>2 DEF IInv, TypeOK
<1>4. LimitInv'
  BY <1>1, <1>2 DEF IInv, LimitInv
<1>5. PositionInv' /\ BufferInv' /\ ShortOnlyWhenHopeless'
  BY <1>1 DEF IInv, PositionInv, BufferInv, ShortOnlyWhenHopeless, Before
<1>6. ChunkLegal'
  BY <1>1 DEF IInv, ChunkLegal, Target, Direct
<1>7. QED
  BY <1>3, <1>4, <1>5, <1>6 DEF IInv

\* Half a legal chunk is legal, and at least one sector.
LEMMA HalveInv == ASSUME IInv, Halve PROVE IInv'
<1>1. /\ pc = "try" /\ chunk > 1 /\ chunk' = chunk \div 2 /\ mt' = chunk \div 2
      /\ retry' = RETRY_COUNT /\ fails' = 0
      /\ UNCHANGED <<rdwr, maxtransfer, pc, call, mode, lba, ptr, count, done, bufarg, mem, fell>>
  BY DEF Halve
<1>2. /\ chunk \in Nat /\ count \in Nat /\ RETRY_COUNT \in Nat /\ ptr \in Nat /\ lba \in Nat
      /\ SecUnits \in Nat \ {0} /\ SecPerTrack \in Nat \ {0} /\ mt \in Nat
  BY Numbers DEF IInv
<1>3. chunk' \in Nat /\ chunk' >= 1 /\ chunk' <= chunk
  BY <1>1, <1>2
<1>4. TypeOK'
  BY <1>1, <1>2, <1>3 DEF IInv, TypeOK
<1>5. LimitInv'
  BY <1>1, <1>2, <1>3 DEF IInv, LimitInv
<1>6. PositionInv' /\ BufferInv' /\ ShortOnlyWhenHopeless'
  BY <1>1 DEF IInv, PositionInv, BufferInv, ShortOnlyWhenHopeless, Before
<1>7. ChunkLegal'
  <2>1. /\ chunk <= count /\ (Target % SegUnits) + chunk * SecUnits <= SegUnits
        /\ mode = "chs" => (lba % SecPerTrack) + chunk <= SecPerTrack
    BY <1>1, <1>2 DEF IInv, ChunkLegal, MinOf
  <2>2. Target' = Target /\ Target \in Nat
    BY <1>1, <1>2 DEF Target, Direct
  <2>3. chunk' \in 1 .. MinOf(count, mt')
    BY <1>1, <1>2, <1>3, <2>1 DEF MinOf
  <2>4. (Target % SegUnits) + chunk' * SecUnits <= SegUnits
    <3> DEFINE r == Target % SegUnits
               half == chunk'
    <3>1. r \in 0 .. SegUnits - 1 /\ SegUnits \in Nat /\ r + chunk * SecUnits <= SegUnits
      BY <2>1, <2>2, FreeSegFits, DiskAssumption
    <3>2. half \in Nat /\ half <= chunk
      BY <1>3
    <3> HIDE DEF r, half
    <3>3. half * SecUnits <= chunk * SecUnits /\ half * SecUnits \in Nat
          /\ chunk * SecUnits \in Nat
      BY <1>2, <3>2, MulMono
    <3>4. r + half * SecUnits <= SegUnits
      BY <3>1, <3>3
    <3>5. QED
      BY <3>4 DEF r, half
  <2>5. mode = "chs" => (lba % SecPerTrack) + chunk' <= SecPerTrack
    <3> DEFINE r == lba % SecPerTrack
               half == chunk'
    <3>1. /\ r \in 0 .. SecPerTrack - 1 /\ (mode = "chs" => r + chunk <= SecPerTrack)
          /\ half \in Nat /\ half <= chunk
      BY <1>2, <1>3, <2>1, DivFacts
    <3> HIDE DEF r, half
    <3>2. mode = "chs" => r + half <= SecPerTrack
      BY <1>2, <3>1
    <3>3. QED
      BY <3>2 DEF r, half
  <2>6. QED
    BY <1>1, <2>2, <2>3, <2>4, <2>5 DEF ChunkLegal
<1>8. QED
  BY <1>4, <1>5, <1>6, <1>7 DEF IInv

\* The CHS routine starts where the EDD routine gave up, at the same place of
\* the disk, but at the start of the buffer.
LEMMA FallBackInv == ASSUME IInv, FallBack PROVE IInv'
<1>1. /\ pc = "try" /\ mode = "edd" /\ fell' = done
      /\ mode' = "chs" /\ bufarg' = bufarg /\ ptr' = bufarg /\ lba' = (lba - PartStart) + PartStart
      /\ count' = count /\ done' = 0 /\ mt' = maxtransfer
      /\ pc' = IF lba - PartStart + PartStart >= ChsMax THEN "ret" ELSE "loop"
      /\ fails' = fails + 1
      /\ UNCHANGED <<rdwr, maxtransfer, call, chunk, retry, mem>>
  BY DEF FallBack, Enter
<1>2. /\ lba \in Nat /\ PartStart \in Nat /\ bufarg \in Nat /\ done \in Nat /\ count \in Nat
      /\ fails \in Nat /\ maxtransfer \in Nat /\ maxtransfer > 0 /\ SecUnits \in Nat
      /\ call.count \in Nat /\ call.lba \in Nat /\ MaxCount \in Nat /\ call.count <= MaxCount
  BY Numbers DEF IInv, LimitInv
<1>3. lba' = lba
  BY <1>1, <1>2
<1>4. /\ bufarg = call.buf /\ lba = call.lba + PartStart + done /\ done + count = call.count
  BY <1>1, <1>2 DEF IInv, PositionInv, Before
<1>5. TypeOK'
  <2>1. {maxtransfer', lba', ptr', count', done', chunk', retry', mt', bufarg', fails'} \subseteq Nat
    BY <1>1, <1>2, <1>3, Numbers DEF IInv
  <2>2. fell' \in -1 .. MaxCount
    BY <1>1, <1>2, <1>4
  <2>3. QED
    BY <1>1, <2>1, <2>2 DEF IInv, TypeOK
<1>6. PositionInv'
  <2>1. Before' = done /\ bufarg + 0 * SecUnits = bufarg
    BY <1>1, <1>2 DEF Before
  <2>2. QED
    BY <1>1, <1>2, <1>3, <1>4, <2>1 DEF PositionInv
<1>7. BufferInv' /\ LimitInv' /\ ChunkLegal'
  BY <1>1, <1>2 DEF BufferInv, LimitInv, ChunkLegal
<1>8. ShortOnlyWhenHopeless'
  BY <1>1, <1>3 DEF ShortOnlyWhenHopeless
<1>9. QED
  BY <1>5, <1>6, <1>7, <1>8 DEF IInv

\* The CHS routine gives up on a sector it cannot address or read.
LEMMA ChsGivesUpInv == ASSUME IInv, ChsGivesUp PROVE IInv'
<1>1. /\ pc = "try" /\ mode = "chs" /\ (~ Addressable \/ Exhausted) /\ pc' = "ret"
      /\ fails' = IF Addressable THEN fails + 1 ELSE fails
      /\ UNCHANGED <<rdwr, maxtransfer, call, mode, lba, ptr, count, done, chunk, retry, mt,
                     bufarg, mem, fell>>
  BY DEF ChsGivesUp
<1>2. fails \in Nat /\ retry \in Nat /\ RETRY_COUNT \in Nat /\ lba \in Nat /\ ChsMax \in Nat
  BY Numbers DEF IInv
<1>3. TypeOK'
  BY <1>1, <1>2 DEF IInv, TypeOK
<1>4. PositionInv' /\ BufferInv' /\ LimitInv' /\ ChunkLegal'
  BY <1>1 DEF IInv, PositionInv, BufferInv, LimitInv, ChunkLegal, Before
<1>5. ShortOnlyWhenHopeless'
  <2>1. CASE ~ Addressable
    BY <1>1, <1>2, <2>1 DEF Addressable, ShortOnlyWhenHopeless
  <2>2. CASE Addressable
    <3>1. chunk = 1 /\ retry = 0 /\ fails' = fails + 1 /\ fails = RETRY_COUNT - retry
      BY <1>1, <2>2 DEF Exhausted, IInv, LimitInv
    <3>2. QED
      BY <1>1, <1>2, <3>1 DEF ShortOnlyWhenHopeless
  <2>3. QED
    BY <2>1, <2>2
<1>6. QED
  BY <1>3, <1>4, <1>5 DEF IInv

\* The call returns.
LEMMA ReturnInv == ASSUME IInv, Return PROVE IInv'
<1>1. /\ pc' = "idle" /\ rdwr' \in {"chs", rdwr}
      /\ UNCHANGED <<maxtransfer, call, mode, lba, ptr, count, done, chunk, retry, mt, bufarg,
                     mem, fell, fails>>
  BY DEF Return
<1>2. TypeOK'
  BY <1>1 DEF IInv, TypeOK
<1>3. PositionInv' /\ BufferInv' /\ LimitInv' /\ ChunkLegal' /\ ShortOnlyWhenHopeless'
  BY <1>1 DEF IInv, PositionInv, BufferInv, LimitInv, ChunkLegal, ShortOnlyWhenHopeless
<1>4. QED
  BY <1>2, <1>3 DEF IInv

\* Every step preserves the invariant.
LEMMA NextInv == IInv /\ [Next]_vars => IInv'
<1> SUFFICES ASSUME IInv, [Next]_vars PROVE IInv'
  OBVIOUS
<1>1. CASE Step
  BY <1>1, NextChunkInv, AllDoneInv, IntOkInv, RetryInv, HalveInv, FallBackInv, ChsGivesUpInv,
     ReturnInv DEF Step
<1>2. CASE \E b \in Bufs, l \in Lbas, c \in 0 .. MaxCount : RdwrSectors(b, l, c)
  BY <1>2, CallInv
<1>3. CASE UNCHANGED vars
  <2>1. TypeOK' /\ PositionInv' /\ BufferInv' /\ LimitInv' /\ ShortOnlyWhenHopeless'
    BY <1>3 DEF IInv, TypeOK, PositionInv, BufferInv, LimitInv, ShortOnlyWhenHopeless, Before, vars
  <2>2. ChunkLegal'
    BY <1>3 DEF IInv, ChunkLegal, Target, Direct, vars
  <2>3. QED
    BY <2>1, <2>2 DEF IInv
<1>4. QED
  BY <1>1, <1>2, <1>3 DEF Next

-----------------------------------------------------------------------------
(* The theorems. *)

\* The variables of the transfer routines stay in their ranges; in particular
\* no count of sectors becomes negative.
THEOREM DiskTypeCorrect == Spec => []TypeOK
<1>1. IInv => TypeOK
  BY DEF IInv
<1>2. QED
  BY <1>1, InitInv, NextInv, PTL DEF Spec

\* Whatever the geometry, the alignment of the buffer and the failures so far,
\* what is asked of the BIOS is at least one sector and crosses neither a
\* segment nor, for CHS, a track.
THEOREM ChunksAlwaysLegal == Spec => []ChunkLegal
<1>1. IInv => ChunkLegal
  BY DEF IInv
<1>2. QED
  BY <1>1, InitInv, NextInv, PTL DEF Spec

\* What a call reports as transferred is in the buffer, in order, for every
\* pattern of failures, retries and halvings.
THEOREM TransfersCorrect == Spec => []TransferCorrect
<1>1. IInv => TransferCorrect
  <2>1. ASSUME IInv, pc = "ret", fell <= 0 PROVE done <= call.count
    <3>1. done \in Nat /\ count \in Nat /\ call.count \in Nat /\ fell \in Int
      BY <2>1, Numbers DEF IInv
    <3>2. Before = 0 /\ done + count + Before = call.count
      BY <2>1, <3>1 DEF IInv, PositionInv, Before
    <3>3. QED
      BY <3>1, <3>2
  <2>2. QED
    BY <2>1 DEF IInv, BufferInv, TransferCorrect
<1>2. QED
  BY <1>1, InitInv, NextInv, PTL DEF Spec

\* A call comes back short only after all retries of a single sector by the CHS
\* routine, or at a sector that CHS cannot address.
THEOREM ShortIsHopeless == Spec => []ShortOnlyWhenHopeless
<1>1. IInv => ShortOnlyWhenHopeless
  BY DEF IInv
<1>2. QED
  BY <1>1, InitInv, NextInv, PTL DEF Spec

=============================================================================
