--------------------------- MODULE LoadHighProofs ---------------------------
(***************************************************************************)
(* Proofs about LoadHigh: pm_load_high puts the right bytes at the right   *)
(* place, stays below the limit and says truly why it stopped.  What a     *)
(* single read does is taken from FileReadProofs.                          *)
(***************************************************************************)
EXTENDS LoadHigh, FileReadProofs

\* A size that can be rounded up to sectors in 32 bits.  For a larger file
\* generic_getfssec finds nothing to read and does not say whether there is more.
SizeFits == entrysize + SectorSize <= Word

LoadUnderWay ==
  [at : {"loop", "read", "done"}, bytes : Nat, buf : Nat, call : BOOLEAN, mask : Nat,
   limit : Nat, flags : {"none", "CF", "OF"}, asked : Nat, base : Nat, from : Nat,
   sectors : Nat, chunk : Nat, ebx : Nat, edi : Nat]
HighType == hi = NoLoad \/ hi \in LoadUnderWay

\* What is in memory and what is still to come make up what was asked for.
BooksInv == hi.at # "none" => hi.buf = hi.base + (hi.asked - hi.bytes) /\ hi.bytes <= hi.asked

\* Between two reads the memory and the file are at the same place.
LoopInv ==
  hi.at = "loop" => pc = "idle" /\ (hi.bytes > 0 => hi.buf - hi.base = offset - hi.from)

\* During a read: the chunk is one of whole sectors, unless it is the last, it
\* fits, and no more is read than was asked for.
ReadInv ==
  hi.at = "read" =>
    /\ Running \/ pc = "ret"
    /\ hi.chunk > 0 /\ hi.chunk <= hi.bytes /\ hi.chunk <= SectorSize * hi.sectors
    /\ hi.chunk < hi.bytes => hi.chunk = SectorSize * hi.sectors
    /\ hi.buf + SectorSize * hi.sectors <= hi.limit
    /\ Running => /\ hi.buf - hi.base = offset - hi.from
                  /\ bytes + SectorSize * sectors <= SectorSize * hi.sectors
    /\ pc = "ret" => /\ hi.buf - hi.base = (offset - bytes) - hi.from
                     /\ bytes <= SectorSize * hi.sectors
                     /\ size = entrysize /\ SizeFits /\ ~ more => offset = entrysize

\* How a load has ended.
DoneInv ==
  hi.at = "done" =>
    /\ pc \in {"idle", "closed"} /\ hi.ebx = hi.buf
    /\ hi.flags = "none" => hi.bytes = 0
    /\ hi.flags = "OF" => hi.bytes > 0 /\ hi.limit - hi.buf < SectorSize
    /\ hi.flags = "CF" /\ size = entrysize /\ SizeFits =>
         offset = entrysize /\ hi.buf - hi.base = Least(hi.asked, entrysize - hi.from)

HighInv == HighType /\ BooksInv /\ LoopInv /\ ReadInv /\ DoneInv

-----------------------------------------------------------------------------
(* Sectors and chunks. *)

\* Rounding down leaves a multiple of the unit.
LEMMA RoundDownFacts ==
  ASSUME NEW n \in Nat, NEW unit \in Nat, unit > 0
  PROVE  /\ RoundDown(n, unit) \in Nat /\ RoundDown(n, unit) <= n
         /\ \E p \in Nat : RoundDown(n, unit) = unit * p
         /\ n >= unit => RoundDown(n, unit) > 0
<1>1. PICK q \in Int, s \in 0 .. unit - 1 :
        q = n \div unit /\ s = n % unit /\ n = unit * q + s
  BY DivFacts
<1>2. PICK y \in Int : y = unit * q
  BY <1>1
<1>3. RoundDown(n, unit) = y
  BY <1>1, <1>2 DEF RoundDown
<1>4. q >= 0
  <2> SUFFICES ASSUME q <= -1 PROVE FALSE
    BY <1>1
  <2>1. unit * q <= unit * (-1)
    BY <1>1, MulLe
  <2> QED
    BY <2>1, <1>1, <1>2
<1>5. y >= 0
  BY <1>4, <1>2, <1>1, MulNat
<1> QED
  BY <1>1, <1>2, <1>3, <1>4, <1>5

\* loadhigh.c:70-80.  What is read next: something, no more than is wanted, in
\* whole sectors unless it is all that is wanted, and what fits.
LEMMA ChunkFacts ==
  ASSUME hi \in LoadUnderWay, hi.bytes > 0, hi.buf + SectorSize <= hi.limit,
         NEW k, k = CeilDiv(Chunk(hi), SectorSize)
  PROVE  /\ Chunk(hi) \in Nat /\ Chunk(hi) > 0 /\ Chunk(hi) <= hi.bytes
         /\ k \in Nat /\ k > 0
         /\ Chunk(hi) <= SectorSize * k /\ (Chunk(hi) < hi.bytes => Chunk(hi) = SectorSize * k)
         /\ hi.buf + SectorSize * k <= hi.limit
<1>1. PICK room \in Nat : room = hi.limit - hi.buf /\ room >= SectorSize
  BY Constants DEF LoadUnderWay
<1>2. PICK R \in Nat, p \in Nat : R = RoundDown(room, SectorSize) /\ R = SectorSize * p /\ R > 0 /\ R <= room
  BY <1>1, Constants, RoundDownFacts
<1>3. PICK M \in Nat, m \in Nat : M = MAX_CHUNK /\ M = SectorSize * m /\ M > 0
  <2>1. MAX_CHUNK \in Nat /\ MAX_CHUNK > 0 /\ MAX_CHUNK % SectorSize = 0
    BY LoadAssumption
  <2>2. RoundDown(MAX_CHUNK, SectorSize) = MAX_CHUNK
    BY <2>1 DEF RoundDown
  <2> QED
    BY <2>1, <2>2, Constants, RoundDownFacts
<1>4. PICK b \in Nat, c \in Nat : b = hi.bytes /\ c = Chunk(hi) /\ c > 0 /\ c <= b /\ c <= R
                                 /\ (c = b \/ c = R \/ c = M)
  BY <1>1, <1>2, <1>3 DEF LoadUnderWay, Chunk, Least
<1>5. /\ k \in Nat /\ c <= SectorSize * k /\ (k = 0 => c = 0)
      /\ \A j \in Nat : c <= SectorSize * j => k <= j
  BY <1>4, CeilSectors
<1>6. k <= p
  BY <1>4, <1>5, <1>2
<1>7. SectorSize * k <= R /\ SectorSize * k \in Nat
  BY <1>2, <1>5, <1>6, Constants, MulLe, MulNat
<1>8. hi.buf + SectorSize * k <= hi.limit
  BY <1>1, <1>2, <1>7 DEF LoadUnderWay
<1>9. ASSUME c < b PROVE c = SectorSize * k
  <2>1. PICK j \in Nat : c = SectorSize * j
    BY <1>2, <1>3, <1>4, <1>9
  <2>2. k <= j
    BY <2>1, <1>5
  <2>3. SectorSize * k <= SectorSize * j
    BY <2>2, <1>5, Constants, MulLe
  <2> QED
    BY <2>1, <2>3, <1>5, <1>7
<1> QED
  BY <1>4, <1>5, <1>8, <1>9

-----------------------------------------------------------------------------
(* What a step of generic_getfssec means for the load. *)

\* getfssec.c:95-100.  There is nothing to read: the file has ended.
LEMMA NothingLeft ==
  ASSUME IInv, SizeFits, size = entrysize, SectorsLeft = 0
  PROVE  offset = entrysize
<1>0. entrysize \in Nat /\ offset \in Nat /\ SectorSize \in Nat /\ SectorSize > 0
      /\ Word \in Nat /\ offset <= entrysize
  BY Numbers, Constants DEF IInv, PositionInv
<1>1. PICK b \in Nat : b = entrysize - offset
  BY <1>0
<1>2. b < Word /\ b + SectorSize - 1 < Word
  BY <1>0, <1>1 DEF SizeFits
<1>3. BytesLeft = b
  <2>1. b % Word = b
    BY <1>2, Constants
  <2> QED
    BY <1>1, <2>1 DEF BytesLeft
<1>4. PICK x \in Nat : x = b + SectorSize - 1 /\ x < Word
  BY <1>2, Constants
<1>5. x \div SectorSize = 0
  <2>1. x % Word = x
    BY <1>4, Constants
  <2> QED
    BY <2>1, <1>3, <1>4 DEF SectorsLeft
<1>6. PICK s \in 0 .. SectorSize - 1 : x = SectorSize * 0 + s
  BY <1>5, Constants, DivFacts
<1>7. SectorSize * 0 = 0
  BY Constants
<1>8. b = 0
  BY <1>4, <1>6, <1>7, Constants
<1> QED
  BY <1>1, <1>8, Numbers

\* Steps inside a call: as long as it runs, what has been read and what is
\* still to be read do not grow, and the file stays where it is; at the end
\* the file moves on by what was read, and there is no more only at its end.
LEMMA InsideMoves ==
  ASSUME IInv, Inside, NEW total \in Nat, bytes + SectorSize * sectors <= total
  PROVE  /\ Running /\ UNCHANGED <<entrysize>>
         /\ \/ /\ pc' \in {"extent", "join", "io", "end"} /\ offset' = offset
               /\ bytes' + SectorSize * sectors' <= total
            \/ /\ pc' = "ret" /\ offset' = offset + bytes' /\ bytes' <= total
               /\ size' = entrysize /\ ~ more' => offset' = entrysize
<1>1. CASE LookAhead \/ KnowNext \/ Enough \/ Coalesce \/ Discontiguous \/ Dead
  <2>1. UNCHANGED <<entrysize, offset, bytes, sectors>>
    BY <1>1 DEF LookAhead, KnowNext, Enough, Coalesce, Discontiguous, Dead
  <2>2. pc \in {"extent", "join", "io", "end"} /\ pc' \in {"extent", "join", "io", "end"}
    BY <1>1 DEF LookAhead, KnowNext, Enough, Coalesce, Discontiguous, Dead
  <2> QED
    BY <2>1, <2>2 DEF Running
<1>2. CASE TakeNext
  <2>1. UNCHANGED <<entrysize, offset, bytes>> /\ sectors' \in {0, sectors}
    BY <1>2 DEF TakeNext
  <2>2. pc = "join" /\ pc' \in {"io", "extent"}
    BY <1>2 DEF TakeNext
  <2>3. PICK b \in Nat, y \in Nat : b = bytes /\ y = SectorSize * sectors
    BY Numbers, Constants, MulNat
  <2>0. SectorSize * 0 = 0
    BY Constants
  <2>4. SectorSize * sectors' \in {0, y}
    BY <2>0, <2>1, <2>3
  <2>5. bytes' + SectorSize * sectors' <= total
    BY <2>1, <2>3, <2>4
  <2> QED
    BY <2>1, <2>2, <2>5 DEF Running
<1>3. CASE ReadChunk
  <2>1. PICK n \in Nat : /\ n = IF sectors < this.len THEN sectors ELSE this.len
                         /\ sectors' = sectors - n /\ bytes' = bytes + n * SectorSize
    BY <1>3, Numbers DEF ReadChunk
  <2>2. UNCHANGED <<entrysize, offset>> /\ pc = "io" /\ pc' \in {"end", "extent"}
    BY <1>3 DEF ReadChunk
  <2>3. PICK s \in Nat, b \in Nat : s = sectors /\ b = bytes
    BY Numbers
  <2>4. SectorSize * (s - n) = SectorSize * s - n * SectorSize
    BY Constants
  <2>5. PICK y \in Int, z \in Int : y = SectorSize * s /\ z = n * SectorSize
    BY Constants
  <2>6. bytes' = b + z /\ SectorSize * sectors' = y - z
    BY <2>1, <2>3, <2>4, <2>5
  <2>7. bytes' + SectorSize * sectors' <= total
    BY <2>3, <2>5, <2>6
  <2> QED
    BY <2>2, <2>7 DEF Running
<1>4. CASE End
  <2>1. PICK n \in Nat : n = (IF bytes < left THEN bytes ELSE left) /\ bytes' = n /\ offset' = offset + n
    BY <1>4, Numbers DEF End
  <2>2. /\ UNCHANGED <<entrysize, size>> /\ pc = "end" /\ pc' = "ret"
        /\ more' <=> (IF bytes < left THEN bytes ELSE left) < left
    BY <1>4, Zenon DEF End
  <2>3. SectorSize * sectors \in Nat
    BY Numbers, Constants, MulNat
  <2>4. bytes' <= total
    BY <2>1, <2>3, Numbers, SMTT(30)
  <2>5. ASSUME size' = entrysize, ~ more' PROVE offset' = entrysize
    <3>1. n = left
      BY <2>1, <2>2, <2>5, Numbers
    <3>2. left = entrysize - offset
      BY <2>2, <2>5 DEF IInv, PositionInv, Running
    <3> QED
      BY <3>1, <3>2, <2>1, Numbers
  <2> QED
    BY <2>1, <2>2, <2>4, <2>5 DEF Running
<1> QED
  BY <1>1, <1>2, <1>3, <1>4 DEF Inside

-----------------------------------------------------------------------------
(* The steps of the load. *)

\* A load that is under way has all its registers.
LEMMA UnderWay ==
  ASSUME HighType, hi.at # "none"
  PROVE  /\ hi \in LoadUnderWay
         /\ hi.bytes \in Nat /\ hi.buf \in Nat /\ hi.mask \in Nat /\ hi.limit \in Nat
         /\ hi.asked \in Nat /\ hi.base \in Nat /\ hi.from \in Nat /\ hi.sectors \in Nat
         /\ hi.chunk \in Nat
BY DEF HighType, NoLoad, LoadUnderWay

\* loadhigh.c:50-62.  A load begins.
LEMMA LoadBegins ==
  ASSUME IInv, NEW r \in Loads, pm_load_high(r)
  PROVE  HighInv'
<1>1. /\ r.bytes \in Nat /\ r.buf \in Nat /\ r.limit \in Nat /\ r.mask \in Nat
      /\ r.call \in BOOLEAN /\ offset \in Nat
  BY LoadAssumption, Numbers
<1>2. RoundDown(r.limit, r.mask + 1) \in Nat
  <2>1. PICK n \in Nat, u \in Nat : n = r.limit /\ u = r.mask + 1 /\ u > 0
    BY <1>1
  <2> QED
    BY <2>1, RoundDownFacts
<1>3. /\ hi' = [at |-> "loop", bytes |-> r.bytes, buf |-> r.buf, call |-> r.call, mask |-> r.mask,
                limit |-> RoundDown(r.limit, r.mask + 1), flags |-> "none",
                asked |-> r.bytes, base |-> r.buf, from |-> offset, sectors |-> 0, chunk |-> 0,
                ebx |-> 0, edi |-> 0]
      /\ pc = "idle" /\ UNCHANGED vars
  BY DEF pm_load_high
<1>4. HighType'
  BY <1>1, <1>2, <1>3 DEF HighType, LoadUnderWay
<1>5. /\ hi'.at = "loop" /\ hi'.bytes = r.bytes /\ hi'.asked = r.bytes /\ hi'.buf = r.buf
      /\ hi'.base = r.buf /\ hi'.from = offset /\ pc' = "idle" /\ offset' = offset
  BY <1>3 DEF vars
<1> QED
  BY <1>1, <1>4, <1>5 DEF HighInv, BooksInv, LoopInv, ReadInv, DoneInv

\* Leaving keeps the registers and adds the results.
LEMMA LeaveFacts ==
  ASSUME NEW h \in LoadUnderWay, NEW f \in {"none", "CF", "OF"}
  PROVE  /\ Leave(h, f) \in LoadUnderWay /\ Leave(h, f).at = "done" /\ Leave(h, f).flags = f
         /\ Leave(h, f).ebx = h.buf
         /\ Leave(h, f).bytes = h.bytes /\ Leave(h, f).buf = h.buf /\ Leave(h, f).base = h.base
         /\ Leave(h, f).asked = h.asked /\ Leave(h, f).from = h.from
         /\ Leave(h, f).limit = h.limit
<1>1. h.buf \in Nat /\ h.mask \in Nat
  BY DEF LoadUnderWay
<1>2. pad(h) \in Nat
  <2>1. PICK n \in Nat, u \in Nat : n = h.buf /\ u = h.mask + 1 /\ u > 0
    BY <1>1
  <2>2. n % u \in Nat
    BY <2>1, DivFacts
  <2> QED
    BY <2>1, <2>2 DEF pad
<1>3. PICK e \in Nat : e = h.buf + pad(h)
  BY <1>1, <1>2
<1>4. Leave(h, f) = [h EXCEPT !.at = "done", !.flags = f, !.ebx = h.buf, !.edi = e]
  BY <1>3 DEF Leave
<1> QED
  BY <1>1, <1>3, <1>4, ZenonT(30) DEF LoadUnderWay

\* loadhigh.c:64-69.  The load ends because all is there, or for want of room.
LEMMA LoadStops ==
  ASSUME IInv, HighInv, AllRead \/ NoRoom
  PROVE  HighInv'
<1>1. /\ hi.at = "loop" /\ pc = "idle" /\ UNCHANGED vars
  BY DEF AllRead, NoRoom
<1>2. /\ hi \in LoadUnderWay /\ hi.bytes \in Nat /\ hi.buf \in Nat /\ hi.limit \in Nat
      /\ hi.buf = hi.base + (hi.asked - hi.bytes) /\ hi.bytes <= hi.asked
  BY <1>1, UnderWay DEF HighInv, BooksInv
<1>3. PICK f \in {"none", "CF", "OF"} :
        /\ hi' = Leave(hi, f) /\ f # "CF" /\ (f = "none" => hi.bytes = 0)
        /\ f = "OF" => hi.bytes > 0 /\ hi.limit - hi.buf < SectorSize
  <2>1. CASE AllRead
    BY <2>1 DEF AllRead
  <2>2. CASE NoRoom
    BY <2>2, <1>2, Constants DEF NoRoom
  <2> QED
    BY <2>1, <2>2
<1>4. /\ hi' \in LoadUnderWay /\ hi'.at = "done" /\ hi'.flags = f /\ hi'.ebx = hi.buf
      /\ hi'.bytes = hi.bytes /\ hi'.buf = hi.buf /\ hi'.base = hi.base
      /\ hi'.asked = hi.asked /\ hi'.limit = hi.limit
  BY <1>2, <1>3, LeaveFacts
<1>5. pc' = "idle"
  BY <1>1 DEF vars
<1> QED
  BY <1>2, <1>3, <1>4, <1>5 DEF HighInv, HighType, BooksInv, LoopInv, ReadInv, DoneInv

\* loadhigh.c:70-80.  The next chunk is read.
LEMMA LoadReads ==
  ASSUME IInv, HighInv, ReadMore
  PROVE  IInv' /\ HighInv'
<1>1. /\ hi.at = "loop" /\ hi.bytes > 0 /\ hi.buf + SectorSize <= hi.limit
  BY DEF ReadMore
<1>2. PICK k : k = CeilDiv(Chunk(hi), SectorSize)
  OBVIOUS
<1>3. /\ Getfssec(k) \/ GetfssecNothing(k)
      /\ hi' = [hi EXCEPT !.at = "read", !.chunk = Chunk(hi), !.sectors = k]
  BY <1>2 DEF ReadMore
<1>4. hi \in LoadUnderWay
  BY <1>1, UnderWay DEF HighInv
<1>5. /\ Chunk(hi) \in Nat /\ Chunk(hi) > 0 /\ Chunk(hi) <= hi.bytes
      /\ k \in Nat /\ k > 0
      /\ Chunk(hi) <= SectorSize * k /\ (Chunk(hi) < hi.bytes => Chunk(hi) = SectorSize * k)
      /\ hi.buf + SectorSize * k <= hi.limit
  BY <1>1, <1>2, <1>4, ChunkFacts
<1>6. IInv'
  BY <1>3, <1>5, GetfssecKeeps, NothingKeeps
<1>7. /\ hi' \in LoadUnderWay /\ hi'.at = "read" /\ hi'.chunk = Chunk(hi) /\ hi'.sectors = k
      /\ hi'.bytes = hi.bytes /\ hi'.buf = hi.buf /\ hi'.base = hi.base
      /\ hi'.asked = hi.asked /\ hi'.from = hi.from /\ hi'.limit = hi.limit
  BY <1>3, <1>4, <1>5 DEF LoadUnderWay
<1>8. /\ hi.buf = hi.base + (hi.asked - hi.bytes) /\ hi.bytes <= hi.asked
      /\ hi.buf - hi.base = offset - hi.from
  BY <1>1 DEF HighInv, BooksInv, LoopInv
<1>9. HighType' /\ BooksInv' /\ LoopInv' /\ DoneInv'
  BY <1>7, <1>8 DEF HighType, BooksInv, LoopInv, DoneInv
<1>10. CASE Getfssec(k)
  <2>1. /\ pc' = "extent" /\ bytes' = 0 /\ offset' = offset
        /\ sectors' = IF k > SectorsLeft THEN SectorsLeft ELSE k
    BY <1>10 DEF Getfssec
  <2>2. sectors' \in Nat /\ SectorsLeft \in Int
    <3>1. sectors' \in Nat
      BY <1>6 DEF IInv, TypeOK
    <3>2. SectorsLeft \in Int
      BY Constants, Numbers, SMTT(30) DEF SectorsLeft, BytesLeft
    <3> QED
      BY <3>1, <3>2
  <2>3. sectors' <= k
    BY <2>1, <2>2, <1>5
  <2>4. SectorSize * sectors' <= SectorSize * k /\ SectorSize * sectors' \in Nat
    <3>1. PICK s \in Nat : s = sectors' /\ s <= k
      BY <2>2, <2>3
    <3>2. PICK j \in Nat : j = k /\ s <= j
      BY <3>1, <1>5
    <3>3. SectorSize * s <= SectorSize * j
      BY <3>2, Constants, MulLe
    <3>4. SectorSize * s \in Nat
      BY Constants, MulNat
    <3> QED
      BY <3>1, <3>2, <3>3, <3>4
  <2>5. bytes' + SectorSize * sectors' <= SectorSize * k
    BY <2>1, <2>4
  <2>6. ReadInv'
    BY <2>1, <2>5, <1>5, <1>7, <1>8 DEF ReadInv, Running
  <2> QED
    BY <2>6, <1>6, <1>9 DEF HighInv
<1>11. CASE GetfssecNothing(k)
  <2>1. /\ pc' = "ret" /\ bytes' = 0 /\ UNCHANGED <<offset, size, entrysize>>
        /\ SectorsLeft = 0
    BY <1>5, <1>11 DEF GetfssecNothing
  <2>2. size' = entrysize' /\ SizeFits' => offset' = entrysize'
    BY <2>1, NothingLeft DEF SizeFits
  <2>3. hi.buf - hi.base = (offset - bytes') - hi.from /\ bytes' <= SectorSize * k
    BY <2>1, <1>5, <1>8, Numbers, Constants, MulNat, SMTT(30)
  <2>4. ReadInv'
    BY <2>1, <2>2, <2>3, <1>5, <1>7 DEF ReadInv, Running
  <2> QED
    BY <2>4, <1>6, <1>9 DEF HighInv
<1> QED
  BY <1>3, <1>10, <1>11

\* A step of generic_getfssec during a load.
LEMMA LoadGoesOn ==
  ASSUME IInv, HighInv, Inside, UNCHANGED hi
  PROVE  HighInv'
<1>1. HighType' /\ BooksInv'
  BY DEF HighInv, HighType, BooksInv
<1>2. Running
  BY DEF Running, Inside, LookAhead, KnowNext, Enough, Coalesce, Discontiguous, Dead, TakeNext,
         ReadChunk, End
<1>3. hi.at \notin {"loop", "done"}
  BY <1>2 DEF HighInv, LoopInv, DoneInv, Running
<1>4. LoopInv' /\ DoneInv'
  BY <1>3 DEF LoopInv, DoneInv
<1>5. ReadInv'
  <2> SUFFICES ASSUME hi.at = "read" PROVE ReadInv'
    BY DEF ReadInv
  <2>1. /\ hi.buf \in Nat /\ hi.base \in Nat /\ hi.from \in Nat /\ hi.sectors \in Nat
    BY UnderWay DEF HighInv
  <2>2. PICK total \in Nat : total = SectorSize * hi.sectors
    BY <2>1, Constants, MulNat
  <2>3. /\ hi.buf - hi.base = offset - hi.from
        /\ bytes + SectorSize * sectors <= total
        /\ hi.chunk > 0 /\ hi.chunk <= hi.bytes /\ hi.chunk <= total
        /\ hi.chunk < hi.bytes => hi.chunk = total
        /\ hi.buf + total <= hi.limit
    BY <1>2, <2>2 DEF HighInv, ReadInv
  <2>4. /\ entrysize' = entrysize
        /\ \/ /\ pc' \in {"extent", "join", "io", "end"} /\ offset' = offset
              /\ bytes' + SectorSize * sectors' <= total
           \/ /\ pc' = "ret" /\ offset' = offset + bytes' /\ bytes' <= total
              /\ size' = entrysize /\ ~ more' => offset' = entrysize
    BY <2>3, InsideMoves
  <2>5. CASE pc' \in {"extent", "join", "io", "end"}
    BY <2>2, <2>3, <2>4, <2>5 DEF ReadInv, Running
  <2>6. CASE pc' = "ret"
    <3>1. offset' = offset + bytes' /\ bytes' \in Nat /\ offset \in Nat
      <4>1. bytes' \in Nat
        <5>1. CASE End
          BY <5>1, Numbers DEF End
        <5>2. CASE ~ End
          BY <5>2, <2>6 DEF Inside, LookAhead, KnowNext, Enough, Coalesce, Discontiguous, Dead,
                            TakeNext, ReadChunk
        <5> QED
          BY <5>1, <5>2
      <4> QED
        BY <2>4, <2>6, <4>1, Numbers
    <3>2. hi.buf - hi.base = (offset' - bytes') - hi.from
      BY <3>1, <2>1, <2>3
    <3> QED
      BY <2>2, <2>3, <2>4, <2>6, <3>2 DEF ReadInv, Running
  <2> QED
    BY <2>4, <2>5, <2>6
<1> QED
  BY <1>1, <1>4, <1>5 DEF HighInv

\* loadhigh.c:81-92.  A read returns to the load.
LEMMA LoadTakes ==
  ASSUME IInv, HighInv, HighReturn
  PROVE  HighInv'
<1>1. /\ pc = "ret" /\ hi.at = "read" /\ pc' = (IF more THEN "idle" ELSE "closed")
      /\ UNCHANGED <<size, entrysize, offset, more>>
  BY DEF HighReturn
<1>2. hi \in LoadUnderWay
  BY <1>1, UnderWay DEF HighInv
<1>3. PICK b \in Nat, c \in Nat, n \in Nat :
        b = bytes /\ c = hi.chunk /\ n = Least(bytes, hi.chunk) /\ n = Least(b, c)
  <2>1. bytes \in Nat /\ hi.chunk \in Nat
    BY <1>2, Numbers DEF LoadUnderWay
  <2>2. Least(bytes, hi.chunk) \in Nat
    BY <2>1 DEF Least
  <2> QED
    BY <2>1, <2>2
<1>4. PICK total \in Nat : total = SectorSize * hi.sectors
  BY <1>2, Constants, MulNat DEF LoadUnderWay
<1>5. /\ hi.bytes \in Nat /\ hi.buf \in Nat /\ hi.base \in Nat /\ hi.asked \in Nat
      /\ hi.from \in Nat /\ hi.chunk \in Nat /\ offset \in Nat /\ entrysize \in Nat
  BY <1>2, Numbers DEF LoadUnderWay
<1>6. /\ c <= hi.bytes /\ (c < hi.bytes => c = total) /\ b <= total
      /\ hi.buf - hi.base = (offset - b) - hi.from
      /\ size = entrysize /\ SizeFits /\ ~ more => offset = entrysize
      /\ hi.buf = hi.base + (hi.asked - hi.bytes) /\ hi.bytes <= hi.asked
  BY <1>1, <1>3, <1>4 DEF HighInv, ReadInv, BooksInv
<1>7. PICK h : h = [hi EXCEPT !.buf = @ + n, !.bytes = @ - n] /\ hi' = AfterRead(h)
  BY <1>3 DEF HighReturn
<1>8. /\ h \in LoadUnderWay /\ h.buf = hi.buf + n /\ h.bytes = hi.bytes - n
      /\ h.base = hi.base /\ h.asked = hi.asked /\ h.from = hi.from
  <2>1. n <= hi.bytes
    BY <1>3, <1>5, <1>6 DEF Least
  <2>2. hi.buf + n \in Nat /\ hi.bytes - n \in Nat
    BY <2>1, <1>5
  <2> QED
    BY <2>2, <1>2, <1>7 DEF LoadUnderWay
<1>9. /\ h.buf = h.base + (h.asked - h.bytes) /\ h.bytes <= h.asked
      /\ h.bytes > 0 => h.buf - h.base = offset - h.from
      /\ offset = entrysize => h.buf - h.base = Least(h.asked, entrysize - h.from)
  <2>0. PICK w \in Nat, a \in Nat, u \in Nat, v \in Nat, f \in Nat, o \in Nat :
          /\ w = hi.bytes /\ a = hi.asked /\ u = hi.buf /\ v = hi.base /\ f = hi.from /\ o = offset
    BY <1>5
  <2>1. /\ c <= w /\ (c < w => c = total) /\ b <= total
        /\ u - v = (o - b) - f /\ u = v + (a - w) /\ w <= a
    BY <2>0, <1>6
  <2>2. /\ u + n - v = a - (w - n) /\ w - n <= a
        /\ w - n > 0 => u + n - v = o - f
        /\ u + n - v = Least(a, o - f)
    <3>1. CASE b < c
      BY <3>1, <2>1, <1>3 DEF Least
    <3>2. CASE ~ (b < c)
      BY <3>2, <2>1, <1>3 DEF Least
    <3> QED
      BY <3>1, <3>2
  <2>3. h.buf = u + n /\ h.bytes = w - n /\ h.base = v /\ h.asked = a /\ h.from = f
    BY <2>0, <1>8
  <2>4. h.buf = h.base + (h.asked - h.bytes)
    BY <2>2, <2>3, <1>3
  <2> QED
    BY <2>0, <2>2, <2>3, <2>4
<1>10. CASE more
  <2>1. hi' = [h EXCEPT !.at = "loop"] /\ pc' = "idle"
    BY <1>1, <1>7, <1>10 DEF AfterRead
  <2>2. /\ hi' \in LoadUnderWay /\ hi'.at = "loop" /\ hi'.buf = h.buf /\ hi'.bytes = h.bytes
        /\ hi'.base = h.base /\ hi'.asked = h.asked /\ hi'.from = h.from
    BY <2>1, <1>8 DEF LoadUnderWay
  <2> QED
    BY <2>1, <2>2, <1>1, <1>9 DEF HighInv, HighType, BooksInv, LoopInv, ReadInv, DoneInv
<1>11. CASE ~ more
  <2>1. hi' = Leave(h, "CF") /\ pc' = "closed"
    BY <1>1, <1>7, <1>11 DEF AfterRead
  <2>2. /\ hi' \in LoadUnderWay /\ hi'.at = "done" /\ hi'.flags = "CF" /\ hi'.ebx = h.buf
        /\ hi'.buf = h.buf /\ hi'.bytes = h.bytes
        /\ hi'.base = h.base /\ hi'.asked = h.asked /\ hi'.from = h.from
    BY <2>1, <1>8, LeaveFacts
  <2>3. size' = entrysize' /\ SizeFits' =>
          offset' = entrysize' /\ h.buf - h.base = Least(h.asked, entrysize' - h.from)
    BY <1>1, <1>6, <1>9, <1>11 DEF SizeFits
  <2> QED
    BY <2>1, <2>2, <2>3, <1>9 DEF HighInv, HighType, BooksInv, LoopInv, ReadInv, DoneInv
<1> QED
  BY <1>10, <1>11

\* Every step keeps both invariants.
LEMMA HighNextKeeps ==
  ASSUME IInv, HighInv, HasClusters, [HighNext]_hvars
  PROVE  IInv' /\ HighInv'
<1>1. ASSUME UNCHANGED vars PROVE IInv'
  BY <1>1, NextKeeps DEF vars
<1>2. ASSUME hi' = NoLoad \/ (hi.at = "none" /\ hi' = hi) PROVE HighInv'
  BY <1>2 DEF HighInv, HighType, BooksInv, LoopInv, ReadInv, DoneInv, NoLoad, LoadUnderWay
<1>3. ASSUME NEW r \in Loads, pm_load_high(r) PROVE IInv' /\ HighInv'
  BY <1>3, <1>1, LoadBegins DEF pm_load_high
<1>4. ASSUME hi.at = "none", UNCHANGED hi, NEW k \in 0 .. MaxSectors,
             Getfssec(k) \/ GetfssecNothing(k)
      PROVE  IInv' /\ HighInv'
  BY <1>4, <1>2, NextKeeps DEF Next
<1>5. CASE hi.at = "none" /\ FindEntry /\ UNCHANGED hi
  BY <1>5, <1>2, NextKeeps DEF Next
<1>6. CASE AllRead \/ NoRoom
  BY <1>6, <1>1, LoadStops DEF AllRead, NoRoom
<1>7. CASE ReadMore
  BY <1>7, LoadReads
<1>8. CASE HighReturn
  <2>1. Return
    BY <1>8 DEF HighReturn, Return
  <2> QED
    BY <2>1, <1>8, LoadTakes, GoesOn
<1>9. CASE Leaves
  BY <1>9, <1>1, <1>2 DEF Leaves
<1>10. CASE Inside /\ UNCHANGED hi
  BY <1>10, InsideKeeps, LoadGoesOn
<1>11. CASE hi.at = "none" /\ Return /\ UNCHANGED hi
  BY <1>11, <1>2, GoesOn
<1>12. CASE UNCHANGED hvars
  <2>1. UNCHANGED vars /\ hi' = hi /\ pc' = pc /\ offset' = offset /\ bytes' = bytes
        /\ size' = size /\ entrysize' = entrysize /\ sectors' = sectors /\ more' = more
    BY <1>12 DEF hvars, vars
  <2> QED
    BY <2>1, <1>1 DEF HighInv, HighType, BooksInv, LoopInv, ReadInv, DoneInv, Running, SizeFits
<1> QED
  BY <1>3, <1>4, <1>5, <1>6, <1>7, <1>8, <1>9, <1>10, <1>11, <1>12 DEF HighNext, HighStep

\* The file system, the chain and the size in the directory never change.
LEMMA HighFileStays ==
  ASSUME [HighNext]_hvars
  PROVE  UNCHANGED <<fs, chain>>
<1>1. ASSUME [Next]_vars \/ HighReturn PROVE UNCHANGED <<fs, chain>>
  BY <1>1, FileStays DEF HighReturn
<1>2. ASSUME NEW k, Getfssec(k) \/ GetfssecNothing(k) PROVE UNCHANGED <<fs, chain>>
  BY <1>2 DEF Getfssec, GetfssecNothing
<1> QED
  BY <1>1, <1>2 DEF HighNext, HighStep, pm_load_high, AllRead, NoRoom, ReadMore, Leaves, hvars,
                    Next, Step, vars

\* The invariants hold for every file that has clusters.
LEMMA HighInvariantHolds == HighSpec => [](HasClusters => IInv /\ HighInv)
<1>1. InitHigh => (HasClusters => IInv /\ HighInv)
  BY InitHolds DEF InitHigh, HighInv, HighType, BooksInv, LoopInv, ReadInv, DoneInv, NoLoad
<1>2. (HasClusters => IInv /\ HighInv) /\ [HighNext]_hvars => (HasClusters => IInv /\ HighInv)'
  <2> SUFFICES ASSUME HasClusters => IInv /\ HighInv, [HighNext]_hvars, HasClusters'
               PROVE  IInv' /\ HighInv'
    OBVIOUS
  <2>1. HasClusters
    BY HighFileStays DEF HasClusters
  <2> QED
    BY <2>1, HighNextKeeps
<1> QED
  BY <1>1, <1>2, PTL DEF HighSpec

-----------------------------------------------------------------------------
(* The theorems. *)

\* loadhigh.c:64-103.  A load puts the bytes of the file where they belong,
\* never reads past the limit, and when it ends the flags say truly why: all is
\* there, the file has ended, or no further sector fits.
THEOREM LoadIsRight == HighSpec => [](HasClusters /\ SizeFits => HighLoadRight)
<1>1. IInv /\ HighInv /\ SizeFits => HighLoadRight
  <2> SUFFICES ASSUME IInv, HighInv, SizeFits PROVE HighLoadRight
    OBVIOUS
  <2>1. hi.at = "loop" /\ hi.bytes > 0 => hi.buf - hi.base = offset - hi.from
    BY DEF HighInv, LoopInv
  <2>2. ASSUME hi.at = "read" PROVE hi.buf + hi.sectors * SectorSize <= hi.limit
    <3>1. hi.buf + SectorSize * hi.sectors <= hi.limit /\ hi.sectors \in Nat
      BY <2>2, UnderWay DEF HighInv, ReadInv
    <3>2. hi.sectors * SectorSize = SectorSize * hi.sectors
      BY <3>1, Constants, MulComm
    <3> QED
      BY <3>1, <3>2
  <2>3. ASSUME hi.at = "done", Complete, hi.from < entrysize, NEW n, n = hi.ebx - hi.base
        PROVE  CASE hi.flags = "none" -> n = hi.asked
                 [] hi.flags = "CF"   -> offset = entrysize /\ n = Least(hi.asked, entrysize - hi.from)
                 [] hi.flags = "OF"   -> n < hi.asked /\ hi.limit - hi.buf < SectorSize
    <3>1. size = entrysize
      BY <2>3, CompleteIsWhole
    <3>2. /\ hi.flags \in {"none", "CF", "OF"} /\ hi.asked \in Nat /\ hi.base \in Nat
          /\ hi.bytes \in Nat
      BY <2>3, UnderWay DEF HighInv, LoadUnderWay
    <3>3. /\ hi.ebx = hi.buf /\ hi.buf = hi.base + (hi.asked - hi.bytes)
          /\ hi.flags = "none" => hi.bytes = 0
          /\ hi.flags = "OF" => hi.bytes > 0 /\ hi.limit - hi.buf < SectorSize
          /\ hi.flags = "CF" => /\ offset = entrysize
                                /\ hi.buf - hi.base = Least(hi.asked, entrysize - hi.from)
      BY <2>3, <3>1 DEF HighInv, DoneInv, BooksInv
    <3>4. n = hi.buf - hi.base /\ n = hi.asked - hi.bytes
      BY <2>3, <3>2, <3>3
    <3>5. CASE hi.flags = "none"
      BY <3>2, <3>3, <3>4, <3>5
    <3>6. CASE hi.flags = "CF"
      BY <3>3, <3>4, <3>6
    <3>7. CASE hi.flags = "OF"
      BY <3>2, <3>3, <3>4, <3>7
    <3> QED
      BY <3>2, <3>5, <3>6, <3>7
  <2> QED
    BY <2>1, <2>2, <2>3 DEF HighLoadRight
<1>2. (HasClusters => IInv /\ HighInv) => (HasClusters /\ SizeFits => HighLoadRight)
  BY <1>1
<1> QED
  BY <1>2, HighInvariantHolds, PTL

\* getfssec.c:134-185.  Also when loads and other reads alternate, the buffers
\* get the sectors of the file, each once and in order.
THEOREM LoadedContentArrives == HighSpec => [](HasClusters => ContentInOrder)
<1>1. (HasClusters => IInv /\ HighInv) => (HasClusters => ContentInOrder)
  BY DEF IInv
<1> QED
  BY <1>1, HighInvariantHolds, PTL

\* loadhigh.c:64-103, getfssec.c:88-194.  Also with loads into high memory among
\* the calls, reading implements FileSpec.
THEOREM LoadHighImplementsFileSpec == HighSpec => ImplementsFileSpec
<1>1. InitHigh => (Sound => OwedInv) /\ FS!Init
  BY OpenRefines DEF InitHigh
<1>2. (HasClusters => IInv /\ HighInv) => (Sound => IInv /\ HighInv)
  BY DEF Sound, HasClusters
<1>3. (Sound => IInv /\ HighInv) /\ (Sound => IInv /\ HighInv)' /\ (Sound => OwedInv)
        /\ [HighNext]_hvars => (Sound => OwedInv)' /\ [FS!Next]_(FS!vars)
  <2> SUFFICES ASSUME Sound => IInv /\ HighInv, Sound' => IInv', Sound => OwedInv,
                      [HighNext]_hvars
               PROVE  (Sound' => OwedInv') /\ [FS!Next]_(FS!vars)
    OBVIOUS
  <2>1. CASE ReadMore /\ ~ Sound
    <3>1. UNCHANGED <<fs, chain, entrysize>>
      BY <2>1 DEF ReadMore, Getfssec, GetfssecNothing
    <3>2. ~ Sound'
      BY <2>1, <3>1, SoundStays
    <3>3. UNCHANGED FS!vars
      BY <2>1, <3>2 DEF FS!vars
    <3> QED
      BY <3>2, <3>3
  <2>2. CASE ReadMore /\ Sound
    <3>1. PICK k : k = CeilDiv(Chunk(hi), SectorSize) /\ (Getfssec(k) \/ GetfssecNothing(k))
      BY <2>2 DEF ReadMore
    <3>2. hi \in LoadUnderWay /\ hi.bytes > 0 /\ hi.buf + SectorSize <= hi.limit
      BY <2>2, UnderWay DEF ReadMore, HighInv
    <3>3. k \in Nat
      BY <3>1, <3>2, ChunkFacts
    <3>4. FileMoves
      BY <3>1, <3>3 DEF FileMoves
    <3> QED
      BY <3>4, MoveRefines
  <2>3. CASE [HighNext]_hvars /\ ~ ReadMore
    <3>1. 0 .. MaxSectors \subseteq Nat
      BY ReadAssumption
    <3>2. FileMoves
      BY <2>3, <3>1 DEF HighNext, HighStep, FileMoves, Step, pm_load_high, AllRead, NoRoom,
                        HighReturn, Return, Leaves, hvars
    <3> QED
      BY <3>2, MoveRefines
  <2> QED
    BY <2>1, <2>2, <2>3
<1> QED
  BY <1>1, <1>2, <1>3, HighInvariantHolds, PTL DEF HighSpec, FS!Spec, ImplementsFileSpec

=============================================================================
