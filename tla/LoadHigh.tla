------------------------------ MODULE LoadHigh ------------------------------
(***************************************************************************)
(* Loading a file into high memory: pm_load_high                           *)
(* (syslinux/libcore/fs/loadhigh.c), which calls getfssec until it has the *)
(* bytes asked for, the memory is full or the file ends.  Other calls read *)
(* from the file between two loads, and each load starts where they ended. *)
(***************************************************************************)
EXTENDS FileRead

CONSTANTS
  MAX_CHUNK,    \* bytes read at once when a routine is called in between
  Loads         \* the calls: bytes, buf, limit, mask and call (BX is not 0)

ASSUME LoadAssumption ==
  /\ MAX_CHUNK \in Nat \ {0} /\ MAX_CHUNK % SectorSize = 0
  /\ \A r \in Loads : /\ r.bytes \in Nat /\ r.buf \in Nat /\ r.limit \in Nat
                      /\ r.mask \in Nat /\ r.call \in BOOLEAN

VARIABLE hi     \* the registers and local variables of the load under way

hvars == <<vars, hi>>

NoLoad == [at |-> "none"]
Least(m, n) == IF m < n THEN m ELSE n
RoundDown(n, unit) == n - (n % unit)

InitHigh == Init /\ hi = NoLoad

\* The call: base and from, where the first byte goes and where it comes from,
\* are history.
pm_load_high(r) ==
  /\ pc = "idle" /\ hi.at = "none"
  /\ hi' = [at |-> "loop", bytes |-> r.bytes, buf |-> r.buf, call |-> r.call, mask |-> r.mask,
            limit |-> RoundDown(r.limit, r.mask + 1), flags |-> "none",
            asked |-> r.bytes, base |-> r.buf, from |-> offset, sectors |-> 0, chunk |-> 0,
            ebx |-> 0, edi |-> 0]
  /\ UNCHANGED vars

\* The loop ends: after the data come pad bytes of zeros.
pad(h) == h.buf % (h.mask + 1)
Leave(h, flags) == [h EXCEPT !.at = "done", !.flags = flags,
                             !.ebx = h.buf, !.edi = h.buf + pad(h)]

AllRead ==
  /\ pc = "idle" /\ hi.at = "loop" /\ hi.bytes = 0
  /\ hi' = Leave(hi, "none")
  /\ UNCHANGED vars

NoRoom ==
  /\ pc = "idle" /\ hi.at = "loop" /\ hi.bytes > 0
  /\ hi.buf + SectorSize > hi.limit
  /\ hi' = Leave(hi, "OF")
  /\ UNCHANGED vars

\* Mutant: the room that is left does not limit the read.
ChunkOfAnySize(h) ==
  IF h.call THEN Least(h.bytes, MAX_CHUNK) ELSE h.bytes

\* How many bytes are read next: no more than fit, in whole sectors.
Chunk(h) ==
  Least(IF h.call THEN Least(h.bytes, MAX_CHUNK) ELSE h.bytes,
        RoundDown(h.limit - h.buf, SectorSize))

ReadMore ==
  /\ hi.at = "loop" /\ hi.bytes > 0
  /\ hi.buf + SectorSize <= hi.limit
  /\ LET k == CeilDiv(Chunk(hi), SectorSize)
     IN /\ Getfssec(k) \/ GetfssecNothing(k)
        /\ hi' = [hi EXCEPT !.at = "read", !.chunk = Chunk(hi), !.sectors = k]

\* Mutant: the end of the file is not noticed.
AfterReadGoesOn(h) == [h EXCEPT !.at = "loop"]

\* The file, at its end, is closed.
AfterRead(h) == IF more THEN [h EXCEPT !.at = "loop"] ELSE Leave(h, "CF")

HighReturn ==
  /\ pc = "ret" /\ hi.at = "read"
  /\ LET n == Least(bytes, hi.chunk)
     IN hi' = AfterRead([hi EXCEPT !.buf = @ + n, !.bytes = @ - n])
  /\ pc' = IF more THEN "idle" ELSE "closed"
  /\ UNCHANGED <<fs, chain, entrysize, start, size, this, nxt, pvt, offset, sectors, left,
                 bytes, more, got>>

Leaves ==
  /\ hi.at = "done"
  /\ hi' = NoLoad
  /\ UNCHANGED vars

HighStep ==
  \/ AllRead \/ NoRoom \/ ReadMore \/ HighReturn \/ Leaves
  \/ Inside /\ UNCHANGED hi
  \/ hi.at = "none" /\ Return /\ UNCHANGED hi

HighNext ==
  \/ \E r \in Loads : pm_load_high(r)
  \/ hi.at = "none" /\ UNCHANGED hi
     /\ \E k \in 0 .. MaxSectors : Getfssec(k) \/ GetfssecNothing(k)
  \/ hi.at = "none" /\ FindEntry /\ UNCHANGED hi
  \/ HighStep

HighSpec == InitHigh /\ [][HighNext]_hvars /\ WF_hvars(HighStep)

-----------------------------------------------------------------------------
\* loadhigh.c:64-103.  While a load is under way the memory and the file are
\* at the same place, and no read can reach the limit.  At its end all that
\* was asked for is there, or the file up to its end, or as many whole sectors
\* as fit.
HighLoadRight ==
  /\ hi.at = "loop" /\ hi.bytes > 0 => hi.buf - hi.base = offset - hi.from
  /\ hi.at = "read" => hi.buf + hi.sectors * SectorSize <= hi.limit
  /\ hi.at = "done" /\ Complete /\ hi.from < entrysize =>
       LET n == hi.ebx - hi.base
       IN CASE hi.flags = "none" -> n = hi.asked
            [] hi.flags = "CF"   -> offset = entrysize /\ n = Least(hi.asked, entrysize - hi.from)
            [] hi.flags = "OF"   -> n < hi.asked /\ hi.limit - hi.buf < SectorSize

\* loadhigh.c:64-103.  A load from a file whose clusters are all there ends.
HighLoadEnds == (hi.at = "loop" /\ Complete /\ offset < entrysize) ~> (hi.at = "none")
=============================================================================
