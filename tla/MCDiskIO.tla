------------------------------ MODULE MCDiskIO ------------------------------
(* Sectors of two units, segments of four sectors, tracks of three sectors, *)
(* twelve sectors that CHS can address.  Buffers: aligned, unaligned close to  *)
(* the end of a segment (so that no whole sector fits), and above LowLimit. *)
EXTENDS DiskIO

MCMaxTransfers == {2, 4}
MCBufs == {0, 5, 41}
MCLbas == {0, 4, 8, 12}
=============================================================================
