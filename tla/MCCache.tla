------------------------------ MODULE MCCache ------------------------------
(* A cache arena of 40 units with descriptors of 2: three blocks of 8 units *)
(* (shift 3), two of 16 (shift 4), one of 32 (shift 5).                     *)
EXTENDS Cache

MCBlock == 0 .. 3
MCShifts == {3, 4, 5}
=============================================================================
