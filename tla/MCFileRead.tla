----------------------------- MODULE MCFileRead -----------------------------
(* Five clusters of two sectors of two bytes; chains with contiguous runs,  *)
(* jumps forward and jumps back.                                            *)
EXTENDS LoadHigh

MCFatChains == {<<2>>, <<4, 5>>, <<2, 4>>, <<5, 6, 3>>, <<2, 3, 4>>, <<6, 2, 3, 5>>,
             <<3, 4, 5, 6>>, <<2, 3, 5, 6>>}
\* On ext2, with holes.
MCExt2Chains == {<<2>>, <<0, 5>>, <<2, 3>>, <<5, 0, 0>>, <<2, 3, 4>>, <<6, 2, 3, 5>>,
               <<3, 4, 5, 6>>, <<0, 0, 2, 3>>}
\* The last size is so large that rounding it up overflows.
MCSizes == 1 .. 16 \cup {255}

\* A directory entry without clusters.
EmptyChain == {<<>>}
EmptySize == {0}
NoChain == {}

\* Loads of everything and of a part, with and without room for it, aligned or
\* not, in one piece or in several.
Load(n, buf, limit, mask, call) ==
  [bytes |-> n, buf |-> buf, limit |-> limit, mask |-> mask, call |-> call]
MCLoads == {Load(60, 8, 40, 3, TRUE), Load(60, 8, 17, 3, FALSE), Load(5, 9, 40, 0, TRUE),
            Load(7, 8, 15, 0, TRUE), Load(0, 8, 40, 0, FALSE)}
NoLoads == {}
=============================================================================
