------------------------------- MODULE MCVfs -------------------------------
(* A root with a directory d, which holds a file f, a link up to /d and a   *)
(* link l to f; and a link loop that leads to itself.  Links may be followed *)
(* twice.                                                                    *)
EXTENDS Vfs, TLC

MCNode == {"R", "d", "f", "up", "l", "loop"}
MCMode == [x \in MCNode |-> CASE x \in {"R", "d"} -> "DIR"
                              [] x = "f" -> "REG" [] OTHER -> "LNK"]
MCEntries ==
  [x \in MCNode |->
     CASE x = "R" -> [nm \in {"d", "loop"} |-> nm]
       [] x = "d" -> [nm \in {"f", "up", "l"} |-> nm]
       [] OTHER -> <<>>]
MCTarget == [x \in {"up", "l", "loop"} |->
     CASE x = "up" -> <<"/", "d">> [] x = "l" -> <<"f">> [] x = "loop" -> <<"loop">>]
MCPaths == {<<"/">>, <<"..">>, <<"d", ".", "f">>, <<"up", "l">>, <<"/", "d", "..", "d">>,
            <<"/", "loop", "f">>, <<"d", "f", "f">>, <<"l">>, <<"x">>}

MCName == {"/", ".", "..", "d", "f", "up", "l", "loop", "x"}

-----------------------------------------------------------------------------
(* Path lookup, as a recursive definition. *)
ParentNode(x) == IF \E y \in MCNode : \E nm \in DOMAIN MCEntries[y] : MCEntries[y][nm] = x
                 THEN CHOOSE y \in MCNode : \E nm \in DOMAIN MCEntries[y] : MCEntries[y][nm] = x
                 ELSE x

RECURSIVE MCResolve(_, _, _)
MCResolve(x, p, k) ==
  IF p = <<>> THEN x
  ELSE LET c == Head(p) rest == Tail(p) IN
       CASE c = "/" -> MCResolve("R", rest, k)
         [] c = "." -> MCResolve(x, rest, k)
         [] c = ".." -> MCResolve(ParentNode(x), rest, k)
         [] OTHER ->
              IF c \notin DOMAIN MCEntries[x] THEN "none"
              ELSE LET y == MCEntries[x][c] IN
                   IF MCMode[y] # "LNK" THEN MCResolve(y, rest, k)
                   ELSE IF k <= 1 THEN "none" ELSE MCResolve(x, MCTarget[y] \o rest, k - 1)

\* The definition obeys the laws, on all paths of up to three components.
ASSUME MCResolveAssumption == ResolveLaws(UNION {[1 .. n -> MCName] : n \in 0 .. 3})
=============================================================================
