------------------------------ MODULE FileSpec ------------------------------
(***************************************************************************)
(* What the readers of a file are promised: a file is a sequence of        *)
(* sectors.  A call that asks for some of them gets them all, the next     *)
(* ones of the file, in as many transfers as it takes; its answer says     *)
(* whether bytes of the file are left.                                     *)
(***************************************************************************)
EXTENDS Integers, Sequences

CONSTANT SectorSize

VARIABLES
  content,      \* the sectors of the file
  length,       \* its length in bytes
  state,        \* "open", "busy": in a call, "told": answered, or "closed"
  given,        \* the sectors that have been transferred since it was opened
  owed,         \* how many the call under way has yet to transfer
  position,     \* the bytes that have been delivered
  left          \* the last answer: there are more

vars == <<content, length, state, given, owed, position, left>>

Init == /\ content \in Seq(Int) /\ length \in Nat
        /\ state = "open" /\ given = <<>> /\ owed = 0 /\ position = 0 /\ left = TRUE

Ask ==
  /\ state = "open" /\ state' = "busy"
  /\ owed' \in 1 .. Len(content) - Len(given)
  /\ UNCHANGED <<content, length, given, position, left>>

\* Who asks for nothing, or at the end of the file, learns nothing.
AskNothing ==
  /\ state = "open" /\ state' = "told"
  /\ left' \in BOOLEAN
  /\ UNCHANGED <<content, length, given, owed, position>>

Transfer ==
  /\ state = "busy"
  /\ \E n \in 1 .. owed : /\ given' = SubSeq(content, 1, Len(given) + n)
                          /\ owed' = owed - n
  /\ UNCHANGED <<content, length, state, position, left>>

Answer ==
  /\ state = "busy" /\ owed = 0 /\ state' = "told"
  /\ position' = IF SectorSize * Len(given) < length THEN SectorSize * Len(given) ELSE length
  /\ left' = (position' < length)
  /\ UNCHANGED <<content, length, given, owed>>

Done ==
  /\ state = "told" /\ state' = IF left THEN "open" ELSE "closed"
  /\ UNCHANGED <<content, length, given, owed, position, left>>

Open ==
  /\ state = "closed" /\ state' = "open"
  /\ given' = <<>> /\ owed' = 0 /\ position' = 0 /\ left' = TRUE
  /\ UNCHANGED <<content, length>>

Next == Ask \/ AskNothing \/ Transfer \/ Answer \/ Done \/ Open

Spec == Init /\ [][Next]_vars
=============================================================================
