----------------------------- MODULE ByteStream -----------------------------
(***************************************************************************)
(* What the serial input promises getchar: the bytes that the UART has     *)
(* taken come out once each and in order.  A byte may be lost only when as *)
(* many as the ring has slots are waiting, or when the port is being set   *)
(* up or has flow control; from then on the order is all that is promised, *)
(* and with flow control or without a port not even that, until the ring   *)
(* is erased.                                                              *)
(***************************************************************************)
EXTENDS Integers, Sequences

CONSTANT Capacity

VARIABLES
  stream,     \* the bytes that have come in and are to come out
  given,      \* the last byte that has come out
  health,     \* "whole", "torn": bytes have been lost, "spoiled": and more made up
  steady      \* a port is in use, without flow control, and is not being set up

vars == <<stream, given, health, steady>>

Init == stream = <<>> /\ given = 0 /\ health = "whole" /\ steady = FALSE

\* Bytes are numbered: a new one is none of those that are waiting or gone.
ComeIn ==
  /\ health = "whole"
  /\ \E i \in 1 .. Len(stream') : /\ stream' = Append(stream, stream'[i])
                                  /\ given < stream'[i]
                                  /\ \A j \in 1 .. Len(stream) : stream[j] < stream'[i]
  /\ UNCHANGED <<given, health, steady>>

ComeOut ==
  /\ health = "whole" /\ stream # <<>>
  /\ given' = Head(stream) /\ stream' = Tail(stream)
  /\ UNCHANGED <<health, steady>>

Overflow ==
  /\ health = "whole" /\ Len(stream) >= Capacity
  /\ health' = "torn" /\ stream' = <<>>
  /\ UNCHANGED <<given, steady>>

Spoil ==
  /\ ~ steady
  /\ health' = "spoiled" /\ stream' = <<>>
  /\ UNCHANGED <<given, steady>>

ComeOutBroken ==
  /\ health # "whole"
  /\ given' \in Nat /\ (health = "torn" => given < given')
  /\ UNCHANGED <<stream, health, steady>>

\* A port is set up, or given up.
Configure ==
  /\ steady' \in BOOLEAN
  /\ UNCHANGED <<stream, given, health>>

\* Whoever sets it up may forget the newest bytes or the oldest, or start anew.
Forget ==
  /\ ~ steady /\ steady' \in BOOLEAN
  /\ \/ /\ health = "whole"
        /\ \E i \in 0 .. Len(stream) :
             \/ stream' = SubSeq(stream, 1, i)
             \/ stream' = SubSeq(stream, i + 1, Len(stream))
     \/ health # "whole" /\ stream' \in Seq(Nat)
  /\ health' = "whole"
  /\ UNCHANGED given

Next == \/ ComeIn \/ ComeOut \/ Overflow \/ Spoil \/ ComeOutBroken \/ Configure \/ Forget

Spec == Init /\ [][Next]_vars
=============================================================================
