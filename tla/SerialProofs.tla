---------------------------- MODULE SerialProofs ----------------------------
(***************************************************************************)
(* The ring of the serial port is a queue for every size of the ring, the  *)
(* UART and the register, wherever the handler and getchar interrupt each  *)
(* other.                                                                  *)
(***************************************************************************)
EXTENDS Serial, SequenceTheorems, TLAPS

\* How many bytes are queued, and the i-th of them, from 0.
Queue == Wrap(head - tail)
At(i) == buf[Wrap(tail + i)]

\* The bytes in the UART are in the order of their arrival.
UartInv ==
  /\ arrived \in 0 .. MaxByte /\ uart \in Seq(Nat)
  /\ \A i \in 1 .. Len(uart) : uart[i] \in 1 .. arrived
  /\ \A i, j \in 1 .. Len(uart) : i < j => uart[i] < uart[j]

\* Byte x has been taken from the UART: it is older than all that is there.
Taken(x) == x \in 0 .. arrived /\ \A i \in 1 .. Len(uart) : x < uart[i]

TakenInv == Taken(last) /\ Taken(al) /\ \A s \in Slot : Taken(buf[s])

\* AX holds the tail as long as getchar uses it; while interrupts are off there
\* is no handler, and what getchar found out about the head stays true.
MainInv ==
  /\ pc \in {"poll", "get", "direct", "queued", "tail"} => ax = tail
  /\ pc = "direct" => head = tail
  /\ pc \in {"queued", "tail"} => head # tail
  /\ iflag = (pc \notin {"direct", "queued"})
  /\ ~ iflag => irq = "off"
  /\ pc \in {"parse", "cleanup", "setup", "install", "wipe", "enable"} => ~ polled

\* DI is the head, or one beyond it once the byte is stored.  After a byte that
\* did not fit it is the tail, and the next byte overwrites the oldest one.
HandlerInv ==
  /\ irq = "store" /\ port => uart # <<>>
  /\ irq = "check" => port \/ damaged
  /\ ~ damaged /\ irq = "store" =>
       di = head \/ (overflow /\ di = tail /\ Wrap(head + 1) = tail)
  /\ ~ damaged /\ irq = "check" =>
       di = head + 1 \/ (overflow /\ di = tail + 1 /\ Wrap(head + 1) = tail)

\* The oldest queued byte has just been overwritten.
Overwritten == irq = "check" /\ di # head + 1

\* What is handed out, read by getchar, queued and just stored is in order.
OrderInv ==
  ~ damaged =>
    /\ pc = "tail" => last < al
    /\ irq = "check" => last < Stored
    /\ irq = "check" /\ pc = "tail" => al < Stored
    /\ irq = "check" /\ di = head + 1 => \A i \in 0 .. Queue - 1 : At(i) < Stored
    /\ ~ Overwritten =>
         /\ \A i, j \in 0 .. Queue - 1 : i < j => At(i) < At(j)
         /\ \A i \in 0 .. Queue - 1 : last < At(i)
         /\ pc = "tail" => \A i \in 1 .. Queue - 1 : al < At(i)

QueueInv ==
  /\ pending \in Seq(Nat)
  /\ ~ overflow /\ ~ damaged =>
       Len(pending) = Queue /\ \A i \in 1 .. Queue : pending[i] = At(i - 1)

\* What pollchar promised stays, wherever getchar is.
PollInv == polled /\ ~ damaged => head # tail \/ uart # <<>> \/ irq = "check"

IInv == /\ TypeOK /\ UartInv /\ TakenInv /\ MainInv /\ HandlerInv
        /\ OrderInv /\ QueueInv /\ PollInv /\ GivenInOrder

-----------------------------------------------------------------------------
(* The arithmetic of the ring. *)

\* An index wraps around into the ring, and what it becomes.
LEMMA WrapFacts ==
  /\ \A i \in Int : Wrap(i) \in Slot
  /\ \A i \in Slot : Wrap(i) = i
  /\ \A i \in Size .. 2 * Size - 1 : Wrap(i) = i - Size
  /\ \A i \in -Size .. -1 : Wrap(i) = i + Size
<1>1. \A i \in Int : Wrap(i) \in Slot
  BY SerialAssumption DEF Wrap, Slot
<1>2. \A i \in Slot : Wrap(i) = i
  BY SerialAssumption DEF Wrap, Slot
<1>3. \A i \in Size .. 2 * Size - 1 : Wrap(i) = i - Size
  BY SerialAssumption DEF Wrap, Slot
<1>4. \A i \in -Size .. -1 : Wrap(i) = i + Size
  BY SerialAssumption DEF Wrap, Slot
<1>5. QED
  BY <1>1, <1>2, <1>3, <1>4

\* DI does not overflow when it is an index of the ring.
LEMMA NoWrapAround == \A d \in Slot : d \in Int /\ (d + 1) % Width = d + 1
BY SerialAssumption DEF Slot

\* Head, tail and the number of slots from the tail to the head.
LEMMA RingFacts ==
  ASSUME NEW h \in Slot, NEW t \in Slot
  PROVE  /\ Wrap(h - t) \in Slot
         /\ Wrap(h - t) = 0 <=> h = t
         /\ Wrap(t + Wrap(h - t)) = h
         /\ \A i \in 0 .. Wrap(h - t) - 1 : Wrap(t + i) \in Slot /\ Wrap(t + i) # h
         /\ \A i \in 1 .. Wrap(h - t) - 1 : Wrap(t + i) # t
<1>1. /\ Size \in Nat /\ Size >= 2 /\ h \in Int /\ t \in Int
      /\ 0 <= h /\ h < Size /\ 0 <= t /\ t < Size
  BY SerialAssumption DEF Slot
<1>2. CASE h >= t
  <2>1. Wrap(h - t) = h - t
    BY <1>1, <1>2, WrapFacts DEF Slot
  <2>2. \A i \in 0 .. h - t : Wrap(t + i) = t + i
    BY <1>1, <1>2, WrapFacts DEF Slot
  <2>3. Wrap(h - t) \in Slot /\ (Wrap(h - t) = 0 <=> h = t)
    BY <1>1, <1>2, <2>1 DEF Slot
  <2>4. Wrap(t + Wrap(h - t)) = h
    BY <1>1, <1>2, <2>1, <2>2
  <2>5. ASSUME NEW i \in 0 .. Wrap(h - t) - 1
        PROVE  Wrap(t + i) # h /\ (i # 0 => Wrap(t + i) # t)
    BY <1>1, <1>2, <2>1, <2>2
  <2>6. QED
    BY <1>1, <2>3, <2>4, <2>5, WrapFacts DEF Slot
<1>3. CASE h < t
  <2>1. Wrap(h - t) = h - t + Size
    BY <1>1, <1>3, WrapFacts DEF Slot
  <2>2. \A i \in 0 .. h - t + Size : Wrap(t + i) = IF t + i < Size THEN t + i ELSE t + i - Size
    BY <1>1, <1>3, WrapFacts DEF Slot
  <2>3. Wrap(h - t) \in Slot /\ (Wrap(h - t) = 0 <=> h = t)
    BY <1>1, <1>3, <2>1 DEF Slot
  <2>4. Wrap(t + Wrap(h - t)) = h
    BY <1>1, <1>3, <2>1, <2>2
  <2>5. ASSUME NEW i \in 0 .. Wrap(h - t) - 1
        PROVE  Wrap(t + i) # h /\ (i # 0 => Wrap(t + i) # t)
    BY <1>1, <1>3, <2>1, <2>2
  <2>6. QED
    BY <1>1, <2>3, <2>4, <2>5, WrapFacts DEF Slot
<1>4. QED
  BY <1>1, <1>2, <1>3

\* The head moves on: one more is queued, unless the ring was full.
LEMMA HeadMoves ==
  ASSUME NEW h \in Slot, NEW t \in Slot
  PROVE  /\ Wrap(h + 1) \in Slot /\ Wrap(h + 1 - 1) = h
         /\ Wrap(h + 1) = t => h # t /\ Wrap(h - t) = Size - 1
         /\ Wrap(h + 1) # t => Wrap(Wrap(h + 1) - t) = Wrap(h - t) + 1
<1>1. /\ Size \in Nat /\ Size >= 2 /\ h \in Int /\ t \in Int
      /\ 0 <= h /\ h < Size /\ 0 <= t /\ t < Size
  BY SerialAssumption DEF Slot
<1>2. Wrap(h - t) = IF h >= t THEN h - t ELSE h - t + Size
  BY <1>1, WrapFacts DEF Slot
<1>3. Wrap(h + 1) = IF h + 1 = Size THEN 0 ELSE h + 1
  BY <1>1, WrapFacts DEF Slot
<1>4. Wrap(Wrap(h + 1) - t) = IF Wrap(h + 1) >= t THEN Wrap(h + 1) - t ELSE Wrap(h + 1) - t + Size
  BY <1>1, <1>3, WrapFacts DEF Slot
<1>5. Wrap(h + 1 - 1) = h
  BY <1>1, WrapFacts DEF Slot
<1>6. Wrap(h + 1) \in Slot
  BY <1>1, WrapFacts
<1>7. QED
  BY <1>1, <1>2, <1>3, <1>4, <1>5, <1>6

\* The tail moves on: one less is queued, and each is one place nearer.
LEMMA TailMoves ==
  ASSUME NEW h \in Slot, NEW t \in Slot, h # t
  PROVE  /\ Wrap(t + 1) \in Slot
         /\ Wrap(h - Wrap(t + 1)) = Wrap(h - t) - 1
         /\ \A i \in 0 .. Size - 1 : Wrap(Wrap(t + 1) + i) = Wrap(t + (i + 1))
<1>1. /\ Size \in Nat /\ Size >= 2 /\ h \in Int /\ t \in Int
      /\ 0 <= h /\ h < Size /\ 0 <= t /\ t < Size
  BY SerialAssumption DEF Slot
<1>2. Wrap(h - t) = IF h >= t THEN h - t ELSE h - t + Size
  BY <1>1, WrapFacts DEF Slot
<1>3. Wrap(t + 1) = IF t + 1 = Size THEN 0 ELSE t + 1
  BY <1>1, WrapFacts DEF Slot
<1>4. Wrap(h - Wrap(t + 1)) = IF h >= Wrap(t + 1) THEN h - Wrap(t + 1) ELSE h - Wrap(t + 1) + Size
  BY <1>1, <1>3, WrapFacts DEF Slot
<1>5. ASSUME NEW i \in 0 .. Size - 1 PROVE Wrap(Wrap(t + 1) + i) = Wrap(t + (i + 1))
  <2>1. CASE t + 1 = Size
    <3>1. Wrap(Wrap(t + 1) + i) = i
      BY <1>1, <1>3, <2>1, WrapFacts DEF Slot
    <3>2. Wrap(t + (i + 1)) = i
      BY <1>1, <2>1, WrapFacts DEF Slot
    <3>3. QED
      BY <3>1, <3>2
  <2>2. CASE t + 1 # Size
    <3>1. Wrap(t + 1) + i = t + (i + 1)
      BY <1>1, <1>3, <2>2
    <3>2. QED
      BY <3>1
  <2>3. QED
    BY <2>1, <2>2
<1>6. Wrap(t + 1) \in Slot
  BY <1>1, WrapFacts
<1>7. QED
  BY <1>1, <1>2, <1>3, <1>4, <1>5, <1>6
-----------------------------------------------------------------------------
(* The invariant holds at the start and is preserved. *)

\* The invariant holds when the program starts.
LEMMA InitInv == Init => IInv
<1> SUFFICES ASSUME Init PROVE IInv
  OBVIOUS
<1>1. 0 \in Slot /\ Queue = 0
  BY SerialAssumption, WrapFacts DEF Init, Queue, Slot
<1>2. TypeOK
  <2>1. 0 \in 0 .. MaxByte /\ 0 \in 0 .. Width - 1
    BY SerialAssumption
  <2>2. buf \in [Slot -> 0 .. MaxByte]
    BY <2>1 DEF Init, Blank
  <2>3. QED
    BY <1>1, <2>1, <2>2 DEF Init, TypeOK
<1>3. UartInv /\ TakenInv
  BY SerialAssumption DEF Init, UartInv, TakenInv, Taken, Blank
<1>4. HandlerInv /\ PollInv /\ GivenInOrder
  BY DEF Init, HandlerInv, PollInv, GivenInOrder
<1>5. OrderInv /\ QueueInv
  BY <1>1 DEF Init, OrderInv, QueueInv
<1>6. MainInv
  BY DEF Init, MainInv
<1>7. QED
  BY <1>2, <1>3, <1>4, <1>5, <1>6 DEF IInv

\* Steps of the main program that touch neither the bytes nor the handler.
LEMMA QuietInv ==
  ASSUME IInv, UNCHANGED <<uvars, ring, irq, di, al, hist>>, pc' = "tail" => pc = "tail"
  PROVE  /\ UartInv' /\ TakenInv' /\ OrderInv' /\ QueueInv' /\ GivenInOrder'
         /\ head' \in Slot /\ tail' \in Slot /\ buf' \in [Slot -> 0 .. MaxByte]
         /\ irq' \in {"off", "store", "check"} /\ di' \in 0 .. Width - 1
<1>1. UartInv' /\ TakenInv'
  BY DEF IInv, uvars, ring, hist, UartInv, TakenInv, Taken
<1>2. QueueInv' /\ GivenInOrder'
  BY DEF IInv, ring, hist, QueueInv, GivenInOrder, Queue, At
<1>3. OrderInv'
  BY DEF IInv, ring, hist, OrderInv, Overwritten, Stored, Queue, At
<1>4. QED
  BY <1>1, <1>2, <1>3 DEF IInv, ring, TypeOK

\* The other parts, when neither the ring nor the UART nor the port changes.
LEMMA CallsInv ==
  ASSUME IInv, \/ CallPollchar \/ Pollchar \/ CallGetchar \/ Key \/ ReadTail
               \/ Compare \/ Again
  PROVE  IInv'
<1>1. UNCHANGED <<uvars, ring, irq, di, al, hist>> /\ (pc' = "tail" => pc = "tail")
  BY DEF CallPollchar, Pollchar, CallGetchar, Key, ReadTail, Compare, Again
<1>2. HandlerInv'
  BY <1>1 DEF IInv, HandlerInv, CallPollchar, Pollchar, CallGetchar, Key, ReadTail, Compare,
     Again, uvars, ring, hist
<1>3. 0 \in Slot
  BY SerialAssumption DEF Slot
<1>4. CASE CallPollchar
  <2>1. MainInv' /\ PollInv'
    BY <1>4 DEF IInv, CallPollchar, MainInv, PollInv, uvars, ring, hist
  <2>2. TypeOK'
    BY <1>1, <1>4, QuietInv DEF IInv, CallPollchar, TypeOK
  <2>3. QED
    BY <1>1, <1>2, <2>1, <2>2, QuietInv DEF IInv
<1>5. CASE Pollchar
  <2>1. MainInv' /\ PollInv'
    BY <1>5 DEF IInv, Pollchar, MainInv, PollInv, uvars, ring, hist
  <2>2. TypeOK'
    BY <1>1, <1>3, <1>5, QuietInv DEF IInv, Pollchar, TypeOK
  <2>3. QED
    BY <1>1, <1>2, <2>1, <2>2, QuietInv DEF IInv
<1>6. CASE CallGetchar
  <2>1. MainInv' /\ PollInv'
    BY <1>6 DEF IInv, CallGetchar, MainInv, PollInv, uvars, ring, hist
  <2>2. TypeOK'
    BY <1>1, <1>6, QuietInv DEF IInv, CallGetchar, TypeOK
  <2>3. QED
    BY <1>1, <1>2, <2>1, <2>2, QuietInv DEF IInv
<1>7. CASE Key
  <2>1. MainInv' /\ PollInv'
    BY <1>7 DEF IInv, Key, MainInv, PollInv, uvars, ring, hist
  <2>2. TypeOK'
    BY <1>1, <1>7, QuietInv DEF IInv, Key, TypeOK
  <2>3. QED
    BY <1>1, <1>2, <2>1, <2>2, QuietInv DEF IInv
<1>8. CASE ReadTail
  <2>1. MainInv' /\ PollInv'
    BY <1>8 DEF IInv, ReadTail, MainInv, PollInv, uvars, ring, hist
  <2>2. TypeOK'
    BY <1>1, <1>8, QuietInv DEF IInv, ReadTail, TypeOK
  <2>3. QED
    BY <1>1, <1>2, <2>1, <2>2, QuietInv DEF IInv
<1>9. CASE Compare
  <2>1. MainInv' /\ PollInv'
    BY <1>9 DEF IInv, Compare, MainInv, PollInv, uvars, ring, hist
  <2>2. TypeOK'
    BY <1>1, <1>9, QuietInv DEF IInv, Compare, TypeOK
  <2>3. QED
    BY <1>1, <1>2, <2>1, <2>2, QuietInv DEF IInv
<1>10. CASE Again
  <2>1. MainInv' /\ PollInv'
    BY <1>10 DEF IInv, Again, MainInv, PollInv, uvars, ring, hist
  <2>2. TypeOK'
    BY <1>1, <1>3, <1>10, QuietInv DEF IInv, Again, TypeOK
  <2>3. QED
    BY <1>1, <1>2, <2>1, <2>2, QuietInv DEF IInv
<1>11. QED
  BY <1>4, <1>5, <1>6, <1>7, <1>8, <1>9, <1>10

\* The steps of the "serial" command that leave the ring and the UART alone.
LEMMA CommandInv ==
  ASSUME IInv, \/ SerialNoNumber \/ SerialCommand \/ Parsed \/ Enable
               \/ CleanupNowipe("cleanup", "setup") \/ CleanupNowipe("idle", "wipe")
  PROVE  IInv'
<1>1. UNCHANGED <<uvars, ring, irq, di, al, hist>> /\ pc' # "tail" /\ irq = "off"
  BY DEF SerialNoNumber, SerialCommand, Parsed, Enable, CleanupNowipe, IInv, MainInv
<1>2. HandlerInv'
  BY <1>1 DEF HandlerInv
<1>3. MainInv' /\ ~ polled'
  BY DEF IInv, MainInv, SerialNoNumber, SerialCommand, Parsed, Enable, CleanupNowipe, ring
<1>4. TypeOK'
  BY <1>1, QuietInv DEF IInv, TypeOK, SerialNoNumber, SerialCommand, Parsed, Enable,
     CleanupNowipe
<1>5. PollInv'
  BY <1>3 DEF PollInv
<1>6. QED
  BY <1>1, <1>2, <1>3, <1>4, <1>5, QuietInv DEF IInv

\* The UART may be emptied, and bytes may be lost, in any state.
LEMMA SetupInv == ASSUME IInv, Setup PROVE IInv'
<1>1. UNCHANGED <<arrived, ring, irq, di, ax, al, iflag, polled, hist>> /\ irq = "off"
      /\ pc' \in {"idle", "install"} /\ pc = "setup"
  BY DEF Setup
<1>2. UartInv' /\ TakenInv'
  <2>1. CASE uart' = uart
    BY <1>1, <2>1 DEF IInv, UartInv, TakenInv, Taken, ring, hist
  <2>2. CASE uart' = <<>>
    BY <1>1, <2>2 DEF IInv, UartInv, TakenInv, Taken, ring, hist
  <2>3. QED
    BY <2>1, <2>2 DEF Setup
<1>3. MainInv' /\ PollInv' /\ HandlerInv' /\ TypeOK'
  BY <1>1 DEF IInv, MainInv, PollInv, HandlerInv, TypeOK, ring
<1>4. QueueInv' /\ GivenInOrder'
  BY <1>1 DEF IInv, ring, hist, QueueInv, GivenInOrder, Queue, At
<1>5. OrderInv'
  BY <1>1 DEF IInv, ring, hist, OrderInv, Overwritten, Stored, Queue, At
<1>6. QED
  BY <1>2, <1>3, <1>4, <1>5 DEF IInv

\* sirq_cleanup leaves an empty ring, which is a queue again.
LEMMA WipeInv == ASSUME IInv, Wipe PROVE IInv'
<1>1. 0 \in Slot /\ Queue' = 0
  BY SerialAssumption, WrapFacts DEF Wipe, Queue, Slot
<1>2. UartInv' /\ TakenInv'
  BY <1>1, SerialAssumption DEF IInv, Wipe, UartInv, TakenInv, Taken, Blank, uvars
<1>3. MainInv' /\ PollInv' /\ HandlerInv'
  BY DEF IInv, Wipe, MainInv, PollInv, HandlerInv
<1>4. TypeOK'
  BY <1>1, SerialAssumption DEF IInv, Wipe, TypeOK, Blank
<1>5. QueueInv' /\ GivenInOrder'
  BY <1>1 DEF IInv, Wipe, QueueInv, GivenInOrder
<1>6. OrderInv'
  BY <1>1 DEF IInv, Wipe, OrderInv
<1>7. QED
  BY <1>2, <1>3, <1>4, <1>5, <1>6 DEF IInv

\* A byte may arrive at any time, within the handler too.
LEMMA ArriveInv == ASSUME IInv, Arrive PROVE IInv'
<1>1. UNCHANGED <<ring, irq, di, main, hist, port>> /\ arrived' = arrived + 1 /\ arrived < MaxByte
  BY DEF Arrive
<1>2. UartInv' /\ TakenInv' /\ (uart # <<>> => uart' # <<>>)
  <2>1. arrived \in Nat /\ arrived' \in 0 .. MaxByte /\ uart \in Seq(Nat)
    BY <1>1, SerialAssumption DEF IInv, UartInv
  <2>2. CASE uart' = uart
    BY <1>1, <2>1, <2>2 DEF IInv, UartInv, TakenInv, Taken, ring, main, hist
  <2>3. CASE uart' = Append(uart, arrived + 1)
    <3>1. /\ uart' \in Seq(Nat) /\ Len(uart') = Len(uart) + 1 /\ uart'[Len(uart) + 1] = arrived + 1
          /\ \A i \in 1 .. Len(uart) : uart'[i] = uart[i]
      BY <2>1, <2>3
    <3>2. Len(uart) \in Nat /\ uart' # <<>>
      BY <2>1, <3>1
    <3>3. UartInv'
      <4>1. ASSUME NEW i \in 1 .. Len(uart') PROVE uart'[i] \in 1 .. arrived'
        <5>1. CASE i = Len(uart) + 1
          BY <1>1, <2>1, <3>1, <5>1
        <5>2. CASE i \in 1 .. Len(uart)
          <6>1. uart[i] \in 1 .. arrived /\ uart'[i] = uart[i]
            BY <3>1, <5>2 DEF IInv, UartInv
          <6>2. QED
            BY <1>1, <2>1, <6>1
        <5>3. QED
          BY <3>1, <3>2, <5>1, <5>2
      <4>2. ASSUME NEW i \in 1 .. Len(uart'), NEW j \in 1 .. Len(uart'), i < j
            PROVE  uart'[i] < uart'[j]
        <5>1. i \in 1 .. Len(uart) /\ uart'[i] = uart[i] /\ uart[i] \in 1 .. arrived
          BY <2>1, <3>1, <3>2, <4>2, SMTT(30) DEF IInv, UartInv
        <5>2. CASE j = Len(uart) + 1
          BY <1>1, <2>1, <3>1, <5>1, <5>2
        <5>3. CASE j \in 1 .. Len(uart)
          BY <3>1, <4>2, <5>1, <5>3 DEF IInv, UartInv
        <5>4. QED
          BY <3>1, <3>2, <5>2, <5>3
      <4>3. QED
        BY <2>1, <3>1, <4>1, <4>2 DEF UartInv
    <3>4. ASSUME NEW x, Taken(x) PROVE x \in 0 .. arrived' /\ \A i \in 1 .. Len(uart') : x < uart'[i]
      BY <1>1, <2>1, <3>1, <3>2, <3>4, SMTT(30) DEF Taken
    <3>5. QED
      BY <1>1, <3>2, <3>3, <3>4 DEF IInv, TakenInv, Taken, ring, main, hist
  <2>4. QED
    BY <2>2, <2>3 DEF Arrive
<1>3. MainInv' /\ PollInv' /\ HandlerInv' /\ TypeOK'
  BY <1>1, <1>2 DEF IInv, MainInv, PollInv, HandlerInv, TypeOK, ring, main, hist
<1>4. QueueInv' /\ GivenInOrder'
  BY <1>1 DEF IInv, ring, hist, QueueInv, GivenInOrder, Queue, At
<1>5. OrderInv'
  BY <1>1 DEF IInv, ring, main, hist, OrderInv, Overwritten, Stored, Queue, At
<1>6. QED
  BY <1>2, <1>3, <1>4, <1>5 DEF IInv

\* Taking a byte from the UART: the rest is still in order, all that was taken
\* before is older than the byte, and the byte is older than the rest.
LEMMA TakeByteOK ==
  ASSUME UartInv, TakeByte, uart # <<>>
  PROVE  /\ UartInv' /\ Head(uart) \in 1 .. arrived
         /\ \A x : Taken(x) => x < Head(uart)
         /\ \A x : Taken(x) \/ x = Head(uart) =>
                     x \in 0 .. arrived' /\ \A i \in 1 .. Len(uart') : x < uart'[i]
<1>1. /\ uart \in Seq(Nat) /\ Len(uart) \in Nat /\ Len(uart) >= 1 /\ Head(uart) = uart[1]
      /\ 1 \in 1 .. Len(uart)
  BY DEF UartInv
<1>2. /\ uart' \in Seq(Nat) /\ Len(uart') = Len(uart) - 1 /\ arrived' = arrived
      /\ \A i \in 1 .. Len(uart') : uart'[i] = uart[i + 1] /\ i + 1 \in 1 .. Len(uart)
  BY <1>1 DEF TakeByte
<1>3. UartInv'
  <2>1. \A i \in 1 .. Len(uart') : uart'[i] \in 1 .. arrived'
    BY <1>2 DEF UartInv
  <2>2. ASSUME NEW i \in 1 .. Len(uart'), NEW j \in 1 .. Len(uart'), i < j
        PROVE  uart'[i] < uart'[j]
    <3>1. i + 1 \in 1 .. Len(uart) /\ j + 1 \in 1 .. Len(uart) /\ i + 1 < j + 1
      BY <1>2, <2>2
    <3>2. uart[i + 1] < uart[j + 1]
      BY <3>1 DEF UartInv
    <3>3. QED
      BY <1>2, <3>2
  <2>3. QED
    BY <1>2, <2>1, <2>2 DEF UartInv
<1>4. Head(uart) \in 1 .. arrived
  BY <1>1 DEF UartInv
<1>5. \A x : Taken(x) => x < Head(uart)
  BY <1>1 DEF Taken
<1>6. ASSUME NEW x, Taken(x) \/ x = Head(uart)
      PROVE  x \in 0 .. arrived' /\ \A i \in 1 .. Len(uart') : x < uart'[i]
  <2>1. CASE Taken(x)
    BY <1>2, <2>1 DEF Taken
  <2>2. CASE x = Head(uart)
    <3>1. arrived \in Nat
      BY DEF UartInv
    <3>2. x \in 0 .. arrived'
      BY <1>2, <1>4, <2>2, <3>1
    <3>3. ASSUME NEW i \in 1 .. Len(uart') PROVE x < uart'[i]
      <4>1. uart[1] < uart[i + 1]
        BY <1>1, <1>2, SMTT(30) DEF UartInv
      <4>2. QED
        BY <1>1, <1>2, <2>2, <4>1
    <3>4. QED
      BY <3>2, <3>3
  <2>3. QED
    BY <1>6, <2>1, <2>2
<1>7. QED
  BY <1>3, <1>4, <1>5, <1>6

\* The handler starts with DI at the head.
LEMMA IrqEnterInv == ASSUME IInv, IrqEnter PROVE IInv'
<1>1. /\ UNCHANGED <<port, uvars, ring, main, hist>> /\ irq' = "store" /\ di' = head
      /\ irq = "off" /\ iflag /\ uart # <<>>
  BY DEF IrqEnter
<1>2. MainInv' /\ PollInv' /\ HandlerInv'
  BY <1>1 DEF IInv, MainInv, PollInv, HandlerInv, ring, main, hist, uvars
<1>3. TypeOK'
  <2>1. head \in 0 .. Width - 1
    BY SerialAssumption DEF IInv, TypeOK, Slot
  <2>2. QED
    BY <1>1, <2>1 DEF IInv, TypeOK, ring, main
<1>4. UartInv' /\ TakenInv'
  BY <1>1 DEF IInv, UartInv, TakenInv, Taken, uvars, ring, main, hist
<1>5. QueueInv' /\ GivenInOrder'
  BY <1>1 DEF IInv, ring, hist, QueueInv, GivenInOrder, Queue, At
<1>6. OrderInv'
  BY <1>1 DEF IInv, ring, main, hist, OrderInv, Overwritten, Queue, At
<1>7. QED
  BY <1>2, <1>3, <1>4, <1>5, <1>6 DEF IInv

\* The byte goes to the free slot at the head or, after one that did not fit,
\* over the oldest one.
LEMMA IrqStoreInv == ASSUME IInv, IrqStore PROVE IInv'
<1>1. /\ UNCHANGED <<port, head, tail, main, overflow, last, inorder>>
      /\ irq = "store" /\ irq' = "check" /\ iflag
      /\ damaged' = (damaged \/ ~ port) /\ pending' = IF port THEN pending ELSE <<>>
      /\ di' = (di + 1) % Width
  BY DEF IrqStore, IInv, MainInv
<1>2. /\ Size \in Nat /\ Size >= 2 /\ Width \in Nat /\ Size < Width /\ MaxByte \in Nat
      /\ head \in Slot /\ tail \in Slot /\ di \in 0 .. Width - 1 /\ di \in Int
      /\ buf \in [Slot -> 0 .. MaxByte]
  BY SerialAssumption DEF IInv, TypeOK
<1>3. di' \in 0 .. Width - 1
  BY <1>1, <1>2
<1>4. MainInv' /\ PollInv'
  BY <1>1 DEF IInv, MainInv, PollInv, main
<1>5. CASE ~ port
  <2>1. damaged' /\ UNCHANGED uvars /\ pending' = <<>>
    BY <1>1, <1>5 DEF IrqStore
  <2>2. 0 \in 0 .. MaxByte
    BY <1>2
  <2>3. buf' \in [Slot -> 0 .. MaxByte] /\ \A s \in Slot : buf'[s] = buf[s] \/ buf'[s] = 0
    BY <1>2, <1>5, <2>2 DEF IrqStore
  <2>4. TypeOK'
    BY <1>1, <1>3, <2>3 DEF IInv, TypeOK, main
  <2>5. UartInv'
    BY <2>1 DEF IInv, UartInv, uvars
  <2>6. TakenInv'
    <3>1. Taken(0)
      BY DEF IInv, UartInv, Taken
    <3>2. \A s \in Slot : Taken(buf'[s])
      BY <2>3, <3>1 DEF IInv, TakenInv
    <3>3. QED
      BY <1>1, <2>1, <3>2 DEF IInv, TakenInv, Taken, uvars, main
  <2>7. HandlerInv' /\ OrderInv' /\ QueueInv' /\ GivenInOrder'
    BY <1>1, <2>1 DEF IInv, HandlerInv, OrderInv, QueueInv, GivenInOrder
  <2>8. QED
    BY <1>4, <2>4, <2>5, <2>6, <2>7 DEF IInv
<1>6. CASE port
  <2>1. /\ uart # <<>> /\ TakeByte /\ (damaged' <=> damaged) /\ pending' = pending
        /\ buf' = IF di \in Slot THEN [buf EXCEPT ![di] = Head(uart)] ELSE buf
    BY <1>1, <1>6 DEF IrqStore, IInv, HandlerInv
  <2>2. /\ UartInv' /\ Head(uart) \in 1 .. arrived
        /\ \A x : Taken(x) => x < Head(uart)
        /\ \A x : Taken(x) \/ x = Head(uart) =>
                     x \in 0 .. arrived' /\ \A i \in 1 .. Len(uart') : x < uart'[i]
    BY <2>1, TakeByteOK DEF IInv
  <2>3. Head(uart) \in 0 .. MaxByte
    BY <1>2, <2>2 DEF IInv, UartInv
  <2>4. buf' \in [Slot -> 0 .. MaxByte] /\ \A s \in Slot : buf'[s] = buf[s] \/ buf'[s] = Head(uart)
    BY <1>2, <2>1, <2>3
  <2>5. TypeOK'
    BY <1>1, <1>3, <2>4 DEF IInv, TypeOK, main
  <2>6. TakenInv'
    BY <1>1, <2>2, <2>4 DEF IInv, TakenInv, Taken, main
  <2>7. GivenInOrder'
    BY <1>1 DEF IInv, GivenInOrder
  <2>8. CASE damaged
    BY <1>1, <1>4, <2>1, <2>2, <2>5, <2>6, <2>7, <2>8
       DEF IInv, HandlerInv, OrderInv, QueueInv
  <2>9. CASE ~ damaged /\ di = head
    <3>1. di' = head + 1 /\ buf' = [buf EXCEPT ![head] = Head(uart)]
      BY <1>1, <1>2, <2>1, <2>9, NoWrapAround
    <3>2. Queue' = Queue /\ Queue \in Slot
      BY <1>1, <1>2, RingFacts DEF Queue
    <3>3. \A i \in 0 .. Queue - 1 : At(i)' = At(i) /\ Taken(At(i))
      <4>1. ASSUME NEW i \in 0 .. Queue - 1 PROVE Wrap(tail + i) \in Slot /\ Wrap(tail + i) # head
        BY <1>2, RingFacts DEF Queue
      <4>2. QED
        BY <1>1, <1>2, <3>1, <4>1 DEF At, IInv, TakenInv
    <3>4. Stored' = Head(uart)
      <4>1. Wrap(di' - 1) = head
        BY <1>2, <3>1, WrapFacts DEF Slot
      <4>2. QED
        BY <1>2, <3>1, <4>1 DEF Stored
    <3>5. HandlerInv'
      BY <1>1, <1>6, <3>1 DEF HandlerInv
    <3>6. ~ Overwritten' /\ ~ Overwritten
      BY <1>1, <3>1 DEF Overwritten
    <3>7. QueueInv'
      <4>1. \A i \in 1 .. Queue : i - 1 \in 0 .. Queue - 1
        BY <1>2, <3>2 DEF Slot
      <4>2. QED
        BY <1>1, <2>1, <3>2, <3>3, <4>1 DEF IInv, QueueInv
    <3>8. last < Stored' /\ al < Stored' /\ \A i \in 0 .. Queue - 1 : At(i) < Stored'
      BY <2>2, <3>3, <3>4 DEF IInv, TakenInv
    <3>9. /\ pc = "tail" => last < al
          /\ \A i, j \in 0 .. Queue - 1 : i < j => At(i) < At(j)
          /\ \A i \in 0 .. Queue - 1 : last < At(i)
          /\ pc = "tail" => \A i \in 1 .. Queue - 1 : al < At(i)
      BY <2>9, <3>6 DEF IInv, OrderInv
    <3>10. \A i \in 1 .. Queue - 1 : i \in 0 .. Queue - 1
      BY <1>2, <3>2 DEF Slot
    <3>11. OrderInv'
      BY <1>1, <3>2, <3>3, <3>8, <3>9, <3>10 DEF OrderInv, main
    <3>12. QED
      BY <1>4, <2>2, <2>5, <2>6, <2>7, <3>5, <3>7, <3>11 DEF IInv
  <2>10. CASE ~ damaged /\ di # head
    <3>1. overflow /\ di = tail /\ Wrap(head + 1) = tail
      BY <1>1, <2>10 DEF IInv, HandlerInv
    <3>2. head # tail
      BY <1>2, <3>1, HeadMoves
    <3>3. di' = tail + 1 /\ buf' = [buf EXCEPT ![tail] = Head(uart)]
      BY <1>1, <1>2, <2>1, <3>1, NoWrapAround
    <3>4. Stored' = Head(uart)
      <4>1. Wrap(di' - 1) = tail
        BY <1>2, <3>3, WrapFacts DEF Slot
      <4>2. QED
        BY <1>2, <3>3, <4>1 DEF Stored
    <3>5. Overwritten'
      BY <1>1, <1>2, <3>2, <3>3 DEF Overwritten, Slot
    <3>6. HandlerInv'
      BY <1>1, <1>6, <3>1, <3>3 DEF HandlerInv
    <3>7. QueueInv'
      BY <1>1, <2>1, <3>1 DEF IInv, QueueInv
    <3>8. last < Stored' /\ al < Stored'
      BY <2>2, <3>4 DEF IInv, TakenInv
    <3>9. OrderInv'
      BY <1>1, <2>10, <3>5, <3>8 DEF IInv, OrderInv, Overwritten, main
    <3>10. QED
      BY <1>4, <2>2, <2>5, <2>6, <2>7, <3>6, <3>7, <3>9 DEF IInv
  <2>11. QED
    BY <2>8, <2>9, <2>10
<1>7. QED
  BY <1>5, <1>6

\* The loop of the handler: more data, or back to the main program.
LEMMA LoopFacts ==
  ASSUME NEW d, LoopOrLeave(d)
  PROVE  /\ irq' \in {"off", "store"} /\ (irq' = "store" => di' = d)
         /\ irq' = "off" => di' = 0
         /\ irq' = "store" /\ port => uart # <<>>
BY DEF LoopOrLeave, DataReady

\* The byte joins the queue; an overwritten queue consists of it alone.
LEMMA IrqAcceptInv == ASSUME IInv, IrqAccept PROVE IInv'
<1>1. /\ UNCHANGED <<port, uvars, buf, tail, main, overflow, damaged, last, inorder>>
      /\ irq = "check" /\ iflag /\ Wrap(di) # tail /\ head' = Wrap(di)
      /\ pending' = IF damaged THEN pending ELSE Append(pending, Stored)
      /\ irq' \in {"off", "store"} /\ (irq' = "store" => di' = head') /\ (irq' = "off" => di' = 0)
      /\ irq' = "store" /\ port => uart # <<>>
  BY LoopFacts DEF IrqAccept, WouldOverflow, IInv, MainInv
<1>2. /\ Size \in Nat /\ Size >= 2 /\ Width \in Nat /\ Size < Width /\ MaxByte \in Nat
      /\ head \in Slot /\ tail \in Slot /\ di \in 0 .. Width - 1 /\ di \in Int
      /\ buf \in [Slot -> 0 .. MaxByte]
  BY SerialAssumption DEF IInv, TypeOK
<1>3. head' \in Slot
  BY <1>1, <1>2, WrapFacts
<1>4. MainInv' /\ PollInv'
  BY <1>1 DEF IInv, MainInv, PollInv, main
<1>5. TypeOK'
  <2>1. di' \in 0 .. Width - 1
    BY <1>1, <1>2, <1>3 DEF Slot
  <2>2. QED
    BY <1>1, <1>3, <2>1 DEF IInv, TypeOK, main
<1>6. UartInv' /\ TakenInv'
  BY <1>1 DEF IInv, UartInv, TakenInv, Taken, uvars, main
<1>7. HandlerInv' /\ GivenInOrder' /\ ~ Overwritten'
  BY <1>1, <1>2, <1>3 DEF IInv, HandlerInv, GivenInOrder, Overwritten, uvars
<1>8. Stored \in Nat /\ pending' \in Seq(Nat)
  <2>1. Stored \in Nat
    BY <1>2, WrapFacts DEF Stored
  <2>2. QED
    BY <1>1, <2>1 DEF IInv, QueueInv
<1>9. CASE damaged
  BY <1>1, <1>4, <1>5, <1>6, <1>7, <1>8, <1>9 DEF IInv, OrderInv, QueueInv
<1>10. CASE ~ damaged /\ di = head + 1
  <2>1. /\ Queue' = Queue + 1 /\ Queue \in Nat /\ Wrap(tail + Queue) = head
        /\ Stored = buf[head]
    <3>1. Stored = buf[head]
      <4>1. Wrap(di - 1) = head
        BY <1>2, <1>10, WrapFacts DEF Slot
      <4>2. QED
        BY <4>1 DEF Stored
    <3>2. Queue \in Slot /\ Wrap(tail + Queue) = head
      BY <1>2, RingFacts DEF Queue
    <3>3. Queue' = Queue + 1
      BY <1>1, <1>2, <1>10, HeadMoves DEF Queue
    <3>4. QED
      BY <3>1, <3>2, <3>3 DEF Slot
  <2>2. \A i \in Int : At(i)' = At(i)
    BY <1>1 DEF At
  <2>3. At(Queue) = Stored
    BY <2>1 DEF At
  <2>4. QueueInv'
    <3>1. ASSUME ~ overflow
          PROVE  Len(pending') = Queue + 1 /\ \A i \in 1 .. Queue + 1 : pending'[i] = At(i - 1)
      <4>1. /\ pending \in Seq(Nat) /\ Len(pending) = Queue
            /\ \A i \in 1 .. Queue : pending[i] = At(i - 1)
        BY <1>10, <3>1 DEF IInv, QueueInv
      <4>2. /\ Len(pending') = Queue + 1 /\ pending'[Queue + 1] = Stored
            /\ \A i \in 1 .. Queue : pending'[i] = pending[i]
        BY <1>1, <1>8, <1>10, <2>1, <4>1
      <4>3. Queue + 1 - 1 = Queue
        BY <2>1
      <4>4. QED
        BY <2>1, <2>3, <4>1, <4>2, <4>3
    <3>2. \A i \in 1 .. Queue + 1 : At(i - 1)' = At(i - 1)
      BY <2>1, <2>2
    <3>3. QED
      BY <1>1, <1>8, <2>1, <3>1, <3>2 DEF QueueInv
  <2>5. OrderInv'
    <3>1. /\ pc = "tail" => last < al
          /\ last < Stored /\ (pc = "tail" => al < Stored)
          /\ \A i \in 0 .. Queue - 1 : At(i) < Stored
          /\ \A i, j \in 0 .. Queue - 1 : i < j => At(i) < At(j)
          /\ \A i \in 0 .. Queue - 1 : last < At(i)
          /\ pc = "tail" => \A i \in 1 .. Queue - 1 : al < At(i)
      BY <1>1, <1>10 DEF IInv, OrderInv, Overwritten
    <3>2. \A i \in 0 .. Queue : i \in 0 .. Queue - 1 \/ i = Queue
      BY <2>1
    <3>3. ASSUME NEW i \in 0 .. Queue, NEW j \in 0 .. Queue, i < j PROVE At(i) < At(j)
      <4>1. i \in 0 .. Queue - 1
        BY <2>1, <3>3
      <4>2. QED
        BY <2>3, <3>1, <3>2, <3>3, <4>1
    <3>4. \A i \in 0 .. Queue : last < At(i)
      BY <2>3, <3>1, <3>2
    <3>5. pc = "tail" => \A i \in 1 .. Queue : al < At(i)
      <4>1. \A i \in 1 .. Queue : i \in 1 .. Queue - 1 \/ i = Queue
        BY <2>1
      <4>2. QED
        BY <2>3, <3>1, <4>1
    <3>6. Queue' - 1 = Queue
      BY <2>1
    <3>7. \A i \in 0 .. Queue : At(i)' = At(i)
      BY <2>1, <2>2
    <3>8. \A i \in 1 .. Queue : At(i)' = At(i)
      BY <2>1, <2>2
    <3>9. QED
      BY <1>1, <3>1, <3>3, <3>4, <3>5, <3>6, <3>7, <3>8 DEF OrderInv, main
  <2>6. QED
    BY <1>4, <1>5, <1>6, <1>7, <2>4, <2>5 DEF IInv
<1>11. CASE ~ damaged /\ di # head + 1
  <2>1. overflow /\ di = tail + 1 /\ Wrap(head + 1) = tail
    BY <1>1, <1>11 DEF IInv, HandlerInv
  <2>2. QueueInv'
    BY <1>1, <1>8, <2>1 DEF QueueInv
  <2>3. Queue' = 1
    <3>1. Wrap(tail - tail) = 0 /\ Wrap(tail + 1) # tail
      BY <1>1, <1>2, <2>1, RingFacts
    <3>2. Wrap(Wrap(tail + 1) - tail) = Wrap(tail - tail) + 1
      BY <1>2, <3>1, HeadMoves
    <3>3. QED
      BY <1>1, <2>1, <3>1, <3>2 DEF Queue
  <2>4. At(0)' = Stored
    <3>1. Wrap(tail + 0) = tail /\ Wrap(di - 1) = tail
      BY <1>2, <2>1, WrapFacts DEF Slot
    <3>2. QED
      BY <1>1, <3>1 DEF At, Stored
  <2>5. last < Stored /\ (pc = "tail" => last < al)
    BY <1>1, <1>11 DEF IInv, OrderInv
  <2>6. \A i \in 0 .. Queue' - 1 : i = 0
    BY <2>3
  <2>7. \A i \in 1 .. Queue' - 1 : FALSE
    BY <2>3
  <2>8. OrderInv'
    BY <1>1, <2>4, <2>5, <2>6, <2>7 DEF OrderInv, main
  <2>9. QED
    BY <1>4, <1>5, <1>6, <1>7, <2>2, <2>8 DEF IInv
<1>12. QED
  BY <1>9, <1>10, <1>11

\* A byte that does not fit leaves the queue alone, but moves DI to the tail.
LEMMA IrqFullInv == ASSUME IInv, IrqFull PROVE IInv'
<1>1. /\ UNCHANGED <<port, uvars, ring, main, pending, damaged, last, inorder>>
      /\ irq = "check" /\ iflag /\ Wrap(di) = tail /\ overflow' = TRUE
      /\ irq' \in {"off", "store"} /\ (irq' = "store" => di' = tail) /\ (irq' = "off" => di' = 0)
      /\ irq' = "store" /\ port => uart # <<>>
  BY LoopFacts DEF IrqFull, WouldOverflow, IInv, MainInv
<1>2. /\ Size \in Nat /\ Size >= 2 /\ Width \in Nat /\ Size < Width
      /\ head \in Slot /\ tail \in Slot
  BY SerialAssumption DEF IInv, TypeOK
<1>3. TypeOK'
  <2>1. di' \in 0 .. Width - 1
    BY <1>1, <1>2 DEF Slot
  <2>2. QED
    BY <1>1, <2>1 DEF IInv, TypeOK, ring, main
<1>4. UartInv' /\ TakenInv'
  BY <1>1 DEF IInv, UartInv, TakenInv, Taken, uvars, ring, main
<1>5. MainInv' /\ GivenInOrder' /\ QueueInv'
  BY <1>1 DEF IInv, MainInv, GivenInOrder, QueueInv, ring, main
<1>6. ASSUME ~ damaged PROVE di = head + 1 /\ Wrap(head + 1) = tail /\ head # tail
  <2>1. tail + 1 # di
    <3>1. Wrap(tail + 1) # tail
      BY <1>2, HeadMoves
    <3>2. QED
      BY <1>1, <3>1
  <2>2. di = head + 1
    BY <1>1, <1>6, <2>1 DEF IInv, HandlerInv
  <2>3. QED
    BY <1>1, <1>2, <2>2, HeadMoves
<1>7. PollInv' /\ HandlerInv'
  BY <1>1, <1>6 DEF PollInv, HandlerInv, ring, uvars
<1>8. OrderInv'
  BY <1>1, <1>6 DEF IInv, OrderInv, Overwritten, Queue, At, ring, main
<1>9. QED
  BY <1>3, <1>4, <1>5, <1>7, <1>8 DEF IInv

\* After an ignored byte nothing is claimed of the queue.
LEMMA IrqIgnoreInv == ASSUME IInv, IrqIgnore PROVE IInv'
<1>1. /\ UNCHANGED <<port, uvars, ring, main, overflow, last, inorder>>
      /\ irq = "check" /\ iflag /\ damaged' = TRUE /\ pending' = <<>>
      /\ irq' \in {"off", "store"} /\ (irq' = "store" => di' = di) /\ (irq' = "off" => di' = 0)
      /\ irq' = "store" /\ port => uart # <<>>
  BY LoopFacts DEF IrqIgnore, IInv, MainInv
<1>2. TypeOK'
  <2>1. di' \in 0 .. Width - 1
    BY <1>1, SerialAssumption DEF IInv, TypeOK
  <2>2. QED
    BY <1>1, <2>1 DEF IInv, TypeOK, ring, main
<1>3. UartInv' /\ TakenInv'
  BY <1>1 DEF IInv, UartInv, TakenInv, Taken, uvars, ring, main
<1>4. MainInv' /\ GivenInOrder'
  BY <1>1 DEF IInv, MainInv, GivenInOrder, ring, main
<1>5. HandlerInv'
  BY <1>1 DEF HandlerInv, uvars
<1>6. QueueInv' /\ PollInv' /\ OrderInv'
  BY <1>1 DEF QueueInv, PollInv, OrderInv
<1>7. QED
  BY <1>2, <1>3, <1>4, <1>5, <1>6 DEF IInv

\* getchar takes a byte from the UART only when the ring is empty.
LEMMA DirectInv == ASSUME IInv, Direct PROVE IInv'
<1>1. /\ UNCHANGED <<port, ring, irq, di, pending, overflow, damaged>> /\ irq = "off"
      /\ pc = "direct" /\ uart # <<>> /\ TakeByte /\ iflag' = TRUE /\ pc' = "idle"
      /\ polled' = FALSE /\ ax' = 0 /\ al' = 0 /\ last' = Head(uart)
      /\ inorder' = (inorder /\ (damaged \/ Head(uart) > last))
  BY DEF Direct, GiveByte
<1>2. /\ UartInv' /\ Head(uart) \in 1 .. arrived /\ Taken(last)
      /\ \A x : Taken(x) => x < Head(uart)
      /\ \A x : Taken(x) \/ x = Head(uart) =>
                  x \in 0 .. arrived' /\ \A i \in 1 .. Len(uart') : x < uart'[i]
  BY <1>1, TakeByteOK DEF IInv, TakenInv
<1>3. 0 \in Slot /\ head \in Slot /\ tail \in Slot /\ head = tail
  BY <1>1, SerialAssumption DEF IInv, TypeOK, MainInv, Slot
<1>4. TypeOK'
  BY <1>1, <1>3 DEF IInv, TypeOK, ring
<1>5. TakenInv'
  <2>1. Taken(0)
    BY DEF IInv, UartInv, Taken
  <2>2. QED
    BY <1>1, <1>2, <2>1 DEF IInv, TakenInv, Taken, ring
<1>6. MainInv' /\ PollInv' /\ HandlerInv'
  BY <1>1 DEF MainInv, PollInv, HandlerInv
<1>7. GivenInOrder'
  <2>1. Head(uart) > last
    BY <1>2 DEF Taken
  <2>2. QED
    BY <1>1, <2>1 DEF IInv, GivenInOrder
<1>8. QueueInv'
  BY <1>1 DEF IInv, QueueInv, Queue, At, ring
<1>9. OrderInv'
  <2>1. Queue' = 0
    BY <1>1, <1>3, RingFacts DEF Queue, ring
  <2>2. \A i \in 0 .. Queue' - 1 : FALSE
    BY <2>1
  <2>3. QED
    BY <1>1, <2>2 DEF OrderInv
<1>10. QED
  BY <1>2, <1>4, <1>5, <1>6, <1>7, <1>8, <1>9 DEF IInv

\* getchar reads the oldest byte; the handler cannot have taken its slot.
LEMMA QueuedInv == ASSUME IInv, Queued PROVE IInv'
<1>1. /\ UNCHANGED <<port, uvars, ring, irq, di, ax, polled, hist>> /\ irq = "off"
      /\ pc = "queued" /\ iflag' = TRUE /\ al' = buf[ax] /\ pc' = "tail"
  BY DEF Queued
<1>2. ax = tail /\ head # tail /\ head \in Slot /\ tail \in Slot
  BY <1>1 DEF IInv, MainInv, TypeOK
<1>3. Queue \in Nat /\ Queue # 0 /\ At(0) = buf[tail]
  <2>1. Wrap(tail + 0) = tail
    BY <1>2, WrapFacts DEF Slot
  <2>2. Queue \in Slot /\ Queue # 0
    BY <1>2, RingFacts DEF Queue
  <2>3. QED
    BY <2>1, <2>2 DEF At, Slot
<1>4. TypeOK' /\ MainInv'
  BY <1>1, <1>2 DEF IInv, TypeOK, MainInv, ring
<1>5. PollInv' /\ HandlerInv' /\ GivenInOrder'
  BY <1>1 DEF IInv, PollInv, HandlerInv, GivenInOrder, ring, uvars, hist
<1>6. UartInv' /\ TakenInv'
  BY <1>1, <1>2 DEF IInv, UartInv, TakenInv, Taken, uvars, ring, hist
<1>7. QueueInv'
  BY <1>1 DEF IInv, QueueInv, Queue, At, ring, hist
<1>8. OrderInv'
  <2>1. ASSUME ~ damaged
        PROVE  /\ \A i, j \in 0 .. Queue - 1 : i < j => At(i) < At(j)
               /\ \A i \in 0 .. Queue - 1 : last < At(i)
    BY <1>1, <2>1 DEF IInv, OrderInv, Overwritten
  <2>2. 0 \in 0 .. Queue - 1 /\ \A i \in 1 .. Queue - 1 : i \in 0 .. Queue - 1 /\ 0 < i
    BY <1>3
  <2>3. ~ damaged => last < al' /\ \A i \in 1 .. Queue - 1 : al' < At(i)
    BY <1>1, <1>2, <1>3, <2>1, <2>2
  <2>4. Queue' = Queue /\ \A i : At(i)' = At(i)
    BY <1>1 DEF Queue, At, ring
  <2>5. QED
    BY <1>1, <2>1, <2>3, <2>4 DEF OrderInv, hist
<1>9. QED
  BY <1>4, <1>5, <1>6, <1>7, <1>8 DEF IInv

\* getchar gives the slot back; the byte it has read is the oldest one.
LEMMA AdvanceInv == ASSUME IInv, Advance PROVE IInv'
<1>1. /\ UNCHANGED <<port, uvars, buf, head, irq, di, iflag, overflow, damaged>> /\ irq = "off"
      /\ pc = "tail" /\ pc' = "idle" /\ tail' = Wrap(ax + 1)
      /\ pending' = IF pending = <<>> THEN pending ELSE Tail(pending)
      /\ polled' = FALSE /\ ax' = 0 /\ al' = 0 /\ last' = al
      /\ inorder' = (inorder /\ (damaged \/ al > last))
  BY DEF Advance, GiveByte
<1>2. ax = tail /\ head # tail /\ head \in Slot /\ tail \in Slot
  BY <1>1 DEF IInv, MainInv, TypeOK
<1>3. /\ tail' \in Slot /\ Queue' = Queue - 1
      /\ \A i \in 0 .. Size - 1 : At(i)' = At(i + 1)
  <2>1. tail' \in Slot /\ Queue' = Queue - 1
    BY <1>1, <1>2, TailMoves DEF Queue
  <2>2. \A i \in 0 .. Size - 1 : Wrap(tail' + i) = Wrap(tail + (i + 1))
    BY <1>1, <1>2, TailMoves
  <2>3. QED
    BY <1>1, <2>1, <2>2 DEF At
<1>4. Queue \in Slot /\ Queue \in Nat /\ Queue # 0 /\ Size \in Nat /\ Queue < Size
  <2>1. Queue \in Slot /\ Queue # 0
    BY <1>2, RingFacts DEF Queue
  <2>2. QED
    BY <2>1, SerialAssumption DEF Slot
<1>5. 0 \in Slot
  BY SerialAssumption DEF Slot
<1>6. TypeOK'
  BY <1>1, <1>3, <1>5 DEF IInv, TypeOK
<1>7. MainInv' /\ PollInv'
  BY <1>1 DEF IInv, MainInv, PollInv
<1>8. HandlerInv'
  BY <1>1 DEF HandlerInv
<1>9. GivenInOrder'
  <2>1. last \in Int /\ al \in Int
    BY DEF IInv, TakenInv, Taken
  <2>2. ~ damaged => al > last
    BY <1>1, <2>1 DEF IInv, OrderInv
  <2>3. QED
    BY <1>1, <2>2 DEF IInv, GivenInOrder
<1>10. UartInv' /\ TakenInv'
  <2>1. Taken(0)
    BY DEF IInv, UartInv, Taken
  <2>2. QED
    BY <1>1, <2>1 DEF IInv, UartInv, TakenInv, Taken, uvars
<1>11. QueueInv'
  <2>1. pending \in Seq(Nat) /\ pending' \in Seq(Nat)
    BY <1>1 DEF IInv, QueueInv
  <2>2. ASSUME ~ overflow, ~ damaged
        PROVE  Len(pending') = Queue' /\ \A i \in 1 .. Queue' : pending'[i] = At(i - 1)'
    <3>1. Len(pending) = Queue /\ \A i \in 1 .. Queue : pending[i] = At(i - 1)
      BY <2>2 DEF IInv, QueueInv
    <3>2. /\ Len(pending') = Queue - 1
          /\ \A i \in 1 .. Queue - 1 : pending'[i] = pending[i + 1]
      BY <1>1, <1>4, <2>1, <3>1
    <3>3. ASSUME NEW i \in 1 .. Queue - 1 PROVE pending'[i] = At(i - 1)'
      <4>1. i - 1 \in 0 .. Size - 1 /\ i + 1 \in 1 .. Queue /\ (i + 1) - 1 = i /\ (i - 1) + 1 = i
        BY <1>4
      <4>2. At(i - 1)' = At(i) /\ pending[i + 1] = At(i)
        BY <1>3, <3>1, <4>1
      <4>3. QED
        BY <3>2, <4>2
    <3>4. QED
      BY <1>3, <3>2, <3>3
  <2>3. QED
    BY <1>1, <2>1, <2>2 DEF QueueInv
<1>12. OrderInv'
  <2>1. ASSUME ~ damaged
        PROVE  /\ \A i, j \in 0 .. Queue - 1 : i < j => At(i) < At(j)
               /\ \A i \in 1 .. Queue - 1 : al < At(i)
    BY <1>1, <2>1 DEF IInv, OrderInv, Overwritten
  <2>2. \A i \in 0 .. Queue' - 1 : /\ i \in 0 .. Size - 1 /\ At(i)' = At(i + 1)
                                   /\ i + 1 \in 0 .. Queue - 1 /\ i + 1 \in 1 .. Queue - 1
    BY <1>3, <1>4
  <2>3. ASSUME ~ damaged, NEW i \in 0 .. Queue' - 1, NEW j \in 0 .. Queue' - 1, i < j
        PROVE  At(i)' < At(j)'
    <3>1. i + 1 < j + 1
      BY <1>3, <1>4, <2>3
    <3>2. QED
      BY <2>1, <2>2, <2>3, <3>1
  <2>4. ~ damaged => \A i \in 0 .. Queue' - 1 : last' < At(i)'
    BY <1>1, <2>1, <2>2
  <2>5. QED
    BY <1>1, <2>3, <2>4 DEF OrderInv
<1>13. QED
  BY <1>6, <1>7, <1>8, <1>9, <1>10, <1>11, <1>12 DEF IInv

\* Nothing changes.
LEMMA StutterInv == ASSUME IInv, UNCHANGED vars PROVE IInv'
<1>1. UNCHANGED <<uvars, ring, irq, di, al, hist>> /\ (pc' = "tail" => pc = "tail")
      /\ UNCHANGED <<port, pc, ax, iflag, polled>>
  BY DEF vars, main
<1>2. TypeOK' /\ PollInv'
  BY <1>1 DEF IInv, TypeOK, PollInv, ring, uvars, hist
<1>3. MainInv' /\ HandlerInv'
  BY <1>1 DEF IInv, MainInv, HandlerInv, ring, uvars, hist
<1>4. QED
  BY <1>1, <1>2, <1>3, QuietInv DEF IInv

\* Every step preserves the invariant.
LEMMA NextInv == IInv /\ [Next]_vars => IInv'
<1> SUFFICES ASSUME IInv, [Next]_vars PROVE IInv'
  OBVIOUS
<1>1. CASE Arrive \/ UNCHANGED vars
  BY <1>1, ArriveInv, StutterInv
<1>2. CASE Irq
  BY <1>2, IrqEnterInv, IrqStoreInv, IrqAcceptInv, IrqFullInv, IrqIgnoreInv DEF Irq
<1>3. CASE CallPollchar \/ Pollchar \/ CallGetchar \/ Key
  BY <1>3, CallsInv
<1>4. CASE Getchar
  BY <1>4, CallsInv, DirectInv, QueuedInv, AdvanceInv DEF Getchar
<1>5. CASE \/ SerialNoNumber \/ SerialCommand \/ Parsed \/ Enable
           \/ CleanupNowipe("cleanup", "setup") \/ CleanupNowipe("idle", "wipe")
  BY <1>5, CommandInv
<1>6. CASE Setup \/ Wipe
  BY <1>6, SetupInv, WipeInv
<1>7. QED
  BY <1>1, <1>2, <1>3, <1>4, <1>5, <1>6 DEF Next

\* The bytes between tail and head are those that are queued.
LEMMA ContentsPending == ASSUME IInv, ~ overflow, ~ damaged PROVE Contents = pending
<1>1. /\ pending \in Seq(Nat) /\ Len(pending) = Queue
      /\ \A i \in 1 .. Queue : pending[i] = At(i - 1)
  BY DEF IInv, QueueInv
<1>2. pending = [i \in 1 .. Queue |-> pending[i]]
  BY <1>1
<1>3. head \in Int /\ tail \in Int
  BY DEF IInv, TypeOK, Slot
<1>4. \A i \in 1 .. Queue : tail + (i - 1) = tail + i - 1
  BY <1>3
<1>5. \A i \in 1 .. Queue : At(i - 1) = buf[Wrap(tail + i - 1)]
  BY <1>4 DEF At
<1>6. QED
  BY <1>1, <1>2, <1>5 DEF Contents, Queue

-----------------------------------------------------------------------------
(* The theorems. *)

\* Indices, registers and bytes of the serial input stay in their ranges.
THEOREM SerialTypeCorrect == Spec => []TypeOK
<1>1. IInv => TypeOK
  BY DEF IInv
<1>2. QED
  BY <1>1, InitInv, NextInv, PTL DEF Spec

\* Until it has been found full, the ring holds exactly the bytes the handler
\* accepted and getchar has not handed out, in order, whatever the size of the
\* ring and wherever handler and getchar interrupt each other.
THEOREM RingAlwaysQueue == Spec => []RingIsQueue
<1>1. IInv => RingIsQueue
  BY ContentsPending DEF RingIsQueue
<1>2. QED
  BY <1>1, InitInv, NextInv, PTL DEF Spec

\* getchar hands out each byte at most once and in the order of arrival, also
\* when it takes it from the UART itself and when the ring has overflowed.
THEOREM BytesInOrder == Spec => []GivenInOrder
<1>1. IInv => GivenInOrder
  BY DEF IInv
<1>2. QED
  BY <1>1, InitInv, NextInv, PTL DEF Spec

\* The byte that pollchar promised is still there for the next getchar.
THEOREM PollKeepsItsWord == Spec => []PollIsHonest
<1>1. IInv => PollIsHonest
  BY DEF IInv, PollInv, PollIsHonest
<1>2. QED
  BY <1>1, InitInv, NextInv, PTL DEF Spec

-----------------------------------------------------------------------------
(* The serial input implements ByteStream. *)

\* The byte that getchar has read is the oldest one, until the ring is full.
ReadInv == pc = "tail" /\ ~ overflow /\ ~ damaged => al = buf[tail]

\* Every step keeps it.
LEMMA ReadInvStep == IInv /\ ReadInv /\ [Next]_vars => ReadInv'
<1> SUFFICES ASSUME IInv, ReadInv, [Next]_vars, pc' = "tail", ~ overflow', ~ damaged'
             PROVE  al' = buf'[tail']
  BY DEF ReadInv
<1>1. CASE Queued
  <2>1. al' = buf[ax] /\ ax = tail /\ UNCHANGED ring
    BY <1>1 DEF Queued, IInv, MainInv
  <2>2. QED
    BY <2>1 DEF ring
<1>2. CASE IrqStore
  <2>1. /\ pc = "tail" /\ al' = al /\ tail' = tail /\ ~ overflow /\ ~ damaged /\ irq = "store" /\ port
        /\ buf' = IF di \in Slot THEN [buf EXCEPT ![di] = Head(uart)] ELSE buf
    BY <1>2 DEF IrqStore, main
  <2>2. di = head /\ head # tail /\ tail \in Slot /\ buf \in [Slot -> 0 .. MaxByte]
    BY <2>1 DEF IInv, MainInv, HandlerInv, TypeOK
  <2>3. buf'[tail] = buf[tail]
    BY <2>1, <2>2
  <2>4. QED
    BY <2>1, <2>3 DEF ReadInv
<1>3. CASE \/ Arrive \/ UNCHANGED vars \/ IrqEnter \/ IrqAccept
  <2>1. pc = "tail" /\ al' = al /\ tail' = tail /\ buf' = buf /\ ~ overflow /\ ~ damaged
    <3>1. UNCHANGED <<buf, tail, main, overflow, damaged>>
      BY <1>3 DEF Arrive, vars, IrqEnter, IrqAccept, ring, hist
    <3>2. UNCHANGED <<pc, al>>
      BY <3>1 DEF main
    <3>3. QED
      BY <3>1, <3>2
  <2>2. QED
    BY <2>1 DEF ReadInv
<1>4. CASE IrqFull \/ IrqIgnore
  BY <1>4 DEF IrqFull, IrqIgnore
<1>5. CASE \/ CallPollchar \/ Pollchar \/ CallGetchar \/ Key \/ ReadTail \/ Compare \/ Again
           \/ Direct \/ Advance
  BY <1>5 DEF CallPollchar, Pollchar, CallGetchar, Key, ReadTail, Compare, Again, Direct,
     Advance, GiveByte
<1>6. CASE \/ SerialNoNumber \/ SerialCommand \/ Parsed \/ Setup \/ Wipe \/ Enable
           \/ CleanupNowipe("cleanup", "setup") \/ CleanupNowipe("idle", "wipe")
  BY <1>6 DEF SerialNoNumber, SerialCommand, Parsed, Setup, Wipe, Enable, CleanupNowipe
<1>7. QED
  BY <1>1, <1>2, <1>3, <1>4, <1>5, <1>6 DEF Next, Irq, Getchar

\* What the handler has in its hands.
Hand == IF irq = "check" THEN <<Stored>> ELSE <<>>
Whole == ~ overflow /\ ~ damaged

\* What is on its way, in terms of the queue.
WayInv ==
  /\ Whole => Health = "whole" /\ OnItsWay = (pending \o Hand) \o uart
  /\ ~ Whole => Health # "whole" /\ OnItsWay = <<>>
  /\ damaged => Health = "spoiled"
  /\ overflow /\ ~ damaged => Health = "torn"
  /\ pending \in Seq(Nat) /\ Hand \in Seq(Nat) /\ uart \in Seq(Nat)

LEMMA Way == IInv => WayInv
<1> SUFFICES ASSUME IInv PROVE WayInv
  OBVIOUS
<1>1. Whole => Contents = pending
  BY ContentsPending DEF Whole
<1>2. Stored \in Nat
  <2>1. Wrap(di - 1) \in Slot
    BY SerialAssumption, WrapFacts DEF IInv, TypeOK
  <2>2. QED
    BY <2>1, SerialAssumption DEF IInv, TypeOK, Stored
<1>3. Hand \in Seq(Nat)
  BY <1>2 DEF Hand
<1>4. pending \in Seq(Nat) /\ uart \in Seq(Nat)
  BY DEF IInv, QueueInv, UartInv
<1>5. Whole => Health = "whole"
  BY DEF Whole, Health
<1>6. ~ Whole => Health # "whole" /\ OnItsWay = <<>>
  BY DEF Whole, Health, OnItsWay
<1>7. Whole => OnItsWay = (pending \o Hand) \o uart
  BY <1>1, <1>5 DEF OnItsWay, Hand
<1>8. QED
  BY <1>3, <1>4, <1>5, <1>6, <1>7 DEF WayInv, Health

\* The same, after a step.
LEMMA WayPrimed == IInv' => WayInv'
BY Way, PTL

\* Storing a byte, accepting it, and a new one in the UART, for what is on its way.
LEMMA StreamSteps ==
  ASSUME NEW p \in Seq(Nat), NEW h \in Seq(Nat), NEW u \in Seq(Nat), NEW b \in Nat
  PROVE  /\ u # <<>> => (p \o <<Head(u)>>) \o Tail(u) = (p \o <<>>) \o u
         /\ (Append(p, b) \o <<>>) \o u = (p \o <<b>>) \o u
         /\ (p \o h) \o Append(u, b) = Append((p \o h) \o u, b)
<1>1. ASSUME u # <<>> PROVE (p \o <<Head(u)>>) \o Tail(u) = (p \o <<>>) \o u
  <2>1. u = <<Head(u)>> \o Tail(u) /\ Head(u) \in Nat /\ Tail(u) \in Seq(Nat)
    BY <1>1
  <2>2. <<Head(u)>> \in Seq(Nat)
    BY <2>1
  <2>3. (p \o <<Head(u)>>) \o Tail(u) = p \o (<<Head(u)>> \o Tail(u))
    <3>1. PICK e \in Seq(Nat), t \in Seq(Nat) : e = <<Head(u)>> /\ t = Tail(u)
      BY <2>1, <2>2
    <3>2. (p \o e) \o t = p \o (e \o t)
      BY SMTT(60)
    <3>3. QED
      BY <3>1, <3>2
  <2>4. p \o <<>> = p
    BY ConcatEmptySeq
  <2>5. QED
    BY <2>1, <2>3, <2>4
<1>2. (Append(p, b) \o <<>>) \o u = (p \o <<b>>) \o u
  <2>1. Append(p, b) = p \o <<b>> /\ Append(p, b) \in Seq(Nat)
    BY AppendIsConcat, AppendProperties
  <2>2. Append(p, b) \o <<>> = Append(p, b)
    BY <2>1, ConcatEmptySeq
  <2>3. QED
    BY <2>1, <2>2
<1>3. (p \o h) \o Append(u, b) = Append((p \o h) \o u, b)
  <2>1. p \o h \in Seq(Nat) /\ <<b>> \in Seq(Nat)
    OBVIOUS
  <2>2. (p \o h) \o u \in Seq(Nat)
    BY <2>1, ConcatProperties
  <2>3. Append(u, b) = u \o <<b>> /\ Append((p \o h) \o u, b) = ((p \o h) \o u) \o <<b>>
    BY <2>2, AppendIsConcat
  <2>4. ((p \o h) \o u) \o <<b>> = (p \o h) \o (u \o <<b>>)
    <3>1. PICK e \in Seq(Nat), t \in Seq(Nat) : e = <<b>> /\ t = p \o h
      BY <2>1
    <3>2. (t \o u) \o e = t \o (u \o e)
      BY SMTT(60)
    <3>3. QED
      BY <3>1, <3>2
  <2>5. QED
    BY <2>3, <2>4
<1>4. QED
  BY <1>1, <1>2, <1>3

\* The oldest byte of what is on its way is the oldest one that is queued.
LEMMA StreamHead ==
  ASSUME NEW p \in Seq(Nat), NEW h \in Seq(Nat), NEW u \in Seq(Nat), p # <<>>
  PROVE  /\ (p \o h) \o u # <<>> /\ Head((p \o h) \o u) = p[1]
         /\ Tail((p \o h) \o u) = (Tail(p) \o h) \o u
<1>1. /\ p[1] \in Nat /\ Tail(p) \in Seq(Nat) /\ p = <<p[1]>> \o Tail(p) /\ <<p[1]>> \in Seq(Nat)
  OBVIOUS
<1>2. PICK q \in Seq(Nat), x \in Nat : q = Tail(p) /\ x = p[1] /\ <<x>> \in Seq(Nat) /\ p = <<x>> \o q
  BY <1>1
<1>3. p \o h = <<x>> \o (q \o h) /\ q \o h \in Seq(Nat)
  BY <1>2, ConcatAssociative, ConcatProperties
<1>4. (p \o h) \o u = <<x>> \o ((q \o h) \o u)
  BY <1>2, <1>3, ConcatAssociative, SMTT(60)
<1>5. PICK r \in Seq(Nat) : r = (q \o h) \o u
  BY <1>3, ConcatProperties
<1>6. <<x>> \o r # <<>> /\ Head(<<x>> \o r) = x /\ Tail(<<x>> \o r) = r
  <2>1. /\ Len(<<x>> \o r) = 1 + Len(r) /\ (<<x>> \o r)[1] = x /\ <<x>> \o r \in Seq(Nat)
        /\ \A i \in 1 .. Len(r) : (<<x>> \o r)[i + 1] = r[i]
    BY <1>2
  <2>2. PICK s \in Seq(Nat) : s = <<x>> \o r
    BY <2>1
  <2>3. s # <<>> /\ Len(s) = 1 + Len(r) /\ Len(r) \in Nat
    BY <2>1, <2>2
  <2>4. /\ Tail(s) \in Seq(Nat) /\ Len(Tail(s)) = Len(r)
        /\ \A i \in 1 .. Len(Tail(s)) : Tail(s)[i] = s[i + 1]
    BY <2>3, HeadTailProperties
  <2>5. \A i \in 1 .. Len(Tail(s)) : Tail(s)[i] = r[i]
    BY <2>1, <2>2, <2>4
  <2>6. Tail(s) = r
    BY <2>4, <2>5, SeqEqual
  <2>7. QED
    BY <2>1, <2>2, <2>3, <2>6, SMTT(30)
<1>7. QED
  BY <1>2, <1>4, <1>5, <1>6

\* What bounds the elements of two sequences bounds those of both together.
LEMMA ConcatBounded ==
  ASSUME NEW p \in Seq(Nat), NEW q \in Seq(Nat), NEW a \in Nat,
         \A i \in 1 .. Len(p) : p[i] <= a, \A i \in 1 .. Len(q) : q[i] <= a
  PROVE  \A i \in 1 .. Len(p \o q) : (p \o q)[i] <= a
<1>1. Len(p) \in Nat /\ Len(q) \in Nat /\ Len(p \o q) = Len(p) + Len(q)
  OBVIOUS
<1>2. ASSUME NEW i \in 1 .. Len(p) + Len(q) PROVE (p \o q)[i] <= a
  <2>1. CASE i <= Len(p)
    <3>1. (p \o q)[i] = p[i] /\ i \in 1 .. Len(p)
      BY <1>1, <2>1
    <3>2. QED
      BY <3>1
  <2>2. CASE i > Len(p)
    <3>1. (p \o q)[i] = q[i - Len(p)] /\ i - Len(p) \in 1 .. Len(q)
      BY <1>1, <2>2
    <3>2. QED
      BY <3>1
  <2>3. QED
    BY <1>1, <2>1, <2>2
<1>3. QED
  BY <1>1, <1>2

\* The first part of two sequences put together, and the second.
LEMMA Halves ==
  ASSUME NEW p \in Seq(Nat), NEW u \in Seq(Nat)
  PROVE  /\ SubSeq(p \o u, 1, Len(p)) = p
         /\ SubSeq(p \o u, Len(p) + 1, Len(p \o u)) = u
         /\ Len(p) \in 0 .. Len(p \o u)
<1>1. p \o u \in Seq(Nat) /\ Len(p) \in Nat /\ Len(u) \in Nat
  OBVIOUS
<1>2. /\ Len(p \o u) = Len(p) + Len(u)
      /\ \A i \in 1 .. Len(p) : (p \o u)[i] = p[i]
      /\ \A i \in 1 .. Len(u) : (p \o u)[Len(p) + i] = u[i]
  BY <1>1
<1>3. PICK q, n, m : q = p \o u /\ n = Len(p) /\ m = Len(u)
  OBVIOUS
<1>4. /\ q \in Seq(Nat) /\ n \in Nat /\ m \in Nat /\ Len(q) = n + m
      /\ \A i \in 1 .. n : q[i] = p[i]
      /\ \A i \in 1 .. m : q[n + i] = u[i]
  BY <1>1, <1>2, <1>3
<1>5. SubSeq(q, 1, n) = p
  <2>1. /\ SubSeq(q, 1, n) \in Seq(Nat) /\ Len(SubSeq(q, 1, n)) = n
        /\ \A i \in 1 .. n : SubSeq(q, 1, n)[i] = q[i]
    BY <1>4
  <2>2. \A i \in 1 .. n : SubSeq(q, 1, n)[i] = p[i]
    BY <1>4, <2>1
  <2>3. PICK r \in Seq(Nat) : r = SubSeq(q, 1, n)
    BY <2>1
  <2>4. Len(r) = Len(p) /\ \A i \in 1 .. Len(r) : r[i] = p[i]
    BY <1>3, <2>1, <2>2, <2>3
  <2>5. QED
    BY <2>3, <2>4, SeqEqual
<1>6. SubSeq(q, n + 1, n + m) = u
  <2>1. /\ SubSeq(q, n + 1, n + m) \in Seq(Nat) /\ Len(SubSeq(q, n + 1, n + m)) = m
        /\ \A i \in 1 .. m : SubSeq(q, n + 1, n + m)[i] = q[n + i]
    BY <1>4
  <2>2. \A i \in 1 .. m : SubSeq(q, n + 1, n + m)[i] = u[i]
    BY <1>4, <2>1
  <2>3. PICK r \in Seq(Nat) : r = SubSeq(q, n + 1, n + m)
    BY <2>1
  <2>4. Len(r) = Len(u) /\ \A i \in 1 .. Len(r) : r[i] = u[i]
    BY <1>3, <2>1, <2>2, <2>3
  <2>5. QED
    BY <2>3, <2>4, SeqEqual
<1>7. Len(p) \in 0 .. Len(p \o u)
  BY <1>1, <1>2
<1>8. QED
  BY <1>2, <1>3, <1>5, <1>6, <1>7

\* A step that leaves what is on its way, what was given and the losses alone may
\* change the configuration.
LEMMA Unseen ==
  ASSUME IInv, IInv', last' = last, overflow' <=> overflow, damaged' <=> damaged,
         Whole => (pending' \o Hand') \o uart' = (pending \o Hand) \o uart
  PROVE  BS!Next
<1>1. WayInv /\ WayInv' /\ (Whole' <=> Whole)
  BY Way, WayPrimed DEF Whole
<1>2. OnItsWay' = OnItsWay
  <2>1. CASE Whole
    <3>1. OnItsWay = (pending \o Hand) \o uart /\ OnItsWay' = (pending' \o Hand') \o uart'
      BY <1>1, <2>1 DEF WayInv
    <3>2. QED
      BY <2>1, <3>1
  <2>2. CASE ~ Whole
    BY <1>1, <2>2 DEF WayInv
  <2>3. QED
    BY <2>1, <2>2
<1>3. Health' = Health
  BY DEF Health
<1>4. Steady' \in BOOLEAN
  BY DEF Steady
<1>5. BS!Configure
  BY <1>2, <1>3, <1>4 DEF BS!Configure
<1>6. QED
  BY <1>5 DEF BS!Next

\* Steps that touch neither the bytes nor the losses.
LEMMA QuietRefines ==
  ASSUME IInv, IInv', UNCHANGED <<uvars, ring, hist>>,
         irq' = "check" <=> irq = "check", irq = "check" => di' = di
  PROVE  BS!Next
<1>1. Hand' = Hand
  BY DEF Hand, Stored, ring
<1>2. UNCHANGED <<uart, pending, last, overflow, damaged>>
  BY DEF uvars, hist
<1>3. QED
  BY <1>1, <1>2, Unseen

\* A byte that comes in is newer than all others.
LEMMA ArriveRefines == ASSUME IInv, IInv', Arrive PROVE BS!Next
<1>1. UNCHANGED <<ring, irq, di, main, hist, port, flow>>
      /\ uart' = IF Len(uart) < Fifo THEN Append(uart, arrived + 1) ELSE uart
  BY DEF Arrive
<1>2. Hand' = Hand /\ UNCHANGED <<pending, last, overflow, damaged, pc>>
  BY <1>1 DEF Hand, Stored, ring, hist, main
<1>3. CASE ~ Whole \/ uart' = uart
  BY <1>2, <1>3, Unseen
<1>4. CASE Whole /\ uart' = Append(uart, arrived + 1)
  <2>1. WayInv /\ WayInv' /\ Whole' /\ Health' = Health /\ Health = "whole" /\ Steady' = Steady
    BY <1>1, <1>2, <1>4, Way, WayPrimed DEF Whole, WayInv, Health, Steady
  <2>2. PICK s \in Seq(Nat), b \in Nat :
          s = OnItsWay /\ b = arrived + 1 /\ OnItsWay' = Append(s, b)
    <3>1. arrived + 1 \in Nat
      BY DEF IInv, UartInv
    <3>2. PICK p \in Seq(Nat), h \in Seq(Nat), u \in Seq(Nat) : p = pending /\ h = Hand /\ u = uart
      BY <2>1 DEF WayInv
    <3>3. OnItsWay = (p \o h) \o u /\ OnItsWay' = (p \o h) \o Append(u, arrived + 1)
      BY <1>2, <1>4, <2>1, <3>2 DEF WayInv
    <3>4. (p \o h) \o Append(u, arrived + 1) = Append((p \o h) \o u, arrived + 1)
      BY <3>1, StreamSteps, SMTT(60)
    <3>5. (p \o h) \o u \in Seq(Nat)
      OBVIOUS
    <3>6. QED
      BY <3>1, <3>3, <3>4, <3>5
  <2>3. last < b /\ \A j \in 1 .. Len(s) : s[j] < b
    <3>1. /\ \A i \in 1 .. Len(uart) : uart[i] <= arrived
          /\ last <= arrived /\ arrived \in Nat /\ last \in Int
      BY DEF IInv, UartInv, TakenInv, Taken
    <3>2. \A i \in 1 .. Len(pending) : pending[i] <= arrived
      <4>1. ASSUME NEW i \in 1 .. Len(pending) PROVE pending[i] <= arrived
        <5>1. /\ pending \in Seq(Nat) /\ Len(pending) = Queue /\ pending[i] = At(i - 1)
              /\ head \in Slot /\ tail \in Slot
          BY <1>4 DEF IInv, QueueInv, TypeOK, Whole
        <5>2. i - 1 \in 0 .. Queue - 1
          BY <5>1, RingFacts DEF Queue, Slot
        <5>3. Wrap(tail + (i - 1)) \in Slot
          BY <5>1, <5>2, RingFacts DEF Queue
        <5>4. QED
          BY <5>1, <5>3 DEF At, IInv, TakenInv, Taken
      <4>2. QED
        BY <4>1
    <3>3. \A i \in 1 .. Len(Hand) : Hand[i] <= arrived
      <4>1. Wrap(di - 1) \in Slot
        BY SerialAssumption, WrapFacts DEF IInv, TypeOK
      <4>2. Stored <= arrived
        BY <4>1 DEF Stored, IInv, TakenInv, Taken
      <4>3. QED
        BY <4>2 DEF Hand
    <3>4. PICK p \in Seq(Nat), h \in Seq(Nat), u \in Seq(Nat), a \in Nat :
            p = pending /\ h = Hand /\ u = uart /\ a = arrived /\ s = (p \o h) \o u /\ b = a + 1
      BY <2>1, <2>2, <3>1 DEF WayInv
    <3>5. /\ \A i \in 1 .. Len(p) : p[i] <= a
          /\ \A i \in 1 .. Len(h) : h[i] <= a
          /\ \A i \in 1 .. Len(u) : u[i] <= a
      BY <3>1, <3>2, <3>3, <3>4
    <3>6. PICK t \in Seq(Nat) : t = p \o h /\ \A i \in 1 .. Len(t) : t[i] <= a
      <4>1. p \o h \in Seq(Nat)
        OBVIOUS
      <4>2. \A i \in 1 .. Len(p \o h) : (p \o h)[i] <= a
        BY <3>5, ConcatBounded
      <4>3. QED
        BY <4>1, <4>2
    <3>7. \A j \in 1 .. Len(s) : s[j] <= a
      BY <3>4, <3>5, <3>6, ConcatBounded
    <3>8. \A j \in 1 .. Len(s) : s[j] \in Nat
      OBVIOUS
    <3>9. \A j \in 1 .. Len(s) : s[j] < a + 1
      BY <3>7, <3>8
    <3>10. last < a + 1
      BY <3>1, <3>4
    <3>11. QED
      BY <3>4, <3>9, <3>10
  <2>4. /\ Len(Append(s, b)) \in 1 .. Len(Append(s, b)) /\ Append(s, b)[Len(Append(s, b))] = b
    OBVIOUS
  <2>5. BS!ComeIn
    BY <1>2, <2>1, <2>2, <2>3, <2>4 DEF BS!ComeIn
  <2>6. QED
    BY <2>5 DEF BS!Next
<1>5. QED
  BY <1>1, <1>3, <1>4

\* A byte that is stored or accepted only moves on; without a port it is made up.
LEMMA IrqStoreRefines == ASSUME IInv, IInv', IrqStore PROVE BS!Next
<1>1. /\ UNCHANGED <<port, flow, head, tail, main, overflow, last, inorder>>
      /\ irq = "store" /\ irq' = "check"
      /\ damaged' = (damaged \/ ~ port) /\ pending' = IF port THEN pending ELSE <<>>
      /\ di' = (di + 1) % Width
  BY DEF IrqStore
<1>2. CASE ~ port
  <2>1. damaged' /\ WayInv' /\ ~ Whole'
    BY <1>1, <1>2, WayPrimed DEF Whole
  <2>2. Health' = "spoiled" /\ OnItsWay' = <<>> /\ ~ Steady /\ ~ Steady'
    BY <1>1, <1>2, <2>1 DEF WayInv, Steady
  <2>3. Steady' = Steady
    BY <1>1 DEF Steady, main
  <2>4. BS!Spoil
    BY <1>1, <2>2, <2>3 DEF BS!Spoil
  <2>5. QED
    BY <2>4 DEF BS!Next
<1>3. CASE port /\ ~ Whole
  BY <1>1, <1>3, Unseen
<1>4. CASE port /\ Whole
  <2>1. /\ uart # <<>> /\ uart' = Tail(uart) /\ pending' = pending
        /\ buf' = IF di \in Slot THEN [buf EXCEPT ![di] = Head(uart)] ELSE buf
    BY <1>1, <1>4 DEF IrqStore, IInv, HandlerInv, TakeByte
  <2>2. di = head /\ head \in Slot /\ buf \in [Slot -> 0 .. MaxByte]
    BY <1>1, <1>4 DEF IInv, HandlerInv, TypeOK, Whole
  <2>3. di' = head + 1 /\ buf'[head] = Head(uart)
    BY <1>1, <2>1, <2>2, NoWrapAround
  <2>4. Wrap(di' - 1) = head
    <3>1. di' - 1 = head
      BY <2>2, <2>3 DEF Slot
    <3>2. QED
      BY <2>2, <3>1, WrapFacts
  <2>5. Hand' = <<Head(uart)>> /\ Hand = <<>>
    BY <1>1, <2>3, <2>4 DEF Hand, Stored
  <2>6. pending \in Seq(Nat) /\ uart \in Seq(Nat)
    BY DEF IInv, QueueInv, UartInv
  <2>7. (pending \o <<Head(uart)>>) \o Tail(uart) = (pending \o <<>>) \o uart
    <3>1. PICK p \in Seq(Nat), u \in Seq(Nat) : p = pending /\ u = uart
      BY <2>6
    <3>2. (p \o <<Head(u)>>) \o Tail(u) = (p \o <<>>) \o u
      BY <2>1, <3>1, StreamSteps
    <3>3. QED
      BY <3>1, <3>2
  <2>8. damaged' <=> damaged
    BY <1>1, <1>4
  <2>9. QED
    BY <1>1, <2>1, <2>5, <2>7, <2>8, Unseen
<1>5. QED
  BY <1>2, <1>3, <1>4

\* An accepted byte is queued behind the others.
LEMMA IrqAcceptRefines == ASSUME IInv, IInv', IrqAccept PROVE BS!Next
<1>1. /\ UNCHANGED <<uvars, overflow, damaged, last>>
      /\ irq = "check" /\ irq' # "check"
      /\ pending' = IF damaged THEN pending ELSE Append(pending, Stored)
  BY LoopFacts DEF IrqAccept
<1>2. uart' = uart /\ Hand = <<Stored>> /\ Hand' = <<>>
  BY <1>1 DEF Hand, uvars
<1>3. pending \in Seq(Nat) /\ uart \in Seq(Nat) /\ Stored \in Nat
  <2>1. Wrap(di - 1) \in Slot
    BY SerialAssumption, WrapFacts DEF IInv, TypeOK
  <2>2. QED
    BY <2>1, SerialAssumption DEF IInv, QueueInv, UartInv, TypeOK, Stored
<1>4. (Append(pending, Stored) \o <<>>) \o uart = (pending \o <<Stored>>) \o uart
  <2>1. PICK p \in Seq(Nat), u \in Seq(Nat), b \in Nat : p = pending /\ u = uart /\ b = Stored
    BY <1>3
  <2>2. (Append(p, b) \o <<>>) \o u = (p \o <<b>>) \o u
    BY StreamSteps
  <2>3. QED
    BY <2>1, <2>2
<1>5. Whole => pending' = Append(pending, Stored)
  BY <1>1 DEF Whole
<1>6. QED
  BY <1>1, <1>2, <1>4, <1>5, Unseen

\* Nothing is lost before as many bytes as the ring has slots are waiting.
LEMMA IrqFullRefines == ASSUME IInv, IInv', IrqFull PROVE BS!Next
<1>1. /\ UNCHANGED <<port, flow, uvars, ring, main, pending, damaged, last, inorder>>
      /\ irq = "check" /\ Wrap(di) = tail /\ overflow' = TRUE
  BY DEF IrqFull, WouldOverflow
<1>2. CASE ~ Whole
  <2>1. (overflow' <=> overflow) \/ damaged
    BY <1>1, <1>2 DEF Whole
  <2>2. WayInv /\ WayInv' /\ ~ Whole'
    BY <1>1, Way, WayPrimed DEF Whole
  <2>3. Health' = Health /\ OnItsWay' = OnItsWay
    BY <1>1, <1>2, <2>1, <2>2 DEF WayInv, Health
  <2>4. Steady' \in BOOLEAN
    BY DEF Steady
  <2>5. BS!Configure
    BY <1>1, <2>3, <2>4 DEF BS!Configure
  <2>6. QED
    BY <2>5 DEF BS!Next
<1>3. CASE Whole
  <2>1. head \in Slot /\ tail \in Slot /\ di = head + 1 /\ Wrap(head + 1) = tail
    BY <1>1, <1>3 DEF IInv, TypeOK, HandlerInv, Whole
  <2>2. Queue = Size - 1
    BY <2>1, HeadMoves DEF Queue
  <2>3. WayInv /\ WayInv' /\ ~ damaged' /\ overflow'
    BY <1>1, <1>3, Way, WayPrimed DEF Whole
  <2>4. Health' = "torn" /\ OnItsWay' = <<>> /\ Health = "whole"
    BY <1>3, <2>3 DEF WayInv, Whole
  <2>5. Len(OnItsWay) >= Size
    <3>1. PICK p \in Seq(Nat), h \in Seq(Nat), u \in Seq(Nat) : p = pending /\ h = Hand /\ u = uart
      BY <2>3 DEF WayInv
    <3>2. Len(p) = Size - 1 /\ Size \in Nat
      BY <1>3, <2>2, <3>1, SerialAssumption DEF IInv, QueueInv, Whole
    <3>3. Len(h) = 1
      BY <1>1, <3>1 DEF Hand
    <3>4. OnItsWay = (p \o h) \o u
      BY <1>3, <2>3, <3>1 DEF WayInv
    <3>5. Len((p \o h) \o u) = Len(p) + Len(h) + Len(u) /\ Len(u) \in Nat
      OBVIOUS
    <3>6. QED
      BY <3>2, <3>3, <3>4, <3>5
  <2>6. Steady' = Steady
    BY <1>1 DEF Steady, main
  <2>7. BS!Overflow
    BY <1>1, <2>4, <2>5, <2>6 DEF BS!Overflow
  <2>8. QED
    BY <2>7 DEF BS!Next
<1>4. QED
  BY <1>2, <1>3

\* A byte is ignored only with flow control.
LEMMA IrqIgnoreRefines == ASSUME IInv, IInv', IrqIgnore PROVE BS!Next
<1>1. UNCHANGED <<port, flow, main, last>> /\ flow /\ damaged' = TRUE
  BY DEF IrqIgnore, LinesSet
<1>2. WayInv' /\ ~ Whole' /\ damaged'
  BY <1>1, WayPrimed DEF Whole
<1>3. Health' = "spoiled" /\ OnItsWay' = <<>>
  BY <1>2 DEF WayInv
<1>4. ~ Steady /\ Steady' = Steady
  BY <1>1 DEF Steady, main
<1>5. BS!Spoil
  BY <1>1, <1>3, <1>4 DEF BS!Spoil
<1>6. QED
  BY <1>5 DEF BS!Next

\* A byte is given when bytes have been lost before.
LEMMA BrokenGives ==
  ASSUME IInv, IInv', ~ Whole, UNCHANGED <<port, flow, overflow, damaged>>,
         pc \notin {"parse", "cleanup", "setup", "install", "wipe", "enable"}, pc' = "idle",
         NEW b, last' = b, inorder' = (inorder /\ (damaged \/ b > last))
  PROVE  BS!Next
<1>1. WayInv /\ WayInv' /\ ~ Whole'
  BY Way, WayPrimed DEF Whole
<1>2. OnItsWay' = OnItsWay /\ Health # "whole"
  BY <1>1 DEF WayInv
<1>3. Health' = Health
  BY DEF Health
<1>4. Steady' = Steady
  BY DEF Steady
<1>5. last' \in Nat /\ last \in Nat /\ inorder'
  BY DEF IInv, TakenInv, Taken, GivenInOrder, UartInv
<1>6. Health = "torn" => last < last'
  <2>1. Health = "torn" => ~ damaged
    BY DEF Health
  <2>2. damaged \/ b > last
    BY <1>5
  <2>3. QED
    BY <1>5, <2>1, <2>2
<1>7. BS!ComeOutBroken
  BY <1>2, <1>3, <1>4, <1>5, <1>6 DEF BS!ComeOutBroken
<1>8. QED
  BY <1>7 DEF BS!Next

\* What getchar takes from the UART is the oldest byte on its way.
LEMMA DirectRefines == ASSUME IInv, IInv', Direct PROVE BS!Next
<1>1. /\ UNCHANGED <<port, flow, ring, irq, di, pending, overflow, damaged>> /\ irq = "off"
      /\ pc = "direct" /\ uart # <<>> /\ uart' = Tail(uart) /\ pc' = "idle" /\ last' = Head(uart)
      /\ inorder' = (inorder /\ (damaged \/ Head(uart) > last))
  BY DEF Direct, GiveByte, TakeByte
<1>2. CASE ~ Whole
  BY <1>1, <1>2, BrokenGives
<1>3. CASE Whole
  <2>1. head = tail /\ head \in Slot
    BY <1>1 DEF IInv, MainInv, TypeOK
  <2>2. pending = <<>>
    <3>1. Queue = 0
      BY <2>1, RingFacts DEF Queue
    <3>2. QED
      BY <1>3, <3>1 DEF IInv, QueueInv, Whole
  <2>3. WayInv /\ WayInv' /\ Whole' /\ Hand = <<>> /\ Hand' = <<>> /\ pending' = <<>>
    BY <1>1, <1>3, <2>2, Way, WayPrimed DEF Whole, Hand
  <2>4. OnItsWay = uart /\ OnItsWay' = Tail(uart)
    <3>1. \A u \in Seq(Nat) : (<<>> \o <<>>) \o u = u
      OBVIOUS
    <3>2. OnItsWay = (<<>> \o <<>>) \o uart /\ OnItsWay' = (<<>> \o <<>>) \o uart'
      BY <1>3, <2>2, <2>3 DEF WayInv
    <3>3. QED
      BY <1>1, <2>3, <3>1, <3>2 DEF WayInv
  <2>5. Health = "whole" /\ Health' = Health
    BY <1>3, <2>3 DEF WayInv
  <2>6. Steady' = Steady
    BY <1>1 DEF Steady
  <2>7. BS!ComeOut
    BY <1>1, <2>4, <2>5, <2>6 DEF BS!ComeOut
  <2>8. QED
    BY <2>7 DEF BS!Next
<1>4. QED
  BY <1>2, <1>3

\* What getchar takes from the ring is the oldest byte on its way.
LEMMA AdvanceRefines == ASSUME IInv, IInv', ReadInv, Advance PROVE BS!Next
<1>1. /\ UNCHANGED <<port, flow, uvars, buf, head, irq, di, overflow, damaged>> /\ irq = "off"
      /\ pc = "tail" /\ pc' = "idle" /\ last' = al
      /\ pending' = IF pending = <<>> THEN pending ELSE Tail(pending)
      /\ inorder' = (inorder /\ (damaged \/ al > last))
  BY DEF Advance, GiveByte
<1>2. CASE ~ Whole
  BY <1>1, <1>2, BrokenGives
<1>3. CASE Whole
  <2>1. head # tail /\ head \in Slot /\ tail \in Slot /\ al = buf[tail]
    BY <1>1, <1>3 DEF IInv, MainInv, TypeOK, ReadInv, Whole
  <2>2. pending \in Seq(Nat) /\ pending # <<>> /\ pending[1] = al
    <3>1. Queue \in Nat /\ Queue # 0
      BY <2>1, RingFacts DEF Queue, Slot
    <3>2. pending \in Seq(Nat) /\ Len(pending) = Queue /\ pending[1] = At(1 - 1)
      BY <1>3, <3>1 DEF IInv, QueueInv, Whole
    <3>3. Wrap(tail + (1 - 1)) = tail
      BY <2>1, WrapFacts DEF Slot
    <3>4. QED
      BY <2>1, <3>1, <3>2, <3>3 DEF At
  <2>3. WayInv /\ WayInv' /\ Whole' /\ Hand = <<>> /\ Hand' = <<>> /\ pending' = Tail(pending)
        /\ uart' = uart
    BY <1>1, <1>3, <2>2, Way, WayPrimed DEF Whole, Hand, uvars
  <2>4. OnItsWay # <<>> /\ Head(OnItsWay) = al /\ OnItsWay' = Tail(OnItsWay)
    <3>1. PICK p \in Seq(Nat), h \in Seq(Nat), u \in Seq(Nat) : p = pending /\ h = Hand /\ u = uart
      BY <2>3 DEF WayInv
    <3>2. OnItsWay = (p \o h) \o u /\ OnItsWay' = (Tail(p) \o h) \o u
      BY <1>3, <2>3, <3>1 DEF WayInv
    <3>3. p # <<>> /\ p[1] = al
      BY <2>2, <3>1
    <3>4. (p \o h) \o u # <<>> /\ Head((p \o h) \o u) = p[1]
      BY <3>3, StreamHead
    <3>5. Tail((p \o h) \o u) = (Tail(p) \o h) \o u
      BY <3>3, StreamHead, SMTT(60)
    <3>6. QED
      BY <3>2, <3>3, <3>4, <3>5
  <2>5. Health = "whole" /\ Health' = Health
    BY <1>3, <2>3 DEF WayInv
  <2>6. Steady' = Steady
    BY <1>1 DEF Steady
  <2>7. BS!ComeOut
    BY <1>1, <2>4, <2>5, <2>6 DEF BS!ComeOut
  <2>8. QED
    BY <2>7 DEF BS!Next
<1>4. QED
  BY <1>2, <1>3

\* A change of the FIFO mode forgets the newest bytes.
LEMMA SetupRefines == ASSUME IInv, IInv', Setup PROVE BS!Next
<1>1. UNCHANGED <<arrived, ring, irq, di, hist>> /\ irq = "off" /\ pc = "setup"
      /\ uart' \in {uart, <<>>}
  BY DEF Setup
<1>2. Hand = <<>> /\ Hand' = <<>> /\ UNCHANGED <<pending, last, overflow, damaged>>
  BY <1>1 DEF Hand, hist
<1>3. CASE ~ Whole \/ uart' = uart
  BY <1>2, <1>3, Unseen
<1>4. CASE Whole /\ uart' = <<>>
  <2>1. WayInv /\ WayInv' /\ Whole'
    BY <1>2, <1>4, Way, WayPrimed DEF Whole
  <2>2. Health = "whole" /\ Health' = "whole"
    BY <1>4, <2>1 DEF WayInv
  <2>3. ~ Steady /\ Steady' \in BOOLEAN
    BY <1>1 DEF Steady
  <2>4. PICK i \in 0 .. Len(OnItsWay) : OnItsWay' = SubSeq(OnItsWay, 1, i)
    <3>1. PICK p \in Seq(Nat), u \in Seq(Nat) : p = pending /\ u = uart
      BY <2>1 DEF WayInv
    <3>2. OnItsWay = (p \o <<>>) \o u /\ OnItsWay' = (p \o <<>>) \o <<>>
      BY <1>2, <1>4, <2>1, <3>1 DEF WayInv
    <3>3. p \o <<>> = p
      OBVIOUS
    <3>4. /\ SubSeq(p \o u, 1, Len(p)) = p /\ Len(p) \in 0 .. Len(p \o u)
      BY Halves
    <3>5. QED
      BY <3>2, <3>3, <3>4
  <2>5. BS!Forget
    BY <1>2, <2>2, <2>3, <2>4 DEF BS!Forget
  <2>6. QED
    BY <2>5 DEF BS!Next
<1>5. QED
  BY <1>1, <1>3, <1>4

\* sirq_cleanup forgets the oldest bytes, and all damage.
LEMMA WipeRefines == ASSUME IInv, IInv', Wipe PROVE BS!Next
<1>1. /\ UNCHANGED <<uvars, irq, last>> /\ irq = "off" /\ pc \in {"install", "wipe"}
      /\ pending' = <<>> /\ overflow' = FALSE /\ damaged' = FALSE
  BY DEF Wipe
<1>2. Hand = <<>> /\ Hand' = <<>> /\ uart' = uart /\ Whole'
  BY <1>1 DEF Hand, uvars, Whole
<1>3. WayInv /\ WayInv'
  BY Way, WayPrimed
<1>4. PICK u \in Seq(Nat) : u = uart
  BY <1>3 DEF WayInv
<1>5. OnItsWay' = u /\ Health' = "whole"
  <2>1. (<<>> \o <<>>) \o u = u
    OBVIOUS
  <2>2. QED
    BY <1>1, <1>2, <1>3, <1>4, <2>1 DEF WayInv
<1>6. ~ Steady /\ Steady' \in BOOLEAN
  BY <1>1 DEF Steady
<1>7. CASE ~ Whole
  <2>1. Health # "whole"
    BY <1>3, <1>7 DEF WayInv
  <2>2. BS!Forget
    BY <1>1, <1>5, <1>6, <2>1 DEF BS!Forget
  <2>3. QED
    BY <2>2 DEF BS!Next
<1>8. CASE Whole
  <2>1. PICK p \in Seq(Nat) : p = pending
    BY <1>3 DEF WayInv
  <2>2. OnItsWay = p \o u /\ Health = "whole"
    <3>1. OnItsWay = (p \o <<>>) \o u /\ Health = "whole"
      BY <1>2, <1>3, <1>4, <1>8, <2>1 DEF WayInv
    <3>2. p \o <<>> = p
      OBVIOUS
    <3>3. QED
      BY <3>1, <3>2
  <2>3. SubSeq(p \o u, Len(p) + 1, Len(p \o u)) = u /\ Len(p) \in 0 .. Len(p \o u)
    BY Halves
  <2>4. BS!Forget
    BY <1>1, <1>5, <1>6, <2>2, <2>3 DEF BS!Forget
  <2>5. QED
    BY <2>4 DEF BS!Next
<1>9. QED
  BY <1>7, <1>8

\* Every step of handler, getchar and command is a step of ByteStream.
LEMMA StepRefines == IInv /\ IInv' /\ ReadInv /\ [Next]_vars => BS!Next
<1> SUFFICES ASSUME IInv, IInv', ReadInv, [Next]_vars PROVE BS!Next
  OBVIOUS
<1>1. CASE IrqStore \/ IrqAccept \/ IrqFull \/ IrqIgnore
  BY <1>1, IrqStoreRefines, IrqAcceptRefines, IrqFullRefines, IrqIgnoreRefines
<1>2. CASE Arrive \/ Direct \/ Advance \/ Setup \/ Wipe
  BY <1>2, ArriveRefines, DirectRefines, AdvanceRefines, SetupRefines, WipeRefines
<1>3. CASE UNCHANGED vars
  BY <1>3, QuietRefines DEF vars
<1>4. CASE IrqEnter
  BY <1>4, QuietRefines DEF IrqEnter
<1>5. CASE \/ CallPollchar \/ Pollchar \/ CallGetchar \/ Key \/ ReadTail \/ Compare \/ Again
           \/ Queued
  <2>1. UNCHANGED <<uvars, ring, irq, di, hist>>
    BY <1>5 DEF CallPollchar, Pollchar, CallGetchar, Key, ReadTail, Compare, Again, Queued
  <2>2. QED
    BY <2>1, QuietRefines
<1>6. CASE \/ SerialNoNumber \/ SerialCommand \/ Parsed \/ Enable
           \/ CleanupNowipe("cleanup", "setup") \/ CleanupNowipe("idle", "wipe")
  <2>1. UNCHANGED <<uvars, ring, irq, di, hist>>
    BY <1>6 DEF SerialNoNumber, SerialCommand, Parsed, Enable, CleanupNowipe
  <2>2. QED
    BY <2>1, QuietRefines
<1>7. QED
  BY <1>1, <1>2, <1>3, <1>4, <1>5, <1>6 DEF Next, Irq, Getchar

\* The serial input implements ByteStream for every size of the ring, the UART
\* and the register: between the UART and getchar no byte is lost, made up,
\* repeated or overtaken, until the ring is full of bytes that wait or the port
\* is set up anew.
THEOREM SerialImplementsByteStream == Spec => ImplementsByteStream
<1>1. Init => ReadInv
  BY DEF Init, ReadInv
<1>2. Init => BS!Init
  <2> SUFFICES ASSUME Init PROVE BS!Init
    OBVIOUS
  <2>1. IInv /\ WayInv
    BY InitInv, Way
  <2>2. pending = <<>> /\ Hand = <<>> /\ uart = <<>> /\ Whole /\ ~ Steady /\ last = 0
    BY DEF Init, Hand, Whole, Steady
  <2>3. (<<>> \o <<>>) \o <<>> = <<>>
    OBVIOUS
  <2>4. OnItsWay = <<>> /\ Health = "whole"
    BY <2>1, <2>2, <2>3 DEF WayInv
  <2>5. Steady = FALSE
    BY <2>2
  <2>6. QED
    BY <2>2, <2>4, <2>5 DEF BS!Init
<1>3. QED
  BY <1>1, <1>2, InitInv, NextInv, ReadInvStep, StepRefines, PTL
     DEF Spec, BS!Spec, ImplementsByteStream

=============================================================================
