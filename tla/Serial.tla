------------------------------- MODULE Serial -------------------------------
(***************************************************************************)
(* Input from the serial port: the interrupt handler and its set-up,       *)
(* syslinux/core/serirq.inc; pollchar and getchar, core/conio.inc; and the *)
(* "serial" command, pc_serial in core/parseconfig.inc.                    *)
(*                                                                         *)
(* The handler runs between any two instructions of the main program that  *)
(* are not guarded by cli and sti, and new bytes may come in at any time,  *)
(* within the handler too.  Bytes are numbered in the order in which they  *)
(* arrive, from 1; 0 is an erased slot of the ring.  The UART and the      *)
(* remote end are external.                                                *)
(***************************************************************************)
EXTENDS Integers, Sequences

CONSTANTS
  Size,         \* serial_buf_size
  Width,        \* 2^16: DI counts modulo Width
  Fifo,         \* bytes the UART can hold
  MaxByte       \* bound: bytes that arrive

ASSUME SerialAssumption ==
  /\ Size \in Nat \ {0, 1} /\ Width \in Nat /\ Size < Width /\ Fifo \in Nat \ {0}
  /\ MaxByte \in Nat

VARIABLES
  port,         \* SerialPort # 0
  flow,         \* FlowIgnore # 0: input counts only when some lines are set
  ier,          \* the UART's receive interrupt is enabled, our vectors installed
  uart,         \* bytes in the UART
  arrived,      \* how many bytes have arrived
  buf, head, tail,   \* the ring, SerialHead, SerialTail
  irq, di,      \* the handler: "off", "store" or "check"; its index register
  pc, ax, al,   \* the main program: where it is, the tail and byte it has read
  iflag,        \* interrupts are enabled
  polled,       \* pollchar has promised a byte to the getchar to come
  overflow,     \* history: the handler has found the ring full
  damaged,      \* history: it has ignored a byte or run without a port; no queue from then on
  pending,      \* history: bytes accepted and not handed out
  last, inorder \* history: the last byte handed out; each was newer than the last

uvars == <<uart, arrived>>
ring == <<buf, head, tail>>
main == <<pc, ax, al, iflag, polled>>
hist == <<pending, overflow, damaged, last, inorder>>
vars == <<port, flow, ier, uvars, ring, irq, di, main, hist>>

Slot == 0 .. Size - 1
Wrap(i) == i % Size
Blank == [i \in Slot |-> 0]

Init ==
  /\ port = FALSE /\ flow = FALSE /\ ier = FALSE
  /\ uart = <<>> /\ arrived = 0
  /\ buf = Blank /\ head = 0 /\ tail = 0
  /\ irq = "off" /\ di = 0
  /\ pc = "idle" /\ ax = 0 /\ al = 0 /\ iflag = TRUE /\ polled = FALSE
  /\ pending = <<>> /\ overflow = FALSE /\ damaged = FALSE
  /\ last = 0 /\ inorder = TRUE

(***************************************************************************)
(* The UART.  A byte that finds it full is lost before this code sees it.  *)
(***************************************************************************)
Arrive ==
  /\ arrived < MaxByte
  /\ arrived' = arrived + 1
  /\ uart' = IF Len(uart) < Fifo THEN Append(uart, arrived + 1) ELSE uart
  /\ UNCHANGED <<port, flow, ier, ring, irq, di, main, hist>>

\* The bits of FlowIgnore, compared with a status register: with flow control
\* they may or may not be set whenever it is read.
LinesSet == IF flow THEN BOOLEAN ELSE {TRUE}

\* A byte is read from the data port.
TakeByte == uart' = Tail(uart) /\ UNCHANGED arrived

(***************************************************************************)
(* irq_common.  Each byte is stored before it is known whether it can be   *)
(* kept; DI moves on in either case.  With SerialPort 0 the handler talks  *)
(* to whatever answers at I/O ports 0 and 5: it may find data or not, and  *)
(* stores nonsense, which is 0 here.                                       *)
(***************************************************************************)
DataReady == IF port THEN {uart # <<>>} ELSE BOOLEAN

IrqEnter ==
  /\ iflag /\ ier /\ irq = "off" /\ uart # <<>> /\ TRUE \in DataReady
  /\ irq' = "store" /\ di' = head
  /\ UNCHANGED <<port, flow, ier, uvars, ring, main, hist>>

IrqStore ==
  /\ irq = "store"
  /\ buf' = IF di \in Slot THEN [buf EXCEPT ![di] = IF port THEN Head(uart) ELSE 0] ELSE buf
  /\ IF port THEN TakeByte ELSE UNCHANGED uvars
  /\ damaged' = (damaged \/ ~ port) /\ pending' = IF port THEN pending ELSE <<>>
  /\ di' = (di + 1) % Width /\ irq' = "check"
  /\ UNCHANGED <<port, flow, ier, head, tail, main, overflow, last, inorder>>

\* Mutant: the data is dropped when it would make the ring full.
WouldOverflowEarly == Wrap(di + 1) = tail

\* "Would this cause overflow?  If so, just drop the data"
WouldOverflow == Wrap(di) = tail

\* More data with DI at d, or the registers are restored.
LoopOrLeave(d) ==
  \E more \in DataReady :
    /\ irq' = IF more THEN "store" ELSE "off"
    /\ di' = IF more THEN d ELSE 0

\* The byte just stored, for the history.  (When DI is not wrapped, after an
\* ignored byte, it has gone to the memory after the ring.)
Stored == buf[Wrap(di - 1)]

IrqAccept ==
  /\ irq = "check" /\ TRUE \in LinesSet /\ ~ WouldOverflow
  /\ head' = Wrap(di)
  /\ pending' = IF damaged THEN pending ELSE Append(pending, Stored)
  /\ LoopOrLeave(Wrap(di))
  /\ UNCHANGED <<port, flow, ier, uvars, buf, tail, main, overflow, damaged, last, inorder>>

IrqFull ==
  /\ irq = "check" /\ TRUE \in LinesSet /\ WouldOverflow
  /\ overflow' = TRUE
  /\ LoopOrLeave(Wrap(di))
  /\ UNCHANGED <<port, flow, ier, uvars, ring, main, pending, damaged, last, inorder>>

\* The bits, which are meant for MSR, are compared with LSR, which has just
\* been read.  DI is not set back.
IrqIgnore ==
  /\ irq = "check" /\ FALSE \in LinesSet
  /\ damaged' = TRUE /\ pending' = <<>>
  /\ LoopOrLeave(di)
  /\ UNCHANGED <<port, flow, ier, uvars, ring, main, overflow, last, inorder>>

Irq == IrqEnter \/ IrqStore \/ IrqAccept \/ IrqFull \/ IrqIgnore

(***************************************************************************)
(* pollchar and getchar.  A key pressed on the keyboard makes pollchar say *)
(* yes, and touches none of this; here pollchar is about serial input.     *)
(***************************************************************************)
\* mov ax,[SerialTail]
CallPollchar ==
  /\ irq = "off" /\ pc = "idle" /\ port
  /\ pc' = "poll" /\ ax' = tail
  /\ UNCHANGED <<port, flow, ier, uvars, ring, irq, di, al, iflag, polled, hist>>

\* Mutant: the modem lines alone count as input.
PollcharAnyLine ==
  /\ irq = "off" /\ pc = "poll"
  /\ polled' = TRUE
  /\ pc' = "idle" /\ ax' = 0
  /\ UNCHANGED <<port, flow, ier, uvars, ring, irq, di, al, iflag, hist>>

\* cli; what is queued, or what the UART has, if the modem lines are set; sti.
Pollchar ==
  /\ irq = "off" /\ pc = "poll"
  /\ \E set \in LinesSet : polled' = (ax # head \/ (uart # <<>> /\ set))
  /\ pc' = "idle" /\ ax' = 0
  /\ UNCHANGED <<port, flow, ier, uvars, ring, irq, di, al, iflag, hist>>

CallGetchar ==
  /\ irq = "off" /\ pc = "idle"
  /\ pc' = "key"
  /\ UNCHANGED <<port, flow, ier, uvars, ring, irq, di, ax, al, iflag, polled, hist>>

\* The keyboard comes first, every time around.
Key ==
  /\ irq = "off" /\ pc = "key"
  /\ pc' = "idle" /\ polled' = FALSE
  /\ UNCHANGED <<port, flow, ier, uvars, ring, irq, di, ax, al, iflag, hist>>

ReadTail ==
  /\ irq = "off" /\ pc = "key" /\ port
  /\ pc' = "get" /\ ax' = tail
  /\ UNCHANGED <<port, flow, ier, uvars, ring, irq, di, al, iflag, polled, hist>>

\* cli, and the comparison with the head.
Compare ==
  /\ irq = "off" /\ pc = "get"
  /\ iflag' = FALSE
  /\ pc' = IF ax # head THEN "queued" ELSE "direct"
  /\ UNCHANGED <<port, flow, ier, uvars, ring, irq, di, ax, al, polled, hist>>

\* Mutant: the wrong bit of LSR is tested, so that data goes unnoticed.
AgainIgnoresData ==
  /\ irq = "off" /\ pc = "direct"
  /\ iflag' = TRUE /\ pc' = "key" /\ ax' = 0
  /\ UNCHANGED <<port, flow, ier, uvars, ring, irq, di, al, polled, hist>>

\* Nothing there, or the modem lines are not set: sti, and around again.
Again ==
  /\ irq = "off" /\ pc = "direct" /\ (uart = <<>> \/ FALSE \in LinesSet)
  /\ iflag' = TRUE /\ pc' = "key" /\ ax' = 0
  /\ UNCHANGED <<port, flow, ier, uvars, ring, irq, di, al, polled, hist>>

\* getchar returns byte b; nobody looks at the registers any more.
GiveByte(b) == /\ pc' = "idle" /\ polled' = FALSE /\ ax' = 0 /\ al' = 0
               /\ last' = b /\ inorder' = (inorder /\ (damaged \/ b > last))

\* The byte is taken from the data port, before the handler can see it.
Direct ==
  /\ irq = "off" /\ pc = "direct" /\ uart # <<>> /\ TRUE \in LinesSet
  /\ TakeByte
  /\ iflag' = TRUE /\ GiveByte(Head(uart))
  /\ UNCHANGED <<port, flow, ier, ring, irq, di, pending, overflow, damaged>>

\* sti, and the byte is read from the ring.
Queued ==
  /\ irq = "off" /\ pc = "queued"
  /\ iflag' = TRUE /\ al' = buf[ax] /\ pc' = "tail"
  /\ UNCHANGED <<port, flow, ier, uvars, ring, irq, di, ax, polled, hist>>

\* Mutant: the tail does not wrap around.
AdvanceNoWrap ==
  /\ irq = "off" /\ pc = "tail"
  /\ tail' = ax + 1
  /\ pending' = IF pending = <<>> THEN pending ELSE Tail(pending)
  /\ GiveByte(al)
  /\ UNCHANGED <<port, flow, ier, uvars, buf, head, irq, di, iflag, overflow, damaged>>

\* The slot is given back only now, when its byte has been read.
Advance ==
  /\ irq = "off" /\ pc = "tail"
  /\ tail' = Wrap(ax + 1)
  /\ pending' = IF pending = <<>> THEN pending ELSE Tail(pending)
  /\ GiveByte(al)
  /\ UNCHANGED <<port, flow, ier, uvars, buf, head, irq, di, iflag, overflow, damaged>>

(***************************************************************************)
(* pc_serial, sirq_install and sirq_cleanup                                *)
(***************************************************************************)
\* pc_serial with no number: SerialPort becomes 0 and nothing is cleaned up.
SerialNoNumber ==
  /\ irq = "off" /\ pc = "idle"
  /\ port' = FALSE /\ polled' = FALSE
  /\ UNCHANGED <<flow, ier, uvars, ring, irq, di, pc, ax, al, iflag, hist>>

\* While the rest of the line is read there is no flow control.
SerialCommand ==
  /\ irq = "off" /\ pc = "idle"
  /\ flow' = FALSE /\ pc' = "parse" /\ polled' = FALSE
  /\ UNCHANGED <<port, ier, uvars, ring, irq, di, ax, al, iflag, hist>>

\* The new flow control holds at once; a baud rate below 75 is an error, after
\* which the handler is still there.
Parsed ==
  /\ irq = "off" /\ pc = "parse"
  /\ flow' \in BOOLEAN
  /\ \/ port' = FALSE /\ pc' = "idle"
     \/ port' = TRUE /\ pc' = "cleanup"
  /\ UNCHANGED <<ier, uvars, ring, irq, di, ax, al, iflag, polled, hist>>

\* sirq_cleanup_nowipe, called by pc_serial and by sirq_cleanup.
CleanupNowipe(from, then) ==
  /\ irq = "off" /\ pc = from
  /\ ier' = FALSE /\ pc' = then /\ polled' = FALSE
  /\ UNCHANGED <<port, flow, uvars, ring, irq, di, ax, al, iflag, hist>>

\* pc_serial, after the clean-up: the port is set up anew, with or without
\* interrupts, or it is found missing.  A change of the FIFO mode empties the
\* UART.
Setup ==
  /\ irq = "off" /\ pc = "setup"
  /\ uart' \in {uart, <<>>}
  /\ \/ port' = FALSE /\ pc' = "idle"
     \/ port' = TRUE /\ pc' \in {"idle", "install"}
  /\ UNCHANGED <<flow, ier, arrived, ring, irq, di, ax, al, iflag, polled, hist>>

\* sirq_cleanup erases the ring; both indices are cleared by one store.
Wipe ==
  /\ irq = "off" /\ pc \in {"install", "wipe"}
  /\ head' = 0 /\ tail' = 0 /\ buf' = Blank
  /\ pending' = <<>> /\ overflow' = FALSE /\ damaged' = FALSE
  /\ pc' = IF pc = "install" THEN "enable" ELSE "idle"
  /\ UNCHANGED <<port, flow, ier, uvars, irq, di, ax, al, iflag, polled, last, inorder>>

Enable ==
  /\ irq = "off" /\ pc = "enable"
  /\ ier' = TRUE /\ pc' = "idle"
  /\ UNCHANGED <<port, flow, uvars, ring, irq, di, ax, al, iflag, polled, hist>>

Getchar == ReadTail \/ Compare \/ Again \/ Direct \/ Queued \/ Advance

Next ==
  \/ Arrive \/ Irq
  \/ CallPollchar \/ Pollchar \/ CallGetchar \/ Key \/ Getchar
  \/ SerialNoNumber \/ SerialCommand \/ Parsed
  \/ CleanupNowipe("cleanup", "setup") \/ Setup
  \/ CleanupNowipe("idle", "wipe") \/ Wipe \/ Enable

\* The processor runs: the handler goes on, and so does getchar.
Spec == Init /\ [][Next]_vars /\ WF_vars(Irq) /\ WF_vars(Getchar)

-----------------------------------------------------------------------------
TypeOK ==
  /\ head \in Slot /\ tail \in Slot /\ buf \in [Slot -> 0 .. MaxByte]
  /\ irq \in {"off", "store", "check"} /\ di \in 0 .. Width - 1
  /\ pc \in {"idle", "poll", "key", "get", "direct", "queued", "tail", "parse", "cleanup",
             "setup", "install", "wipe", "enable"}
  /\ ax \in Slot /\ iflag \in BOOLEAN /\ polled \in BOOLEAN

\* The bytes between the tail and the head.
Contents == [i \in 1 .. Wrap(head - tail) |-> buf[Wrap(tail + i - 1)]]

\* serirq.inc:56-74, conio.inc:346-357.  As long as the ring has not been found
\* full it is a queue: it holds the bytes the handler has accepted and getchar
\* has not handed out, in the order they came, wherever handler and getchar
\* interrupt each other.
RingIsQueue == ~ overflow /\ ~ damaged => Contents = pending

\* conio.inc:330-345.  Bytes are handed out in the order they arrived and none
\* twice, although getchar takes some from the ring and some from the UART
\* behind the handler's back, and even when the ring has overflowed.
GivenInOrder == inorder

\* conio.inc:288-313.  What pollchar promised is still there when getchar comes
\* for it: in the ring, in the UART, or in the hands of the handler.
PollIsHonest ==
  polled /\ ~ damaged /\ pc \in {"idle", "key"} => head # tail \/ uart # <<>> \/ irq = "check"

\* What is on its way to getchar, as ByteStream sees it: the bytes in the ring,
\* the one the handler has just stored, and the bytes in the UART.
Health == IF damaged THEN "spoiled" ELSE IF overflow THEN "torn" ELSE "whole"
OnItsWay ==
  IF Health # "whole" THEN <<>>
  ELSE Contents \o (IF irq = "check" THEN <<Stored>> ELSE <<>>) \o uart
Steady ==
  port /\ ~ flow /\ pc \notin {"parse", "cleanup", "setup", "install", "wipe", "enable"}

BS == INSTANCE ByteStream WITH
        Capacity <- Size, stream <- OnItsWay, given <- last, health <- Health, steady <- Steady

\* serirq.inc:41-82, conio.inc:288-357, parseconfig.inc:174-280.  The handler,
\* getchar and the "serial" command implement ByteStream: between the UART and
\* getchar no byte is lost, made up, repeated or overtaken, whoever picks it up,
\* until the ring is full of bytes that wait, or the port is reconfigured.
ImplementsByteStream == BS!Spec

\* conio.inc:318-357.  A getchar for which there is a byte returns, whether the
\* handler or getchar itself gets hold of it.
Waiting == pc \in {"key", "get", "direct"} /\ port
GetcharReturns ==
  (Waiting /\ (head # tail \/ (uart # <<>> /\ ~ flow))) ~> (pc = "idle")

-----------------------------------------------------------------------------
(* What comments say and the code does not do. *)

\* serirq.inc:74: "If so, just drop the data".  A byte that does not fit is
\* dropped; the bytes that are queued already stay.
OverflowKeepsQueue == irq = "off" /\ ~ damaged => Contents = pending
=============================================================================
