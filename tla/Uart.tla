-------------------------------- MODULE Uart --------------------------------
(***************************************************************************)
(* The serial port, src/integration/uart_receiver.nsl, uart_sender.nsl and *)
(* fifo.inc: one step is one clock, in which at most one register is       *)
(* accessed over the bus, a byte may have arrived and one may be taken to  *)
(* be sent.  How long the bits of a byte take on the wire is left open.    *)
(* Bytes that arrive are numbered.                                         *)
(***************************************************************************)
EXTENDS Integers, Sequences

CONSTANTS
  MemDepth,   \* cells of a FIFO; one of them stays empty
  CountMod,   \* bufcnt counts modulo 256
  Junk,       \* what a read of an empty FIFO may return
  MaxArrivals \* bounds the bytes that arrive

\* The count of a full FIFO fits.
ASSUME UartAssumption ==
  /\ MemDepth \in Nat \ {0} /\ CountMod \in Nat \ {0, 1} /\ MaxArrivals \in Nat
  /\ MemDepth <= CountMod

VARIABLES
  rx, tx,             \* the contents of the FIFOs
  rxStatus, txStatus, \* registers: the flags are those of the clock before
  bufcnt, threshold,
  irq,                \* the gateway of the receiver's interrupt line
  line                \* the bytes that arrived and were kept, those sent, and
                      \* whether bufcnt has been confused

uart == <<rx, tx, rxStatus, txStatus, bufcnt, threshold, irq, line>>

Statuses == [en : {0, 1}, full : BOOLEAN, empty : BOOLEAN]

Full(fifo) == Len(fifo) = MemDepth - 1
Empty(fifo) == fifo = <<>>

UartInit ==
  /\ rx = <<>> /\ tx = <<>>
  /\ rxStatus = [en |-> 0, full |-> FALSE, empty |-> FALSE]
  /\ txStatus = [en |-> 0, full |-> FALSE, empty |-> FALSE]
  /\ bufcnt = 0 /\ threshold = CountMod \div 4   \* 64
  /\ irq = "open"
  /\ line = [kept |-> <<>>, sent |-> <<>>, arrivals |-> 0, confused |-> FALSE]

\* Accesses: the address is a name.
Access(reg, value) == [reg |-> reg, value |-> value]
NoAccess == Access("none", 0)
ReadsBuf(a) == a.reg = "rx.read"
WritesBuf(a) == a.reg = "tx.write"

\* interrupt_req
InterruptReq == (Full(rx) \/ bufcnt > threshold) /\ rxStatus.en = 1

\* fifo.read and fifo.write see the same pointers.
Queued(fifo, pops, pushes, byte) ==
  LET rest == IF pops /\ ~Empty(fifo) THEN Tail(fifo) ELSE fifo
  IN IF pushes /\ ~Full(fifo) THEN Append(rest, byte) ELSE rest

\* The end of receive_stop_bit, and the read of the buffer
\* Variant: only bytes that are kept are counted down.
CountedOnce(arrives, reads) ==
  bufcnt' = IF arrives THEN (bufcnt + 1) % CountMod ELSE bufcnt
Counted(arrives, reads) ==
  IF arrives /\ reads THEN bufcnt' \in 0 .. CountMod - 1
  ELSE bufcnt' = (bufcnt + (IF arrives THEN 1 ELSE 0) - (IF reads THEN 1 ELSE 0)) % CountMod

Receiver(a, arrives) ==
  LET byte == line.arrivals + 1 IN
  /\ arrives => rxStatus.en = 1 /\ line.arrivals < MaxArrivals
  /\ rx' = Queued(rx, ReadsBuf(a), arrives, byte)
  /\ Counted(arrives, ReadsBuf(a))
  /\ rxStatus' = [en |-> IF a.reg = "rx.en" THEN a.value ELSE rxStatus.en,
                  full |-> Full(rx), empty |-> Empty(rx)]
  /\ threshold' = IF a.reg = "rx.threshold" THEN a.value ELSE threshold

\* idle takes a byte when it is enabled and the wire is free.
Sender(a, sends) ==
  /\ sends => txStatus.en = 1 /\ ~Empty(tx)
  /\ tx' = Queued(tx, sends, WritesBuf(a), a.value)
  /\ txStatus' = [en |-> IF a.reg = "tx.en" THEN a.value ELSE txStatus.en,
                  full |-> Full(tx), empty |-> Empty(tx)]

Line(a, arrives, sends) ==
  line' = [kept |-> IF arrives /\ ~Full(rx) THEN Append(line.kept, line.arrivals + 1) ELSE line.kept,
           sent |-> IF sends THEN Append(line.sent, Head(tx)) ELSE line.sent,
           arrivals |-> line.arrivals + (IF arrives THEN 1 ELSE 0),
           confused |-> \/ line.confused
                        \/ arrives /\ (Full(rx) \/ ReadsBuf(a))
                        \/ ReadsBuf(a) /\ Empty(rx)]

\* What Plic does for one line: it is latched while its gateway is open, and
\* the gateway is closed from there to the completion.
Gateway(a) ==
  irq' = IF a.reg = "plic.claim" THEN "claimed"
         ELSE IF a.reg = "plic.complete" THEN "open"
         ELSE IF irq = "open" /\ InterruptReq THEN "pending"
         ELSE irq

Clock(a) ==
  \E arrives, sends \in BOOLEAN :
    Receiver(a, arrives) /\ Sender(a, sends) /\ Line(a, arrives, sends) /\ Gateway(a)

\* A clock in which a byte goes out
Sends ==
  /\ txStatus.en = 1 /\ ~Empty(tx)
  /\ line' = [line EXCEPT !.sent = Append(@, Head(tx))]

-----------------------------------------------------------------------------
(* Properties.                                                               *)

UartTypeOK ==
  /\ Len(rx) \in 0 .. MemDepth - 1 /\ Len(tx) \in 0 .. MemDepth - 1
  /\ rxStatus \in Statuses /\ txStatus \in Statuses
  /\ bufcnt \in 0 .. CountMod - 1 /\ threshold \in 0 .. CountMod - 1
  /\ irq \in {"open", "pending", "claimed"}

\* The level the interrupt depends on is the number of bytes in the FIFO, unless
\* a byte was dropped, an empty FIFO was read, or a byte came in the clock of a
\* read.
LevelAgrees == ~line.confused => bufcnt = Len(rx)
=============================================================================
