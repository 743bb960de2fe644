------------------------------- MODULE Gloss -------------------------------
(***************************************************************************)
(* The software that drives the serial port: the runtime library (uart.c,  *)
(* syscalls.c and sbrk.c of src/software/gloss), called by any program,    *)
(* and the echo program src/software/plic_test, which works by interrupts. *)
(* One step is a clock of Uart; the processor may take any number of       *)
(* clocks between two accesses.                                            *)
(***************************************************************************)
EXTENDS Uart

CONSTANTS
  Programs,            \* {"plic_test", "newlib"}
  MaxCalls,            \* bounds the calls of a program
  MaxCount,            \* bounds the length of a write or read
  HeapEnd, Increments  \* the heap is [0, HeapEnd)

ASSUME GlossAssumption ==
  /\ Programs \subseteq {"plic_test", "newlib"}
  /\ {MaxCalls, MaxCount, HeapEnd} \subseteq Nat
  /\ Increments \subseteq Int

VARIABLES
  program,
  pc, back,     \* where the processor is; where uart_putchar or uart_getchar returns
  ch,           \* the byte in hand
  left,         \* bytes sys_write or sys_read has still to move
  put, taken,   \* bytes given to uart_putchar, returned by uart_getchar
  heap, areas,  \* sbrk's pointer, the areas it has handed out
  ret,          \* what the last call returned; in the loops, i
  calls

software == <<program, pc, back, ch, left, put, taken, heap, areas, ret, calls>>
vars == <<uart, software>>

Init ==
  /\ UartInit
  /\ program \in Programs
  /\ pc = (IF program = "plic_test" THEN "priority" ELSE "call")
  /\ back = "none" /\ ch = Junk /\ left = 0
  /\ put = <<>> /\ taken = <<>>
  /\ heap = 0 /\ areas = {} /\ ret = 0 /\ calls = 0

data == <<program, left, heap, areas, ret, calls>>

\* A clock without an access of the processor
Pause == Clock(NoAccess) /\ UNCHANGED software

-----------------------------------------------------------------------------
(* uart.c                                                                    *)

\* uart_putchar(byte), and then on to the place next
Putchar(byte, next) ==
  /\ pc' = "tx.poll" /\ back' = next /\ ch' = byte /\ put' = Append(put, byte)
  /\ UNCHANGED taken

Getchar(next) == pc' = "rx.stat" /\ back' = next /\ UNCHANGED <<ch, put, taken>>

Goes(from, access, next) == pc = from /\ Clock(access) /\ pc' = next

\* UART_TX_GET_STAT_FULL
\* Variant: the byte is written first and the flag looked at later.
PollTxNot ==
  /\ Goes("tx.poll", Access("tx.stat", 0), "tx.buf")
  /\ UNCHANGED <<data, back, ch, put, taken>>
PollTx ==
  /\ Goes("tx.poll", Access("tx.stat", 0), IF txStatus.full THEN "tx.poll" ELSE "tx.buf")
  /\ UNCHANGED <<data, back, ch, put, taken>>

WriteTx ==
  /\ Goes("tx.buf", Access("tx.write", ch), "tx.stat")
  /\ UNCHANGED <<data, back, ch, put, taken>>

\* UART_TX_SET_EN and UART_RX_SET_EN read the register and write the bit back.
SetTxEn ==
  /\ \/ Goes("tx.stat", Access("tx.stat", 0), "tx.en")
     \/ Goes("tx.en", Access("tx.en", 1), back)
  /\ UNCHANGED <<data, back, ch, put, taken>>

SetRxEn ==
  /\ \/ Goes("rx.stat", Access("rx.stat", 0), "rx.en")
     \/ Goes("rx.en", Access("rx.en", 1), IF back = "spin" THEN back ELSE "rx.poll")
  /\ UNCHANGED <<data, back, ch, put, taken>>

\* UART_RX_GET_STAT_EMPTY
PollRx ==
  /\ Goes("rx.poll", Access("rx.stat", 0), IF rxStatus.empty THEN "rx.poll" ELSE "rx.buf")
  /\ UNCHANGED <<data, back, ch, put, taken>>

ReadRx ==
  /\ Goes("rx.buf", Access("rx.read", 0), back)
  /\ ch' = IF Empty(rx) THEN Junk ELSE Head(rx)
  /\ taken' = Append(taken, ch')
  /\ UNCHANGED <<data, back, put>>

Library == PollTx \/ WriteTx \/ SetTxEn \/ SetRxEn \/ PollRx \/ ReadRx

-----------------------------------------------------------------------------
(* plic_test                                                                 *)

\* main, up to its loop; the interrupt controller's registers are external.
Main ==
  /\ \/ Goes("priority", NoAccess, "enable") /\ UNCHANGED back
     \/ Goes("enable", NoAccess, "threshold") /\ UNCHANGED back
     \/ Goes("threshold", Access("rx.threshold", 1), "rx.stat") /\ back' = "spin"
  /\ UNCHANGED <<data, ch, put, taken>>

\* The external interrupt is taken in main's loop; the handler claims it.
Claim ==
  /\ irq = "pending"
  /\ Goes("spin", Access("plic.claim", 0), "drain")
  /\ UNCHANGED <<data, back, ch, put, taken>>

\* while(!UART_RX_GET_STAT_EMPTY()) uart_putchar(uart_getchar());
Drain ==
  /\ pc = "drain" /\ Clock(Access("rx.stat", 0))
  /\ IF rxStatus.empty THEN pc' = "complete" /\ UNCHANGED <<back, ch, put, taken>>
     ELSE Getchar("echo")
  /\ UNCHANGED data

Echo == pc = "echo" /\ Clock(NoAccess) /\ Putchar(ch, "drain") /\ UNCHANGED data

\* Variant: the interrupt is not completed.
CompleteNot ==
  /\ Goes("complete", NoAccess, "spin")
  /\ UNCHANGED <<data, back, ch, put, taken>>
Complete ==
  /\ Goes("complete", Access("plic.complete", 0), "spin")
  /\ UNCHANGED <<data, back, ch, put, taken>>

PlicTest == Main \/ Claim \/ Drain \/ Echo \/ Complete

-----------------------------------------------------------------------------
(* The library's system calls.                                               *)

Returns(value) == pc' = "call" /\ ret' = value
NoTransfer == UNCHANGED <<back, ch, left, put, taken>>

Call ==
  /\ pc = "call" /\ calls < MaxCalls /\ calls' = calls + 1
  /\ Clock(NoAccess) /\ UNCHANGED program

\* The loops of sys_write and sys_read: left is count - i, ret is i.  The bytes
\* written are numbered, too.
SysWrite(fd, count) ==
  /\ Call
  /\ IF fd \in {1, 2} THEN pc' = "write" /\ left' = count /\ ret' = 0
     ELSE Returns(-1) /\ UNCHANGED left
  /\ UNCHANGED <<back, ch, put, taken, heap, areas>>

WriteLoop ==
  /\ pc = "write" /\ Clock(NoAccess)
  /\ IF left = 0 THEN Returns(ret) /\ NoTransfer
     ELSE /\ Putchar(Len(put) + 1, "write")
          /\ left' = left - 1 /\ ret' = ret + 1
  /\ UNCHANGED <<program, heap, areas, calls>>

SysRead(fd, count) ==
  /\ Call
  /\ IF fd = 0 THEN pc' = "read" /\ left' = count /\ ret' = 0
     ELSE Returns(-1) /\ UNCHANGED left
  /\ UNCHANGED <<back, ch, put, taken, heap, areas>>

ReadLoop ==
  /\ pc = "read" /\ Clock(NoAccess)
  /\ IF left = 0 THEN Returns(ret) /\ NoTransfer
     ELSE Getchar("read") /\ left' = left - 1 /\ ret' = ret + 1
  /\ UNCHANGED <<program, heap, areas, calls>>

\* sys_fstat and sys_lseek know the two output files; the other calls fail.
SysStat(fd) ==
  /\ Call /\ Returns(IF fd \in {1, 2} THEN 0 ELSE -1)
  /\ NoTransfer /\ UNCHANGED <<heap, areas>>

\* sys_exit, and every call syscall does not know, never returns.
SysExit == Call /\ pc' = "halt" /\ NoTransfer /\ UNCHANGED <<heap, areas, ret>>

\* _sbrk: a call that fails leaves the heap used up; one that would just fill it
\* fails too.  A negative increment is not checked.
\* Variant: the pointer returned is the new one.
SbrkNew(increment) ==
  /\ Call
  /\ IF heap + increment < HeapEnd
     THEN /\ heap' = heap + increment /\ Returns(heap')
          /\ areas' = areas \cup {[from |-> heap', to |-> heap' + increment]}
     ELSE heap' = HeapEnd /\ Returns(-1) /\ UNCHANGED areas
  /\ NoTransfer
Sbrk(increment) ==
  /\ Call
  /\ IF heap + increment < HeapEnd
     THEN /\ heap' = heap + increment /\ Returns(heap)
          /\ areas' = areas \cup {[from |-> heap, to |-> heap + increment]}
     ELSE heap' = HeapEnd /\ Returns(-1) /\ UNCHANGED areas
  /\ NoTransfer

Newlib ==
  \/ \E fd \in 0 .. 2, count \in 0 .. MaxCount : SysWrite(fd, count) \/ SysRead(fd, count)
  \/ \E fd \in 0 .. 2 : SysStat(fd)
  \/ SysExit
  \/ \E increment \in Increments : Sbrk(increment)
  \/ WriteLoop \/ ReadLoop

-----------------------------------------------------------------------------
Processor ==
  \/ Library
  \/ program = "plic_test" /\ PlicTest
  \/ program = "newlib" /\ Newlib

Next == Pause \/ Processor

Spec == Init /\ [][Next]_vars

\* The clock runs, the processor goes on, and the wire becomes free again.
FairSpec == Spec /\ WF_vars(Next) /\ WF_vars(Processor) /\ WF_line(Sends)

-----------------------------------------------------------------------------
(* Properties.                                                               *)

TypeOK ==
  /\ UartTypeOK
  /\ program \in Programs /\ left \in 0 .. MaxCount /\ calls \in 0 .. MaxCalls
  /\ heap \in Int /\ heap <= HeapEnd

\* Bytes given to uart_putchar but not yet written to the FIFO
Held == IF pc \in {"tx.poll", "tx.buf"} THEN <<ch>> ELSE <<>>

\* What was given to uart_putchar goes out, all of it and in order, and what
\* arrived and was kept is read, likewise; the echo program gives back exactly
\* what it has read.
NoByteLost ==
  /\ put = line.sent \o tx \o Held
  /\ line.kept = taken \o rx
  /\ program = "plic_test" =>
       taken = put \o (IF pc = "echo" THEN <<ch>> ELSE <<>>)

\* As long as no call has a negative increment, the areas sbrk hands out are
\* within the heap and apart from each other.
AreasApart ==
  \A a \in areas :
    /\ 0 <= a.from /\ a.to <= HeapEnd
    /\ \A b \in areas : a # b => a.to <= b.from \/ b.to <= a.from

\* Once more bytes than the threshold wait in a receiver that has not lost count,
\* all that have arrived until then are echoed.
Echoed ==
  \A n \in 1 .. MaxArrivals :
    (program = "plic_test" /\ Len(line.kept) = n /\ bufcnt = Len(rx) /\ bufcnt > threshold)
      ~> (Len(line.sent) >= n)
=============================================================================
