----------------------------- MODULE Gloss_proofs -----------------------------
(***************************************************************************)
(* The serial port and its software, for any depth of the FIFOs, any bytes *)
(* and any program of calls.                                               *)
(***************************************************************************)
EXTENDS Gloss, SequenceTheorems, TLAPS

Bytes == Nat \cup {Junk}

\* Who calls the library, and where to.
Places ==
  \/ /\ program = "plic_test"
     /\ pc \in {"priority", "enable", "threshold", "spin", "drain", "echo", "complete",
                "tx.poll", "tx.buf", "tx.stat", "tx.en", "rx.stat", "rx.en", "rx.poll", "rx.buf"}
     /\ pc \in {"tx.poll", "tx.buf", "tx.stat", "tx.en"} => back = "drain"
     /\ pc \in {"rx.stat", "rx.en"} => back \in {"spin", "echo"}
     /\ pc \in {"rx.poll", "rx.buf"} => back = "echo"
  \/ /\ program = "newlib"
     /\ pc \in {"call", "write", "read", "halt",
                "tx.poll", "tx.buf", "tx.stat", "tx.en", "rx.stat", "rx.en", "rx.poll", "rx.buf"}
     /\ pc \in {"tx.poll", "tx.buf", "tx.stat", "tx.en"} => back = "write"
     /\ pc \in {"rx.stat", "rx.en", "rx.poll", "rx.buf"} => back = "read"

Types ==
  /\ {rx, tx, line.sent, line.kept, put, taken} \subseteq Seq(Bytes)
  /\ ch \in Bytes /\ line.arrivals \in Nat
  /\ Len(tx) < MemDepth /\ Len(rx) < MemDepth

\* A flag is one clock old: it is wrong after an access of the library only, and
\* the library does not look at it then.
Flags ==
  /\ pc \notin {"priority", "call", "tx.stat"} => (Full(tx) => txStatus.full)
  /\ pc \notin {"priority", "call", "echo", "read"} => (Empty(rx) => rxStatus.empty)
  /\ pc = "tx.buf" => ~Full(tx)
  /\ pc = "rx.buf" => ~Empty(rx)

IInv == Places /\ Types /\ Flags /\ NoByteLost

-----------------------------------------------------------------------------
(* Sequences.                                                                *)

\* Moving the head of t to the end of s leaves the two together unchanged.
LEMMA MoveHead ==
  ASSUME NEW S, NEW s \in Seq(S), NEW t \in Seq(S), t # <<>>
  PROVE  Append(s, Head(t)) \o Tail(t) = s \o t
<1>1. Head(t) \in S /\ Tail(t) \in Seq(S) /\ <<Head(t)>> \in Seq(S)
  BY HeadTailProperties
<1>2. <<Head(t)>> \o Tail(t) = t
  BY HeadTailProperties, <1>1, ConcatProperties, LenProperties, SeqEqual, EmptySeq
<1>3. Append(s, Head(t)) = s \o <<Head(t)>>
  BY <1>1, AppendIsConcat
<1> QED
  BY <1>1, <1>2, <1>3, ConcatAssociative

LEMMA AppendRight ==
  ASSUME NEW S, NEW s \in Seq(S), NEW t \in Seq(S), NEW x \in S
  PROVE  s \o Append(t, x) = Append(s \o t, x)
<1>1. <<x>> \in Seq(S) /\ s \o t \in Seq(S)
  BY ConcatProperties
<1> QED
  BY <1>1, AppendIsConcat, ConcatAssociative

-----------------------------------------------------------------------------
(* One clock.                                                                *)

\* The sender: what is sent and what waits are together as before, with the byte
\* written behind them; the flag of the next clock may only be too cautious.
LEMMA SenderClock ==
  ASSUME Types, NEW a, a.value \in Bytes, Clock(a), WritesBuf(a) => ~Full(tx)
  PROVE  /\ tx' \in Seq(Bytes) /\ line'.sent \in Seq(Bytes) /\ Len(tx') < MemDepth
         /\ line'.sent \o tx' = IF WritesBuf(a) THEN Append(line.sent \o tx, a.value)
                                                ELSE line.sent \o tx
         /\ ~WritesBuf(a) => (Full(tx') => txStatus'.full)
         /\ ~WritesBuf(a) /\ ~Full(tx) => ~Full(tx')
<1> USE DEF Types
<1>1. PICK sends \in BOOLEAN :
        /\ Sender(a, sends)
        /\ line'.sent = IF sends THEN Append(line.sent, Head(tx)) ELSE line.sent
  BY DEF Clock, Line
<1> DEFINE rest == IF sends THEN Tail(tx) ELSE tx
<1>2. sends => tx # <<>>
  BY <1>1 DEF Sender, Empty
<1>3. tx' = IF WritesBuf(a) THEN Append(rest, a.value) ELSE rest
  BY <1>1, <1>2 DEF Sender, Queued, Empty
<1>4. /\ rest \in Seq(Bytes) /\ line'.sent \in Seq(Bytes) /\ line'.sent \o rest = line.sent \o tx
      /\ Len(rest) = IF sends THEN Len(tx) - 1 ELSE Len(tx)
      /\ Len(tx) \in Nat
  <2>1. CASE sends
    <3>1. Head(tx) \in Bytes /\ Tail(tx) \in Seq(Bytes) /\ Len(Tail(tx)) = Len(tx) - 1
      BY <1>2, <2>1, HeadTailProperties
    <3>2. line'.sent = Append(line.sent, Head(tx)) /\ rest = Tail(tx)
      BY <1>1, <2>1
    <3>3. Append(line.sent, Head(tx)) \o Tail(tx) = line.sent \o tx
      <4>1. line.sent \in Seq(Bytes) /\ tx \in Seq(Bytes) /\ tx # <<>>
        BY <1>2, <2>1
      <4> QED
        BY ONLY <4>1, MoveHead
    <3>4. line'.sent \in Seq(Bytes)
      <4>1. line.sent \in Seq(Bytes)
        OBVIOUS
      <4>2. Append(line.sent, Head(tx)) \in Seq(Bytes)
        BY ONLY <3>1, <4>1, AppendProperties
      <4> QED
        BY <3>2, <4>2
    <3>5. Len(tx) \in Nat
      BY LenProperties
    <3> QED
      BY <2>1, <3>1, <3>2, <3>3, <3>4, <3>5
  <2>2. CASE ~sends
    BY <1>1, <2>2, LenProperties
  <2> QED
    BY <2>1, <2>2
<1>5. tx' \in Seq(Bytes) /\ Len(tx') = IF WritesBuf(a) THEN Len(rest) + 1 ELSE Len(rest)
  BY <1>3, <1>4, AppendProperties
<1>6. line'.sent \o tx' = IF WritesBuf(a) THEN Append(line.sent \o tx, a.value)
                                          ELSE line.sent \o tx
  <2>1. CASE WritesBuf(a)
    <3> DEFINE sent == line'.sent
               byte == a.value
    <3>1. sent \o Append(rest, byte) = Append(sent \o rest, byte)
      <4>1. sent \in Seq(Bytes) /\ rest \in Seq(Bytes) /\ byte \in Bytes
        BY <1>4
      <4> HIDE DEF rest, sent, byte
      <4> QED
        BY ONLY <4>1, AppendRight
    <3> QED
      BY <1>3, <1>4, <2>1, <3>1
  <2>2. CASE ~WritesBuf(a)
    BY <1>3, <1>4, <2>2
  <2> QED
    BY <2>1, <2>2
<1>7. Len(tx') < MemDepth /\ (~WritesBuf(a) /\ Full(tx') => Full(tx))
  BY <1>4, <1>5, UartAssumption DEF Full
<1>8. txStatus'.full = Full(tx)
  BY <1>1 DEF Sender
<1> QED
  BY <1>4, <1>5, <1>6, <1>7, <1>8

\* The receiver, likewise.
LEMMA ReceiverClock ==
  ASSUME Types, NEW a, Clock(a), ReadsBuf(a) => ~Empty(rx)
  PROVE  /\ rx' \in Seq(Bytes) /\ line'.kept \in Seq(Bytes) /\ line'.arrivals \in Nat
         /\ Len(rx') < MemDepth
         /\ line.kept = taken \o rx =>
              line'.kept = (IF ReadsBuf(a) THEN Append(taken, Head(rx)) ELSE taken) \o rx'
         /\ ~ReadsBuf(a) => (Empty(rx') => rxStatus'.empty)
         /\ ~ReadsBuf(a) /\ ~Empty(rx) => ~Empty(rx')
<1> USE DEF Types
<1>1. PICK arrives \in BOOLEAN :
        /\ Receiver(a, arrives)
        /\ line'.kept = IF arrives /\ ~Full(rx) THEN Append(line.kept, line.arrivals + 1) ELSE line.kept
        /\ line'.arrivals = line.arrivals + (IF arrives THEN 1 ELSE 0)
  BY DEF Clock, Line
<1> DEFINE byte == line.arrivals + 1
           rest == IF ReadsBuf(a) THEN Tail(rx) ELSE rx
           before == IF ReadsBuf(a) THEN Append(taken, Head(rx)) ELSE taken
           keeps == arrives /\ ~Full(rx)
<1>2. rx' = IF keeps THEN Append(rest, byte) ELSE rest
  BY <1>1 DEF Receiver, Queued, Empty
<1>3. /\ rest \in Seq(Bytes) /\ before \in Seq(Bytes) /\ before \o rest = taken \o rx
      /\ Len(rest) = IF ReadsBuf(a) THEN Len(rx) - 1 ELSE Len(rx)
      /\ Len(rx) \in Nat
  <2>1. CASE ReadsBuf(a)
    BY <2>1, MoveHead, HeadTailProperties, AppendProperties, EmptySeq DEF Empty
  <2>2. CASE ~ReadsBuf(a)
    BY <2>2, LenProperties
  <2> QED
    BY <2>1, <2>2
<1>4. byte \in Bytes /\ line'.arrivals \in Nat
  BY <1>1 DEF Bytes
<1>5. /\ rx' \in Seq(Bytes) /\ line'.kept \in Seq(Bytes)
      /\ Len(rx') = IF keeps THEN Len(rest) + 1 ELSE Len(rest)
  BY <1>1, <1>2, <1>3, <1>4, AppendProperties
<1>6. line.kept = taken \o rx => line'.kept = before \o rx'
  <2>1. CASE keeps
    <3>1. before \o Append(rest, byte) = Append(before \o rest, byte)
      <4>1. before \in Seq(Bytes) /\ rest \in Seq(Bytes) /\ byte \in Bytes
        BY <1>3, <1>4
      <4> HIDE DEF rest, before, byte
      <4> QED
        BY ONLY <4>1, AppendRight
    <3>2. line.kept = taken \o rx => Append(line.kept, byte) = before \o Append(rest, byte)
      BY <1>3, <3>1
    <3> QED
      BY <1>1, <1>2, <2>1, <3>2
  <2>2. CASE ~keeps
    BY <1>1, <1>2, <1>3, <2>2
  <2> QED
    BY <2>1, <2>2
<1>7. Len(rx') < MemDepth
  BY <1>3, <1>5, UartAssumption DEF Full
<1>8. ~ReadsBuf(a) => (Empty(rx') => Empty(rx))
  BY <1>2, <1>3, <1>4, AppendProperties DEF Empty
<1>9. rxStatus'.empty = Empty(rx)
  BY <1>1 DEF Receiver
<1> QED
  BY <1>4, <1>5, <1>6, <1>7, <1>8, <1>9

-----------------------------------------------------------------------------
(* The invariant.                                                            *)

Quiet(a) == ~WritesBuf(a) /\ ~ReadsBuf(a) /\ a.value \in Bytes

\* A clock without a read or write of a buffer, in which no byte changes hands
LEMMA QuietClock ==
  ASSUME IInv, NEW a, Quiet(a), Clock(a)
  PROVE  /\ {rx, tx, line.sent, line.kept}' \subseteq Seq(Bytes)
         /\ line'.arrivals \in Nat /\ Len(tx') < MemDepth /\ Len(rx') < MemDepth
         /\ Full(tx') => txStatus'.full
         /\ Empty(rx') => rxStatus'.empty
         /\ ~Full(tx) => ~Full(tx')
         /\ ~Empty(rx) => ~Empty(rx')
         /\ line'.sent \o tx' = line.sent \o tx
         /\ line'.kept = taken \o rx'
BY SenderClock, ReceiverClock DEF IInv, Quiet, NoByteLost

LEMMA QuietStep ==
  ASSUME IInv, NEW a, Quiet(a), Clock(a), UNCHANGED <<program, put, taken, ch>>,
         Held' = Held, (pc' = "echo") = (pc = "echo")
  PROVE  Types' /\ NoByteLost'
<1>1. Types'
  BY QuietClock DEF IInv, Types
<1>2. NoByteLost'
  BY QuietClock DEF IInv, NoByteLost
<1> QED
  BY <1>1, <1>2

LEMMA InitOK == Init => IInv
<1> SUFFICES ASSUME Init PROVE IInv
  OBVIOUS
<1>1. Places
  BY GlossAssumption DEF Init, Places
<1>2. Types
  BY UartAssumption, EmptySeq DEF Init, UartInit, Types, Bytes
<1>3. Flags
  BY DEF Init, Flags
<1>4. NoByteLost
  BY DEF Init, UartInit, NoByteLost, Held
<1> QED
  BY <1>1, <1>2, <1>3, <1>4 DEF IInv

LEMMA PlacesKept ==
  ASSUME IInv, [Next]_vars
  PROVE  Places'
<1> USE DEF IInv, Places
<1>1. CASE UNCHANGED software
  BY <1>1 DEF software
<1>2. CASE Library
  BY <1>2 DEF Library, PollTx, WriteTx, SetTxEn, SetRxEn, PollRx, ReadRx, Goes, data
<1>3. CASE program = "plic_test" /\ PlicTest
  BY <1>3 DEF PlicTest, Main, Claim, Drain, Echo, Complete, Goes, Putchar, Getchar, data
<1>4. CASE program = "newlib" /\ Newlib
  BY <1>4 DEF Newlib, SysWrite, SysRead, SysStat, SysExit, Sbrk, WriteLoop, ReadLoop, Call, Returns,
              NoTransfer, Putchar, Getchar
<1> QED
  BY <1>1, <1>2, <1>3, <1>4 DEF Next, Pause, Processor, vars

\* uart_putchar is entered: the byte is in hand now.
LEMMA PutStep ==
  ASSUME IInv, Clock(NoAccess), NEW byte \in Bytes, NEW next, Putchar(byte, next),
         pc \in {"echo", "write"}, pc = "echo" => byte = ch, UNCHANGED program
  PROVE  Types' /\ Flags' /\ NoByteLost'
<1>1. Quiet(NoAccess)
  BY DEF Quiet, NoAccess, Access, WritesBuf, ReadsBuf, Bytes
<1>2. /\ pc' = "tx.poll" /\ ch' = byte /\ put' = Append(put, byte) /\ taken' = taken
      /\ Held = <<>> /\ Held' = <<byte>>
  BY DEF Putchar, Held
<1>3. /\ line.sent \o tx \in Seq(Bytes) /\ put = line.sent \o tx
      /\ put' = line.sent \o tx \o <<byte>>
  <2>1. line.sent \o tx \in Seq(Bytes)
    BY ConcatProperties DEF IInv, Types
  <2>2. put = line.sent \o tx
    BY <1>2, <2>1, ConcatEmptySeq DEF IInv, NoByteLost
  <2> QED
    BY <1>2, <2>1, <2>2, AppendIsConcat
<1>4. Types'
  <2>1. put' \in Seq(Bytes)
    BY <1>2, AppendProperties DEF IInv, Types
  <2> QED
    BY <1>1, <1>2, <2>1, QuietClock DEF IInv, Types
<1>5. Flags'
  BY <1>1, <1>2, QuietClock DEF Flags
<1>6. NoByteLost'
  <2>1. program = "plic_test" => taken = put \o (IF pc = "echo" THEN <<ch>> ELSE <<>>)
    BY DEF IInv, NoByteLost
  <2>2. program = "plic_test" => pc = "echo"
    BY DEF IInv, Places
  <2>3. program' = "plic_test" => taken' = put'
    BY <1>2, <1>3, <2>1, <2>2
  <2>4. put' \in Seq(Bytes)
    BY <1>4 DEF Types
  <2>5. put' \o <<>> = put'
    BY <2>4, ConcatEmptySeq
  <2> QED
    BY <1>1, <1>2, <1>3, <2>3, <2>5, QuietClock DEF NoByteLost
<1> QED
  BY <1>4, <1>5, <1>6

LEMMA WriteStep ==
  ASSUME IInv, WriteTx
  PROVE  Types' /\ Flags' /\ NoByteLost'
<1> DEFINE a == Access("tx.write", ch)
<1>1. /\ pc = "tx.buf" /\ pc' = "tx.stat" /\ Clock(a)
      /\ UNCHANGED <<program, ch, put, taken>>
  BY DEF WriteTx, Goes, data
<1>2. a.value = ch /\ ch \in Bytes /\ WritesBuf(a) /\ ~ReadsBuf(a) /\ ~Full(tx) /\ Types
  BY <1>1 DEF Access, WritesBuf, ReadsBuf, IInv, Types, Flags
<1> HIDE DEF a
<1>3. /\ tx' \in Seq(Bytes) /\ line'.sent \in Seq(Bytes) /\ Len(tx') < MemDepth
      /\ line'.sent \o tx' = Append(line.sent \o tx, ch)
  BY <1>1, <1>2, SenderClock
<1>4. /\ rx' \in Seq(Bytes) /\ line'.kept \in Seq(Bytes) /\ line'.arrivals \in Nat
      /\ Len(rx') < MemDepth /\ line'.kept = taken \o rx' /\ (Empty(rx') => rxStatus'.empty)
  BY <1>1, <1>2, ReceiverClock DEF IInv, NoByteLost
<1>5. Types' /\ Flags'
  BY <1>1, <1>2, <1>3, <1>4 DEF Types, Flags
<1>6. put = line'.sent \o tx' /\ put \in Seq(Bytes)
  <2>1. put = line.sent \o tx \o <<ch>>
    BY <1>1 DEF IInv, NoByteLost, Held
  <2>2. line.sent \o tx \in Seq(Bytes)
    BY <1>2, ConcatProperties DEF Types
  <2> QED
    BY <1>2, <1>3, <2>1, <2>2, AppendIsConcat DEF Types
<1>7. put \o <<>> = put
  BY <1>6, ConcatEmptySeq
<1> QED
  BY <1>1, <1>4, <1>5, <1>6, <1>7 DEF IInv, NoByteLost, Held

LEMMA ReadStep ==
  ASSUME IInv, ReadRx
  PROVE  Types' /\ Flags' /\ NoByteLost'
<1> DEFINE a == Access("rx.read", 0)
<1>1. /\ pc = "rx.buf" /\ pc' = back /\ back \in {"echo", "read"} /\ Clock(a)
      /\ (program = "plic_test" => back = "echo")
      /\ UNCHANGED <<program, put>>
  BY DEF ReadRx, Goes, data, IInv, Places
<1>2. a.value \in Bytes /\ ReadsBuf(a) /\ ~WritesBuf(a) /\ ~Empty(rx) /\ Types
  BY <1>1 DEF Access, WritesBuf, ReadsBuf, IInv, Flags, Bytes
<1> HIDE DEF a
<1>3. ch' = Head(rx) /\ taken' = Append(taken, ch') /\ ch' \in Bytes
  BY <1>2, HeadTailProperties DEF ReadRx, Empty, Types
<1>4. /\ tx' \in Seq(Bytes) /\ line'.sent \in Seq(Bytes) /\ Len(tx') < MemDepth
      /\ line'.sent \o tx' = line.sent \o tx /\ (Full(tx') => txStatus'.full)
  BY <1>1, <1>2, SenderClock
<1>5. /\ rx' \in Seq(Bytes) /\ line'.kept \in Seq(Bytes) /\ line'.arrivals \in Nat
      /\ Len(rx') < MemDepth /\ line'.kept = taken' \o rx'
  BY <1>1, <1>2, <1>3, ReceiverClock DEF IInv, NoByteLost
<1>6. taken' \in Seq(Bytes)
  BY <1>2, <1>3, AppendProperties DEF Types
<1>7. Types' /\ Flags'
  BY <1>1, <1>2, <1>3, <1>4, <1>5, <1>6 DEF Types, Flags
<1>8. program = "plic_test" => taken' = put \o <<ch'>>
  <2>1. program = "plic_test" => taken = put \o <<>>
    BY <1>1 DEF IInv, NoByteLost
  <2>2. put \o <<>> = put
    BY <1>2, ConcatEmptySeq DEF Types
  <2> QED
    BY <1>2, <1>3, <2>1, <2>2, AppendIsConcat DEF Types
<1> QED
  BY <1>1, <1>4, <1>5, <1>7, <1>8 DEF IInv, NoByteLost, Held

\* The flags after a quiet clock: what matters is where it leads.
LEMMA QuietFlags ==
  ASSUME IInv, NEW a, Quiet(a), Clock(a),
         pc' = "tx.buf" => pc = "tx.buf" \/ (pc = "tx.poll" /\ ~txStatus.full),
         pc' = "rx.buf" => pc = "rx.buf" \/ (pc = "rx.poll" /\ ~rxStatus.empty)
  PROVE  Flags'
BY QuietClock DEF IInv, Flags

LEMMA QuietAccess ==
  ASSUME NEW reg \in {"none", "tx.stat", "tx.en", "rx.stat", "rx.en", "rx.threshold",
                      "plic.claim", "plic.complete"}, NEW value \in {0, 1}
  PROVE  Quiet(Access(reg, value))
BY DEF Quiet, Access, WritesBuf, ReadsBuf, Bytes

LEMMA LibraryStep ==
  ASSUME IInv, PollTx \/ SetTxEn \/ SetRxEn \/ PollRx
  PROVE  Types' /\ Flags' /\ NoByteLost'
<1>1. PICK a : Quiet(a) /\ Clock(a)
  BY QuietAccess DEF PollTx, SetTxEn, SetRxEn, PollRx, Goes
<1>2. /\ UNCHANGED <<program, ch, put, taken>>
      /\ Held' = Held /\ (pc' = "echo") = (pc = "echo")
      /\ pc' = "tx.buf" => pc = "tx.buf" \/ (pc = "tx.poll" /\ ~txStatus.full)
      /\ pc' = "rx.buf" => pc = "rx.buf" \/ (pc = "rx.poll" /\ ~rxStatus.empty)
  BY DEF PollTx, SetTxEn, SetRxEn, PollRx, Goes, data, Held, IInv, Places
<1> QED
  BY <1>1, <1>2, QuietStep, QuietFlags

LEMMA PlicTestStep ==
  ASSUME IInv, program = "plic_test", PlicTest
  PROVE  Types' /\ Flags' /\ NoByteLost'
<1>1. CASE Main \/ Claim \/ Drain \/ Complete
  <2>1. PICK a : Quiet(a) /\ Clock(a)
    BY <1>1, QuietAccess DEF Main, Claim, Drain, Complete, Goes, NoAccess
  <2>2. /\ UNCHANGED <<program, ch, put, taken>>
        /\ Held' = Held /\ pc' # "echo" /\ pc # "echo" /\ pc' \notin {"tx.buf", "rx.buf"}
    BY <1>1 DEF Main, Claim, Drain, Complete, Getchar, Goes, data, Held
  <2> QED
    BY <2>1, <2>2, QuietStep, QuietFlags
<1>2. CASE Echo
  BY <1>2, PutStep DEF Echo, data, IInv, Types
<1> QED
  BY <1>1, <1>2 DEF PlicTest

LEMMA NewlibStep ==
  ASSUME IInv, program = "newlib", Newlib
  PROVE  Types' /\ Flags' /\ NoByteLost'
<1>1. CASE Clock(NoAccess) /\ pc \notin {"echo", "tx.poll", "tx.buf"}
             /\ pc' \notin {"echo", "tx.poll", "tx.buf", "rx.buf"}
             /\ UNCHANGED <<program, ch, put, taken>>
  <2>1. Quiet(NoAccess) /\ Held' = Held
    BY <1>1, QuietAccess DEF NoAccess, Held
  <2> QED
    BY <1>1, <2>1, QuietStep, QuietFlags
<1>2. CASE WriteLoop /\ left # 0
  <2>1. Len(put) + 1 \in Bytes
    BY LenProperties DEF IInv, Types, Bytes
  <2> QED
    BY <1>2, <2>1, PutStep DEF WriteLoop
<1>3. CASE Newlib /\ ~(WriteLoop /\ left # 0)
  BY <1>1, <1>3 DEF Newlib, SysWrite, SysRead, SysStat, SysExit, Sbrk, WriteLoop, ReadLoop, Call,
                    Returns, NoTransfer, Getchar
<1> QED
  BY <1>2, <1>3

LEMMA NextOK == IInv /\ [Next]_vars => IInv'
<1> SUFFICES ASSUME IInv, [Next]_vars PROVE IInv'
  OBVIOUS
<1>1. Types' /\ Flags' /\ NoByteLost'
  <2>1. CASE UNCHANGED vars
    BY <2>1 DEF vars, uart, software, IInv, Types, Flags, NoByteLost, Held, Full, Empty
  <2>2. CASE Pause
    <3>1. Quiet(NoAccess) /\ Held' = Held
      BY <2>2, QuietAccess DEF NoAccess, Pause, software, Held
    <3> QED
      BY <2>2, <3>1, QuietStep, QuietFlags DEF Pause, software
  <2>3. CASE Library
    BY <2>3, LibraryStep, WriteStep, ReadStep DEF Library
  <2> QED
    BY <2>1, <2>2, <2>3, PlicTestStep, NewlibStep DEF Next, Processor
<1> QED
  BY <1>1, PlacesKept DEF IInv

LEMMA Invariant == Spec => []IInv
<1> QED
  BY InitOK, NextOK, PTL DEF Spec

\* However deep the FIFOs and whatever is called, typed and taken off the wire,
\* every byte given to uart_putchar goes out in order and every byte that was
\* kept is read in order, although the flags the library looks at are a clock
\* old; the echo program returns what it reads.
THEOREM NoByteIsLost == Spec => []NoByteLost
<1>1. IInv => NoByteLost
  BY DEF IInv
<1> QED
  BY <1>1, Invariant, PTL

-----------------------------------------------------------------------------
(* The level of the receiver's queue.                                        *)

LEMMA StepIsClock ==
  ASSUME Next
  PROVE  \E a : Clock(a)
<1>1. CASE Pause \/ Library
  BY <1>1 DEF Pause, Library, PollTx, WriteTx, SetTxEn, SetRxEn, PollRx, ReadRx, Goes
<1>2. CASE PlicTest
  BY <1>2 DEF PlicTest, Main, Claim, Drain, Echo, Complete, Goes
<1>3. CASE Newlib
  BY <1>3 DEF Newlib, SysWrite, SysRead, SysStat, SysExit, Sbrk, WriteLoop, ReadLoop, Call
<1> QED
  BY <1>1, <1>2, <1>3 DEF Next, Processor

LEMMA SmallMod ==
  ASSUME NEW n \in Nat, n < CountMod
  PROVE  n % CountMod = n
BY UartAssumption

LEMMA LevelStep ==
  ASSUME IInv, LevelAgrees, NEW a, Clock(a)
  PROVE  LevelAgrees'
<1> SUFFICES ASSUME ~line'.confused PROVE bufcnt' = Len(rx')
  BY DEF LevelAgrees
<1>1. PICK arrives \in BOOLEAN :
        /\ Counted(arrives, ReadsBuf(a))
        /\ rx' = Queued(rx, ReadsBuf(a), arrives, line.arrivals + 1)
        /\ line'.confused = \/ line.confused
                            \/ arrives /\ (Full(rx) \/ ReadsBuf(a))
                            \/ ReadsBuf(a) /\ Empty(rx)
  BY DEF Clock, Receiver, Line
<1>2. /\ bufcnt = Len(rx) /\ Len(rx) \in Nat /\ Len(rx) < MemDepth /\ rx \in Seq(Bytes)
      /\ line.arrivals + 1 \in Bytes
  BY <1>1, LenProperties DEF LevelAgrees, IInv, Types, Bytes
<1>3. CASE arrives
  <2>1. ~Full(rx) /\ ~ReadsBuf(a)
    BY <1>1, <1>3
  <2>2. rx' = Append(rx, line.arrivals + 1)
    BY <1>1, <1>3, <2>1 DEF Queued
  <2>3. Len(rx') = Len(rx) + 1 /\ Len(rx) + 1 < CountMod
    BY <1>2, <2>1, <2>2, AppendProperties, UartAssumption DEF Full
  <2>4. bufcnt' = (Len(rx) + 1) % CountMod
    BY <1>1, <1>2, <1>3, <2>1 DEF Counted
  <2> QED
    BY <1>2, <2>3, <2>4, SmallMod
<1>4. CASE ~arrives /\ ReadsBuf(a)
  <2>1. rx # <<>> /\ rx' = Tail(rx)
    BY <1>1, <1>4 DEF Queued, Empty
  <2>2. Len(rx') = Len(rx) - 1 /\ Len(rx') \in Nat /\ Len(rx') < CountMod
    BY <1>2, <2>1, HeadTailProperties, LenProperties, UartAssumption
  <2>3. bufcnt' = (Len(rx) - 1) % CountMod
    BY <1>1, <1>2, <1>4 DEF Counted
  <2> QED
    BY <2>2, <2>3, SmallMod
<1>5. CASE ~arrives /\ ~ReadsBuf(a)
  <2>1. rx' = rx /\ Len(rx) < CountMod
    BY <1>1, <1>2, <1>5, UartAssumption DEF Queued
  <2>2. bufcnt' = Len(rx) % CountMod
    BY <1>1, <1>2, <1>5 DEF Counted
  <2> QED
    BY <1>2, <2>1, <2>2, SmallMod
<1> QED
  BY <1>3, <1>4, <1>5

\* The count the interrupt depends on is the level of the queue, for any depth
\* the count has room for, as long as no byte was dropped, no empty queue read
\* and no byte came in the clock of a read.
THEOREM LevelIsCounted == Spec => []LevelAgrees
<1>1. Init => LevelAgrees
  BY DEF Init, UartInit, LevelAgrees
<1>2. IInv /\ LevelAgrees /\ [Next]_vars => LevelAgrees'
  <2> SUFFICES ASSUME IInv, LevelAgrees, [Next]_vars PROVE LevelAgrees'
    OBVIOUS
  <2>1. CASE UNCHANGED vars
    BY <2>1 DEF vars, uart, LevelAgrees
  <2> QED
    BY <2>1, StepIsClock, LevelStep
<1> QED
  BY <1>1, <1>2, Invariant, PTL DEF Spec

-----------------------------------------------------------------------------
(* The heap.                                                                 *)

HeapOK ==
  /\ heap \in 0 .. HeapEnd
  /\ \A a \in areas : {a.from, a.to} \subseteq Nat /\ a.from <= a.to /\ a.to <= heap
  /\ AreasApart

LEMMA HeapStep ==
  ASSUME Increments \subseteq Nat, HeapOK, [Next]_vars
  PROVE  HeapOK'
<1> USE GlossAssumption DEF HeapOK, AreasApart
<1>1. CASE UNCHANGED <<heap, areas>>
  BY <1>1
<1>2. CASE \E increment \in Increments : Sbrk(increment)
  <2>1. PICK increment \in Increments : Sbrk(increment)
    BY <1>2
  <2>2. CASE heap + increment < HeapEnd
    <3> DEFINE area == [from |-> heap, to |-> heap + increment]
    <3>1. heap' = heap + increment /\ areas' = areas \cup {area} /\ increment \in Nat
      BY <2>1, <2>2 DEF Sbrk
    <3>2. area.from = heap /\ area.to = heap'
      BY <3>1
    <3> HIDE DEF area
    <3>3. heap' \in 0 .. HeapEnd /\ heap <= heap'
      BY <2>2, <3>1
    <3>4. \A a \in areas' : {a.from, a.to} \subseteq Nat /\ a.from <= a.to /\ a.to <= heap'
      BY <3>1, <3>2, <3>3
    <3>5. ASSUME NEW a \in areas', NEW b \in areas', a # b
          PROVE  a.to <= b.from \/ b.to <= a.from
      BY <3>1, <3>2, <3>5
    <3> QED
      BY <3>3, <3>4, <3>5
  <2>3. CASE ~(heap + increment < HeapEnd)
    BY <2>1, <2>3 DEF Sbrk
  <2> QED
    BY <2>2, <2>3
<1>3. CASE Pause \/ Library \/ PlicTest \/ UNCHANGED vars
  BY <1>1, <1>3 DEF Pause, Library, PlicTest, PollTx, WriteTx, SetTxEn, SetRxEn, PollRx, ReadRx,
                    Main, Claim, Drain, Echo, Complete, data, software, vars
<1>4. CASE Newlib
  BY <1>1, <1>2, <1>4 DEF Newlib, SysWrite, SysRead, SysStat, SysExit, WriteLoop, ReadLoop
<1> QED
  BY <1>3, <1>4 DEF Next, Processor

\* The areas _sbrk hands out are in the heap and apart, for any heap and any
\* increments that are not negative.
THEOREM AreasAreApart == Increments \subseteq Nat => (Spec => []AreasApart)
<1> SUFFICES ASSUME Increments \subseteq Nat PROVE Spec => []AreasApart
  OBVIOUS
<1>1. Init => HeapOK
  BY GlossAssumption DEF Init, HeapOK, AreasApart
<1>2. HeapOK /\ [Next]_vars => HeapOK'
  BY HeapStep
<1>3. HeapOK => AreasApart
  BY DEF HeapOK
<1> QED
  BY <1>1, <1>2, <1>3, PTL DEF Spec
=============================================================================
