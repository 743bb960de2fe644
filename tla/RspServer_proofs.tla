--------------------------- MODULE RspServer_proofs ---------------------------
(***************************************************************************)
(* The debugging server implements DebugSession, for any requests, any     *)
(* memory and any behaviour of the client.                                 *)
(***************************************************************************)
EXTENDS RspServer, SequenceTheorems, TLAPS

Requests == [cmd : {"text", "X", "m", "unknown"}, adr : Nat, data : Seq(Bytes)]

\* Requests whose data lie in Adrs
Sound == {r \in Requests : \A k \in DOMAIN r.data : r.adr + k - 1 \in Adrs}

Tokens == {t \in [kind : Kinds, req : Sound \cup {NoRequest}, answer : {NoAnswer}] :
             t.kind = "body" => t.req \in Sound}

Areas == [origin : Nat, mem : Seq(Bytes)]

\* There is a first entry for every address that is in one.
HasFirst(list, a) ==
  Entries(list, a) # {} => \E i \in Entries(list, a) : \A j \in Entries(list, a) : i <= j
ListOK(list) ==
  /\ list \in Seq(Areas)
  /\ \A i \in DOMAIN list : \A k \in DOMAIN list[i].mem : list[i].origin + k - 1 \in Adrs
  /\ \A a \in Nat : HasFirst(list, a)

ServerOK ==
  /\ pc \in {"listen", "packet", "body", "checksum", "dispatch", "ack", "stuck", "exited"}
  /\ (given # NoAnswer) = (pc \in {"ack", "stuck"})
  /\ pc \in {"checksum", "dispatch"} => buf \in Sound
ClientOK ==
  /\ toServer \in Seq(Tokens)
  /\ client = "sent" => asked \in Sound

IInv == ServerOK /\ ClientOK /\ ListOK(regions)

-----------------------------------------------------------------------------
(* The memory list.                                                          *)

LEMMA FirstIs ==
  ASSUME NEW S \in SUBSET Nat, NEW i \in S, \A j \in S : i <= j
  PROVE  First(S) = i
<1>1. \E k \in S : \A j \in S : k <= j
  OBVIOUS
<1>2. First(S) \in S /\ \A j \in S : First(S) <= j
  BY <1>1 DEF First
<1>3. First(S) \in Nat /\ i \in Nat /\ First(S) <= i /\ i <= First(S)
  BY <1>2
<1> QED
  BY <1>3

\* What is found at an address after an area was added: what was there before,
\* or else the byte of the new area.
LEMMA Extended ==
  ASSUME NEW list, ListOK(list), NEW adr \in Nat, NEW data \in Seq(Bytes), NEW a \in Nat
  PROVE  /\ HasFirst(InsertNewMem(list, adr, data), a)
         /\ ReadByte(InsertNewMem(list, adr, data), a) =
              IF Entries(list, a) # {} THEN ReadByte(list, a)
              ELSE IF a - adr + 1 \in DOMAIN data THEN data[a - adr + 1] ELSE Unmapped
<1> DEFINE new == InsertNewMem(list, adr, data)
           area == [origin |-> adr, mem |-> data]
           n == Len(list)
<1>1. area \in Areas
  BY DEF Areas
<1>2. /\ list \in Seq(Areas) /\ n \in Nat /\ DOMAIN list = 1 .. n
      /\ new \in Seq(Areas) /\ DOMAIN new = 1 .. n + 1
      /\ \A i \in 1 .. n : new[i] = list[i]
      /\ new[n + 1] = area
  BY <1>1, AppendProperties, LenProperties DEF InsertNewMem, ListOK
<1>3. Covers(area, a) <=> a - adr + 1 \in DOMAIN data
  BY LenProperties DEF Covers
<1>4. Entries(new, a) = Entries(list, a) \cup (IF Covers(area, a) THEN {n + 1} ELSE {})
  BY <1>2 DEF Entries
<1>5. Entries(list, a) \subseteq 1 .. n
  BY <1>2 DEF Entries
<1>6. CASE Entries(list, a) # {}
  <2>1. PICK i \in Entries(list, a) : \A j \in Entries(list, a) : i <= j
    BY <1>6 DEF ListOK, HasFirst
  <2>2. i \in Entries(new, a) /\ \A j \in Entries(new, a) : i <= j
    BY <2>1, <1>4, <1>5, <1>2
  <2>3. Entries(list, a) \in SUBSET Nat /\ Entries(new, a) \in SUBSET Nat
    BY <1>2, <1>4, <1>5
  <2>4. First(Entries(list, a)) = i
    BY <2>1, <2>3, FirstIs
  <2>5. First(Entries(new, a)) = i
    BY <2>2, <2>3, FirstIs
  <2>6. new[i] = list[i]
    BY <2>1, <1>5, <1>2
  <2> QED
    BY <1>6, <2>2, <2>4, <2>5, <2>6 DEF ReadByte, HasFirst
<1>7. CASE Entries(list, a) = {} /\ a - adr + 1 \in DOMAIN data
  <2>1. Entries(new, a) = {n + 1}
    BY <1>7, <1>3, <1>4
  <2>2. First(Entries(new, a)) = n + 1
    BY <2>1, <1>2, FirstIs
  <2> QED
    BY <1>7, <2>1, <2>2, <1>2 DEF ReadByte, HasFirst
<1>8. CASE Entries(list, a) = {} /\ a - adr + 1 \notin DOMAIN data
  BY <1>8, <1>3, <1>4 DEF ReadByte, HasFirst
<1> QED
  BY <1>6, <1>7, <1>8

\* A byte of the list is a byte; it lies in Adrs.
LEMMA ByteType ==
  ASSUME NEW list, ListOK(list), NEW a \in Nat
  PROVE  /\ Entries(list, a) # {} => ReadByte(list, a) \in Bytes /\ a \in Adrs
         /\ Entries(list, a) = {} => ReadByte(list, a) = Unmapped
<1>1. CASE Entries(list, a) # {}
  <2>1. PICK i \in Entries(list, a) : \A j \in Entries(list, a) : i <= j
    BY <1>1 DEF ListOK, HasFirst
  <2>2. Entries(list, a) \subseteq DOMAIN list /\ DOMAIN list \subseteq Nat
    BY LenProperties DEF Entries, ListOK
  <2>3. First(Entries(list, a)) = i
    BY <2>1, <2>2, FirstIs
  <2>4. list[i] \in Areas /\ Covers(list[i], a)
    BY <2>1, <2>2, LenProperties, ElementOfSeq DEF Entries, ListOK
  <2>5. /\ a - list[i].origin + 1 \in DOMAIN list[i].mem
        /\ list[i].mem[a - list[i].origin + 1] \in Bytes
    BY <2>4, LenProperties, ElementOfSeq DEF Covers, Areas
  <2>6. list[i].origin + (a - list[i].origin + 1) - 1 \in Adrs
    BY <2>2, <2>5 DEF ListOK
  <2>7. list[i].origin + (a - list[i].origin + 1) - 1 = a
    BY <2>4 DEF Areas
  <2> QED
    BY <1>1, <2>3, <2>5, <2>6, <2>7 DEF ReadByte
<1>2. CASE Entries(list, a) = {}
  BY <1>2 DEF ReadByte
<1> QED
  BY <1>1, <1>2

LEMMA InsertOK ==
  ASSUME ListOK(regions), NEW r \in Sound
  PROVE  ListOK(InsertNewMem(regions, r.adr, r.data))
<1> DEFINE new == InsertNewMem(regions, r.adr, r.data)
           area == [origin |-> r.adr, mem |-> r.data]
           n == Len(regions)
<1>1. r.adr \in Nat /\ r.data \in Seq(Bytes) /\ area \in Areas
  BY DEF Sound, Requests, Areas
<1>2. /\ n \in Nat /\ DOMAIN regions = 1 .. n
      /\ new \in Seq(Areas) /\ DOMAIN new = 1 .. n + 1
      /\ \A i \in 1 .. n : new[i] = regions[i]
      /\ new[n + 1] = area
  BY <1>1, AppendProperties, LenProperties DEF InsertNewMem, ListOK
<1>3. ASSUME NEW i \in DOMAIN new, NEW k \in DOMAIN new[i].mem
      PROVE  new[i].origin + k - 1 \in Adrs
  <2>1. CASE i \in 1 .. n
    BY <2>1, <1>2, <1>3 DEF ListOK
  <2>2. CASE i = n + 1
    BY <2>2, <1>2, <1>3 DEF Sound
  <2> QED
    BY <2>1, <2>2, <1>2
<1>4. \A a \in Nat : HasFirst(new, a)
  BY <1>1, Extended
<1> QED
  BY <1>2, <1>3, <1>4 DEF ListOK

-----------------------------------------------------------------------------
(* The connection.                                                           *)

LEMMA CharType ==
  ASSUME NEW kind \in Kinds \ {"body"}
  PROVE  Char(kind) \in Tokens
BY DEF Char, Token, Tokens

LEMMA GetsType ==
  ASSUME toServer \in Seq(Tokens), NEW kinds, Gets(kinds)
  PROVE  Head(toServer) \in Tokens /\ toServer' \in Seq(Tokens)
BY HeadTailProperties DEF Gets

LEMMA PacketType ==
  ASSUME toServer \in Seq(Tokens), NEW r \in Sound
  PROVE  toServer \o Packet(r) \in Seq(Tokens)
<1>1. Char("$") \in Tokens /\ Char("#") \in Tokens
  BY CharType DEF Kinds
<1>2. Token("body", r, NoAnswer) \in Tokens
  BY DEF Token, Tokens, Kinds
<1>3. Packet(r) \in Seq(Tokens)
  BY <1>1, <1>2 DEF Packet
<1> QED
  BY <1>3, ConcatProperties

LEMMA AskSound ==
  ASSUME NEW r \in Asks
  PROVE  r \in Sound
BY RspAssumption DEF Sound, Requests

LEMMA LongBody ==
  ASSUME NEW r \in Sound, NEW b \in Bytes
  PROVE  [r EXCEPT !.data = [i \in DOMAIN @ |-> IF i < BufMax THEN @[i] ELSE b]] \in Sound
<1> DEFINE data == [i \in DOMAIN r.data |-> IF i < BufMax THEN r.data[i] ELSE b]
<1>1. r.data \in Seq(Bytes) /\ Len(r.data) \in Nat /\ DOMAIN r.data = 1 .. Len(r.data)
  BY LenProperties DEF Sound, Requests
<1>2. \A i \in 1 .. Len(r.data) : r.data[i] \in Bytes
  BY <1>1, ElementOfSeq
<1>3. data \in [1 .. Len(r.data) -> Bytes]
  BY <1>1, <1>2
<1>4. data \in Seq(Bytes) /\ DOMAIN data = DOMAIN r.data
  BY <1>1, <1>3, SeqDef
<1>5. [r EXCEPT !.data = data] \in Requests
  BY <1>4 DEF Sound, Requests
<1> QED
  BY <1>4, <1>5 DEF Sound, Requests

-----------------------------------------------------------------------------
(* The invariant.                                                            *)

LEMMA InitOK == Init => IInv
<1> SUFFICES ASSUME Init PROVE IInv
  OBVIOUS
<1>1. ServerOK /\ ClientOK
  BY DEF Init, ServerOK, ClientOK
<1>2. Root \in Areas /\ Len(Root.mem) = 0 /\ DOMAIN Root.mem = {} /\ Root.origin = 0
  BY DEF Root, Areas
<1>3. regions \in Seq(Areas) /\ DOMAIN regions = {1} /\ regions[1] = Root
  BY <1>2 DEF Init
<1>4. ASSUME NEW a \in Nat PROVE Entries(regions, a) = {}
  BY <1>2, <1>3 DEF Entries, Covers
<1>5. ListOK(regions)
  BY <1>2, <1>3, <1>4 DEF ListOK, HasFirst
<1> QED
  BY <1>1, <1>5 DEF IInv

LEMMA ListKept ==
  ASSUME IInv, [Next]_vars
  PROVE  ListOK(regions)'
<1>1. CASE regions' = regions
  BY <1>1 DEF IInv, ListOK, HasFirst, Entries, Covers
<1>2. CASE Download
  <2>1. CASE buf.data = <<>>
    BY <1>2, <2>1, <1>1 DEF Download
  <2>2. CASE buf.data # <<>>
    <3>1. regions' = InsertNewMem(regions, buf.adr, buf.data) /\ buf \in Sound
      BY <1>2, <2>2 DEF Download, IInv, ServerOK
    <3> QED
      BY <3>1, InsertOK DEF IInv
  <2> QED
    BY <2>1, <2>2
<1> QED
  BY <1>1, <1>2
     DEF Next, Server, Client, vars, server, Connect, EndOfInput, SkipToPacket, ReadBody,
         ReadLongBody, ReadChecksum, ReplyText, OutOfMemory, ReadMemory, Ignore, TakeAck,
         Acknowledged, Ask, SeeAck, SeeReply, Stray, Resend, Complain, GiveUp, Leave, SeeEnd

LEMMA ServerStep ==
  ASSUME IInv, Server
  PROVE  ServerOK' /\ ClientOK'
<1> USE DEF IInv
<1>1. CASE Connect
  BY <1>1 DEF Connect, ServerOK, ClientOK, connection, clientVars
<1>2. CASE EndOfInput
  BY <1>2 DEF EndOfInput, Exits, ServerOK, ClientOK, connection, clientVars
<1>3. CASE SkipToPacket
  BY <1>3, GetsType DEF SkipToPacket, ServerOK, ClientOK, clientVars
<1>4. CASE ReadBody
  <2>1. Head(toServer) \in Tokens /\ Head(toServer).kind = "body" /\ toServer' \in Seq(Tokens)
    BY <1>4, GetsType DEF ReadBody, Gets, ClientOK
  <2> QED
    BY <1>4, <2>1 DEF ReadBody, Tokens, ServerOK, ClientOK, clientVars
<1>5. CASE ReadLongBody
  <2>1. Head(toServer) \in Tokens /\ Tail(toServer) \in Seq(Tokens)
    BY <1>5, HeadTailProperties DEF ReadLongBody, ClientOK
  <2>2. Char("rest") \in Tokens
    BY CharType DEF Kinds
  <2>3. toServer' \in Seq(Tokens)
    <3>1. <<Char("rest")>> \in Seq(Tokens)
      BY <2>2
    <3> QED
      BY <1>5, <2>1, <3>1, ConcatProperties DEF ReadLongBody
  <2>4. Head(toServer).req \in Sound
    <3>1. Len(NoRequest.data) = 0 /\ BufMax \in Nat
      BY RspAssumption DEF NoRequest
    <3>2. Head(toServer).req # NoRequest
      BY <1>5, <3>1 DEF ReadLongBody, Fits
    <3> QED
      BY <2>1, <3>2 DEF Tokens
  <2>5. UNCHANGED <<client, asked>>
    BY <1>5 DEF ReadLongBody, clientVars
  <2>6. CASE Exits
    BY <2>3, <2>5, <2>6 DEF Exits, ServerOK, ClientOK
  <2>7. CASE ~Exits
    <3>1. PICK b \in Bytes : buf' = [Head(toServer).req EXCEPT !.data =
                                      [i \in DOMAIN @ |-> IF i < BufMax THEN @[i] ELSE b]]
      BY <1>5, <2>7 DEF ReadLongBody
    <3>2. buf' \in Sound
      BY <2>4, <3>1, LongBody
    <3>3. pc' = "dispatch" /\ given' = NoAnswer
      BY <1>5, <2>7 DEF ReadLongBody, Puts, Char, Token
    <3> QED
      BY <2>3, <2>5, <3>2, <3>3 DEF ServerOK, ClientOK
  <2> QED
    BY <2>6, <2>7
<1>6. CASE ReadChecksum
  BY <1>6, GetsType DEF ReadChecksum, Puts, Exits, Char, Token, ServerOK, ClientOK, clientVars
<1>7. CASE ReplyText \/ Download
  BY <1>7 DEF ReplyText, Download, PutPacket, Puts, Exits, Token, Text, NoAnswer, ServerOK, ClientOK,
              clientVars
<1>8. CASE OutOfMemory
  BY <1>8 DEF OutOfMemory, Exits, ServerOK, ClientOK, connection, clientVars
<1>9. CASE ReadMemory
  BY <1>9 DEF ReadMemory, PutPacket, Puts, Exits, Token, NoAnswer, ServerOK, ClientOK, clientVars
<1>10. CASE Ignore
  BY <1>10 DEF Ignore, ServerOK, ClientOK, connection, clientVars
<1>11. CASE TakeAck
  BY <1>11, GetsType DEF TakeAck, Acknowledged, ServerOK, ClientOK, clientVars
<1> QED
  BY <1>1, <1>2, <1>3, <1>4, <1>5, <1>6, <1>7, <1>8, <1>9, <1>10, <1>11 DEF Server

LEMMA ClientStep ==
  ASSUME IInv, Client
  PROVE  ServerOK' /\ ClientOK'
<1> USE DEF IInv, server
<1>1. ServerOK'
  BY DEF Client, Ask, SeeAck, SeeReply, Stray, Resend, Complain, GiveUp, Leave, SeeEnd, ServerOK
<1>2. CASE \E r \in Asks : Ask(r)
  BY <1>1, <1>2, AskSound, PacketType DEF Ask, ClientOK
<1>3. CASE SeeAck \/ Stray \/ GiveUp \/ SeeEnd
  BY <1>1, <1>3 DEF SeeAck, Stray, GiveUp, SeeEnd, connection, clientVars, ClientOK
<1>4. CASE SeeReply
  <2>1. Char("+") \in Tokens
    BY CharType DEF Kinds
  <2> QED
    BY <1>1, <1>4, <2>1, AppendProperties DEF SeeReply, ClientOK
<1>5. CASE Resend
  BY <1>1, <1>5, PacketType DEF Resend, ClientOK
<1>6. CASE \E kind \in {"-", "interrupt"} : Complain(kind)
  <2>1. PICK kind \in {"-", "interrupt"} : Complain(kind)
    BY <1>6
  <2>2. Char(kind) \in Tokens
    BY CharType DEF Kinds
  <2> QED
    BY <1>1, <2>1, <2>2, AppendProperties DEF Complain, ClientOK
<1>7. CASE Leave
  <2>1. PICK n \in 0 .. Len(toServer) : toServer' = SubSeq(toServer, 1, n)
    BY <1>7 DEF Leave
  <2>2. Len(toServer) \in Nat /\ \A i \in 1 .. n : toServer[i] \in Tokens
    BY <2>1, LenProperties, ElementOfSeq DEF ClientOK
  <2>3. toServer' \in Seq(Tokens)
    BY <2>1, <2>2, SubSeqProperties
  <2> QED
    BY <1>1, <1>7, <2>3 DEF Leave, ClientOK
<1> QED
  BY <1>1, <1>2, <1>3, <1>4, <1>5, <1>6, <1>7 DEF Client

LEMMA NextOK == IInv /\ [Next]_vars => IInv'
<1> SUFFICES ASSUME IInv, [Next]_vars PROVE IInv'
  OBVIOUS
<1>1. ServerOK' /\ ClientOK'
  <2>1. CASE UNCHANGED vars
    BY <2>1 DEF vars, connection, server, clientVars, IInv, ServerOK, ClientOK
  <2> QED
    BY <2>1, ServerStep, ClientStep DEF Next
<1> QED
  BY <1>1, ListKept DEF IInv

LEMMA Invariant == Spec => []IInv
<1> QED
  BY InitOK, NextOK, PTL DEF Spec

-----------------------------------------------------------------------------
(* The refinement.                                                           *)

LEMMA InitRefines == Init => Session!Init
<1> SUFFICES ASSUME Init PROVE Session!Init
  OBVIOUS
<1>1. Root.origin = 0 /\ Len(Root.mem) = 0
  BY DEF Root
<1>2. regions = <<Root>> /\ DOMAIN regions = {1} /\ regions[1] = Root
  BY DEF Init
<1>3. ASSUME NEW a \in Adrs PROVE ReadByte(regions, a) = Unmapped
  <2>1. a \in Nat
    BY RspAssumption
  <2>2. Entries(regions, a) = {}
    BY <1>1, <1>2, <2>1 DEF Entries, Covers
  <2> QED
    BY <2>2 DEF ReadByte
<1>4. (pc # "exited") = TRUE /\ (IF pc = "dispatch" THEN buf ELSE NoRequest) = NoRequest
      /\ given = NoAnswer
  BY DEF Init
<1> QED
  BY <1>3, <1>4 DEF Session!Init, Session!NoRequest, Session!NoAnswer, NoRequest, NoAnswer

\* What is found in the list is what a session's memory may hold.
LEMMA ImageType ==
  ASSUME ListOK(regions)
  PROVE  [a \in Adrs |-> ReadByte(regions, a)] \in [Adrs -> Bytes \cup {Unmapped}]
BY ByteType, RspAssumption

LEMMA Closes ==
  ASSUME IInv, IInv', pc # "exited", Exits
  PROVE  Session!Close
<1>1. [a \in Adrs |-> ReadByte(regions', a)] \in [Adrs -> Bytes \cup {Unmapped}]
  <2>1. ListOK(regions)'
    BY DEF IInv
  <2>2. ListOK(regions')
    BY <2>1 DEF ListOK, HasFirst, Entries, Covers
  <2> QED
    BY <2>2, ByteType, RspAssumption
<1>2. pc' = "exited" /\ given' = NoAnswer
  BY DEF Exits
<1> QED
  BY <1>1, <1>2 DEF Session!Close, Session!NoRequest, Session!NoAnswer, NoRequest, NoAnswer

LEMMA Stutters ==
  ASSUME regions' = regions, given' = given, (pc' = "exited") = (pc = "exited"),
         pc # "dispatch", pc' # "dispatch"
  PROVE  UNCHANGED Session!session
BY DEF Session!session

\* A packet read to its end is a request taken.
LEMMA Takes ==
  ASSUME IInv, IInv', pc \in {"body", "checksum"}, pc' = "dispatch", given' = NoAnswer,
         regions' = regions
  PROVE  Session!Take
<1>1. given = NoAnswer /\ buf' \in Sound
  BY DEF IInv, ServerOK
<1>2. buf' \in Session!Requests
  BY <1>1 DEF Sound, Requests, Session!Requests, Session!Commands
<1> QED
  BY <1>1, <1>2 DEF Session!Take, Session!NoRequest, Session!NoAnswer, NoRequest, NoAnswer

LEMMA DownloadRefines ==
  ASSUME IInv, IInv', Download
  PROVE  Session!Download \/ Session!Close
<1>1. CASE Exits
  BY <1>1, Closes DEF Download
<1>2. CASE ~Exits
  <2>1. /\ pc = "dispatch" /\ buf.cmd = "X" /\ pc' = "ack" /\ given' = Text
        /\ buf \in Sound /\ ListOK(regions)
    BY <1>2 DEF Download, PutPacket, Puts, Token, IInv, ServerOK
  <2>2. buf.adr \in Nat /\ buf.data \in Seq(Bytes) /\ DOMAIN buf.data \subseteq Nat
    BY <2>1, LenProperties DEF Sound, Requests
  <2>3. ASSUME NEW a \in Adrs
        PROVE  ReadByte(regions', a) =
                 IF ReadByte(regions, a) = Unmapped /\ a - buf.adr + 1 \in DOMAIN buf.data
                 THEN buf.data[a - buf.adr + 1] ELSE ReadByte(regions, a)
    <3>1. a \in Nat /\ Unmapped \notin Bytes
      BY RspAssumption
    <3>2. (ReadByte(regions, a) = Unmapped) = (Entries(regions, a) = {})
      BY <2>1, <3>1, ByteType
    <3>3. CASE buf.data = <<>>
      <4>1. regions' = regions /\ DOMAIN buf.data = {}
        BY <3>3 DEF Download
      <4> QED
        BY <4>1
    <3>4. CASE buf.data # <<>>
      <4>1. regions' = InsertNewMem(regions, buf.adr, buf.data)
        BY <3>4 DEF Download
      <4> QED
        BY <4>1, <2>1, <2>2, <3>1, <3>2, Extended
    <3> QED
      BY <3>3, <3>4
  <2> QED
    BY <2>1, <2>3 DEF Session!Download, Session!Answered, Session!NoRequest, Session!Text,
                      NoRequest, Text
<1> QED
  BY <1>1, <1>2

\* A word is read from the highest address down, and its bytes are swapped.
LEMMA WordSwapped ==
  ASSUME NEW list, NEW a \in Nat
  PROVE  /\ Readable(ReadWord(list, a)) <=> \A i \in 0 .. Word - 1 : ReadByte(list, a + i) # Unmapped
         /\ Swap32(ReadWord(list, a)) = [i \in 1 .. Word |-> ReadByte(list, a + i - 1)]
<1> DEFINE w == ReadWord(list, a)
<1>1. Word \in Nat
  BY RspAssumption
<1>2. DOMAIN w = 1 .. Word /\ Len(w) = Word /\ \A i \in 1 .. Word : w[i] = ReadByte(list, a + Word - i)
  BY <1>1 DEF ReadWord
<1>3. ASSUME NEW i \in 0 .. Word - 1, Readable(w)
      PROVE  ReadByte(list, a + i) # Unmapped
  <2>1. Word - i \in 1 .. Word /\ a + Word - (Word - i) = a + i
    BY <1>1
  <2> QED
    BY <1>2, <1>3, <2>1 DEF Readable
<1>4. ASSUME NEW i \in 1 .. Word, \A j \in 0 .. Word - 1 : ReadByte(list, a + j) # Unmapped
      PROVE  w[i] # Unmapped
  <2>1. Word - i \in 0 .. Word - 1 /\ a + (Word - i) = a + Word - i
    BY <1>1
  <2> QED
    BY <1>2, <1>4, <2>1
<1>5. ASSUME NEW i \in 1 .. Word
      PROVE  w[Word - i + 1] = ReadByte(list, a + i - 1)
  <2>1. Word - i + 1 \in 1 .. Word /\ a + Word - (Word - i + 1) = a + i - 1
    BY <1>1
  <2> QED
    BY <1>2, <2>1
<1>6. Swap32(w) = [i \in 1 .. Word |-> ReadByte(list, a + i - 1)]
  BY <1>2, <1>5 DEF Swap32, Reverse
<1> QED
  BY <1>2, <1>3, <1>4, <1>6 DEF Readable

LEMMA ReadRefines ==
  ASSUME IInv, IInv', ReadMemory
  PROVE  Session!ReadMemory \/ Session!Close
<1>1. CASE Exits
  BY <1>1, Closes DEF ReadMemory
<1>2. CASE ~Exits
  <2> DEFINE w == ReadWord(regions, buf.adr)
  <2>1. /\ pc = "dispatch" /\ buf.cmd = "m" /\ pc' = "ack" /\ regions' = regions
        /\ Readable(w) /\ given' = [kind |-> "bytes", bytes |-> Swap32(w)]
        /\ buf \in Sound /\ ListOK(regions)
    BY <1>2 DEF ReadMemory, PutPacket, Puts, Token, IInv, ServerOK
  <2>2. buf.adr \in Nat /\ Word \in Nat /\ Unmapped \notin Bytes
    BY <2>1, RspAssumption DEF Sound, Requests
  <2>3. ASSUME NEW i \in 0 .. Word - 1
        PROVE  buf.adr + i \in Adrs /\ ReadByte(regions, buf.adr + i) # Unmapped
    <3>1. buf.adr + i \in Nat /\ ReadByte(regions, buf.adr + i) # Unmapped
      BY <2>1, <2>2, WordSwapped
    <3> QED
      BY <2>1, <3>1, ByteType
  <2>4. ASSUME NEW i \in 1 .. Word
        PROVE  buf.adr + i - 1 \in Adrs
    <3>1. i - 1 \in 0 .. Word - 1 /\ buf.adr + (i - 1) = buf.adr + i - 1
      BY <2>2
    <3> QED
      BY <2>3, <3>1
  <2>5. given' = [kind |-> "bytes", bytes |-> [i \in 1 .. Word |-> ReadByte(regions, buf.adr + i - 1)]]
    BY <2>1, <2>2, WordSwapped
  <2> QED
    BY <2>1, <2>3, <2>4, <2>5
       DEF Session!ReadMemory, Session!Answered, Session!NoRequest, NoRequest
<1> QED
  BY <1>1, <1>2

\* Every step of the server is one of a session, or leaves the session as it is.
LEMMA ServerRefines ==
  ASSUME IInv, IInv', Server
  PROVE  [Session!Next]_(Session!session)
<1> USE DEF Session!Next
<1>1. CASE Connect \/ SkipToPacket \/ ReadBody
  BY <1>1, Stutters DEF Connect, SkipToPacket, ReadBody
<1>2. CASE EndOfInput \/ OutOfMemory
  BY <1>2, Closes DEF EndOfInput, OutOfMemory, Waiting
<1>3. CASE ReadChecksum \/ ReadLongBody
  <2>1. CASE Exits
    BY <1>3, <2>1, Closes DEF ReadChecksum, ReadLongBody
  <2>2. CASE ~Exits
    BY <1>3, <2>2, Takes DEF ReadChecksum, ReadLongBody, Puts, Char, Token
  <2> QED
    BY <2>1, <2>2
<1>4. CASE ReplyText
  <2>1. CASE Exits
    BY <1>4, <2>1, Closes DEF ReplyText
  <2>2. CASE ~Exits
    BY <1>4, <2>2 DEF ReplyText, PutPacket, Puts, Token, Session!AnswerText, Session!Answered,
                      Session!NoRequest, Session!Text, NoRequest, Text
  <2> QED
    BY <2>1, <2>2
<1>5. CASE Download \/ ReadMemory
  BY <1>5, DownloadRefines, ReadRefines
<1>6. CASE Ignore
  BY <1>6 DEF Ignore, Session!Ignore, Session!Answered, Session!NoRequest, Session!NoAnswer,
              NoRequest, NoAnswer, IInv, ServerOK
<1>7. CASE TakeAck
  <2>1. CASE Acknowledged
    BY <1>7, <2>1 DEF TakeAck, Acknowledged, Session!Acknowledge, Session!NoAnswer, NoAnswer, IInv,
                      ServerOK
  <2>2. CASE ~Acknowledged
    BY <1>7, <2>2, Stutters DEF TakeAck
  <2> QED
    BY <2>1, <2>2
<1> QED
  BY <1>1, <1>2, <1>3, <1>4, <1>5, <1>6, <1>7 DEF Server

LEMMA NextRefines ==
  IInv /\ IInv' /\ [Next]_vars => [Session!Next]_(Session!session)
<1> SUFFICES ASSUME IInv, IInv', [Next]_vars PROVE [Session!Next]_(Session!session)
  OBVIOUS
<1>1. CASE UNCHANGED server
  BY <1>1 DEF server, Session!session
<1>2. CASE Server
  BY <1>2, ServerRefines
<1> QED
  BY <1>1, <1>2 DEF Next, Client, vars, Ask, SeeAck, SeeReply, Stray, Resend, Complain, GiveUp,
                    Leave, SeeEnd

\* The server with its packets, its buffer and its list of areas does what
\* DebugSession says, whatever the client sends and when: each request is taken
\* once and answered for what it asks, a word is read in the order of its
\* addresses, and the first area loaded at an address is the one that is read.
THEOREM Implementation == Spec => Implements
<1> QED
  BY InitRefines, NextRefines, Invariant, PTL DEF Spec, Implements, Session!Spec

-----------------------------------------------------------------------------
(* Keeping in step.  With a client that neither times out nor interrupts,    *)
(* everything the server ever reads follows one script: the acknowledgement  *)
(* of its last reply, then the three parts of the client's last request.     *)
Script(r) == <<Char("+"), Char("$"), Token("body", r, NoAnswer), Char("#")>>

\* The part of the script the server reads next
Place == IF pc = "ack" THEN 1
         ELSE IF pc \in {"listen", "packet"} THEN 2
         ELSE IF pc = "body" THEN 3
         ELSE IF pc = "checksum" THEN 4 ELSE 5

Up == pc # "exited"

ServerInStep ==
  Up => /\ pc # "stuck"
        /\ Place + Len(toServer) <= 5
        /\ \A k \in 1 .. Len(toServer) : toServer[k] = Script(asked)[Place + k - 1]
        /\ pc \in {"checksum", "dispatch"} => buf = asked

\* What is on its way to the client, and what that says of the server
IsReply(t) == t.kind = "reply" /\ t.req = asked
ClientIdle ==
  toClient = <<>> /\ (Up => Place + Len(toServer) = 2)
ClientSent ==
  \/ toClient = <<>> /\ (Up => Place + Len(toServer) = 5 /\ pc # "dispatch")
  \/ toClient = <<Char("+")>> /\ (Up => toServer = <<>> /\ pc \in {"dispatch", "packet"})
  \/ \E t : /\ toClient = <<Char("+"), t>> /\ IsReply(t)
            /\ Up => toServer = <<>> /\ pc = "ack"
ClientAccepted ==
  \/ toClient = <<>> /\ (Up => toServer = <<>> /\ pc \in {"dispatch", "packet"})
  \/ \E t : toClient = <<t>> /\ IsReply(t) /\ (Up => toServer = <<>> /\ pc = "ack")

ClientInStep ==
  /\ client \in {"idle", "sent", "accepted", "gone"}
  /\ client = "idle" => ClientIdle
  /\ client = "sent" => ClientSent
  /\ client = "accepted" => ClientAccepted

LockStep ==
  /\ faults \in Nat
  /\ faults = 0 => Fits(asked) /\ ServerInStep /\ ClientInStep

LEMMA Tuples ==
  ASSUME NEW a, NEW b
  PROVE  /\ Append(<<>>, a) = <<a>> /\ Append(<<a>>, b) = <<a, b>>
         /\ Head(<<a>>) = a /\ Tail(<<a>>) = <<>> /\ <<a>> # <<>>
         /\ Head(<<a, b>>) = a /\ Tail(<<a, b>>) = <<b>> /\ <<a, b>> # <<>>
<1>1. <<a>> \in Seq({a, b}) /\ <<a, b>> \in Seq({a, b}) /\ Len(<<a>>) = 1 /\ Len(<<a, b>>) = 2
  OBVIOUS
<1>2. /\ Append(<<a>>, b) \in Seq({a, b}) /\ Len(Append(<<a>>, b)) = 2
      /\ Append(<<a>>, b)[1] = a /\ Append(<<a>>, b)[2] = b
  BY <1>1, AppendProperties
<1>3. \A i \in 1 .. Len(Append(<<a>>, b)) : Append(<<a>>, b)[i] = <<a, b>>[i]
  BY <1>2
<1>4. Append(<<a>>, b) = <<a, b>>
  BY <1>1, <1>2, <1>3, SeqEqual
<1> QED BY <1>4

LEMMA Lengths ==
  ASSUME ClientOK
  PROVE  /\ Len(toServer) \in Nat
         /\ toServer = <<>> <=> Len(toServer) = 0
BY LenProperties, EmptySeq DEF ClientOK

LEMMA ScriptIs ==
  ASSUME NEW r
  PROVE  /\ Script(r)[1] = Char("+") /\ Script(r)[2] = Char("$")
         /\ Script(r)[3] = Token("body", r, NoAnswer) /\ Script(r)[4] = Char("#")
BY DEF Script

(* The character the server gets is the next one of the script, and what     *)
(* remains in the connection is the rest of it.                              *)
LEMMA GetsNext ==
  ASSUME IInv, ServerInStep, Up, NEW kinds, Gets(kinds)
  PROVE  /\ Head(toServer) = Script(asked)[Place]
         /\ Len(toServer') = Len(toServer) - 1
         /\ \A k \in 1 .. Len(toServer') : toServer'[k] = Script(asked)[Place + k]
<1>1. toServer \in Seq(Tokens) /\ toServer # <<>> /\ toServer' = Tail(toServer)
  BY DEF IInv, ClientOK, Gets
<1>2. /\ Len(toServer) \in Nat /\ Len(toServer) > 0
      /\ Head(toServer) = toServer[1]
      /\ Len(toServer') = Len(toServer) - 1
      /\ \A k \in 1 .. Len(toServer') : toServer'[k] = toServer[k + 1]
  BY <1>1, HeadTailProperties, LenProperties, EmptySeq
<1>3. Place \in Nat
  BY DEF Place
<1>4. \A k \in 1 .. Len(toServer) : toServer[k] = Script(asked)[Place + k - 1]
  BY DEF ServerInStep, Up
<1>5. Head(toServer) = Script(asked)[Place]
  <2>1. toServer[1] = Script(asked)[Place + 1 - 1]
    BY <1>2, <1>4
  <2>2. Place + 1 - 1 = Place
    BY <1>3
  <2> QED BY <1>2, <2>1, <2>2
<1>6. ASSUME NEW k \in 1 .. Len(toServer') PROVE toServer'[k] = Script(asked)[Place + k]
  <2>1. k + 1 \in 1 .. Len(toServer) /\ Place + (k + 1) - 1 = Place + k
    BY <1>2, <1>3
  <2>2. toServer[k + 1] = Script(asked)[Place + (k + 1) - 1]
    BY <1>4, <2>1
  <2> QED BY <1>2, <2>1, <2>2
<1> QED BY <1>2, <1>5, <1>6

(* A step of the server that ends it, or that takes the next character of    *)
(* the script and moves on by one place, leaves the server in step.          *)
LEMMA MovesOn ==
  ASSUME IInv, ServerInStep, Up, NEW kinds, Gets(kinds), asked' = asked,
         Place' = Place + 1, pc' # "stuck",
         pc' \in {"checksum", "dispatch"} => buf' = asked
  PROVE  ServerInStep'
<1>1. /\ Len(toServer') = Len(toServer) - 1
      /\ \A k \in 1 .. Len(toServer') : toServer'[k] = Script(asked)[Place + k]
  BY GetsNext
<1>2. Place \in Nat /\ Len(toServer) \in Nat
  BY Lengths DEF Place, IInv
<1>3. Place' + Len(toServer') <= 5
  BY <1>1, <1>2 DEF ServerInStep, Up
<1>4. ASSUME NEW k \in 1 .. Len(toServer') PROVE toServer'[k] = Script(asked')[Place' + k - 1]
  <2>1. Place' + k - 1 = Place + k
    BY <1>2
  <2> QED BY <1>1, <2>1
<1> QED BY <1>3, <1>4 DEF ServerInStep

(* An exit leaves what is on its way to the client as it is.                 *)
LEMMA ExitsInStep ==
  ASSUME ServerInStep, ClientInStep, pc' = "exited", UNCHANGED <<toClient, client, asked>>
  PROVE  ServerInStep' /\ ClientInStep'
BY DEF ServerInStep, ClientInStep, ClientIdle, ClientSent, ClientAccepted, Up, IsReply

(* A reply is put when the client awaits it and nothing else is on its way.  *)
LEMMA RepliesInStep ==
  ASSUME IInv, ServerInStep, ClientInStep, pc = "dispatch", NEW answer, PutPacket(answer),
         UNCHANGED <<toServer, buf, client, asked>>
  PROVE  ServerInStep' /\ ClientInStep'
<1>1. Up /\ Place = 5 /\ buf = asked
  BY DEF Up, Place, ServerInStep
<1>2. Len(toServer) \in Nat /\ (toServer = <<>> <=> Len(toServer) = 0)
  BY Lengths DEF IInv
<1>3. toServer = <<>> /\ Len(toServer) = 0
  BY <1>1, <1>2 DEF ServerInStep, Up
<1>4. CASE /\ toClient' = Append(toClient, Token("reply", buf, answer))
           /\ pc' = "ack"
  <2>0. PICK t : t = Token("reply", buf, answer)
    OBVIOUS
  <2>1. /\ t.kind = "reply" /\ t.req = asked'
        /\ toServer' = <<>> /\ Len(toServer') = 0 /\ Place' = 1 /\ pc' = "ack"
    BY <1>1, <1>3, <1>4, <2>0 DEF Token, Place
  <2>2. ServerInStep'
    BY <1>3, <1>4, <2>1 DEF ServerInStep
  <2>3. ~ClientIdle
    BY <1>1, <1>3 DEF ClientIdle
  <2>4. ClientSent => ClientSent'
    <3>1. ClientSent => toClient = <<Char("+")>>
      BY <1>1 DEF ClientSent
    <3>2. ClientSent => toClient' = <<Char("+"), t>>
      BY <1>4, <2>0, <3>1, Tuples
    <3> QED BY <2>1, <3>2 DEF ClientSent, IsReply
  <2>5. ClientAccepted => ClientAccepted'
    <3>1. ClientAccepted => toClient = <<>>
      BY <1>1 DEF ClientAccepted
    <3>2. ClientAccepted => toClient' = <<t>>
      BY <1>4, <2>0, <3>1, Tuples
    <3> QED BY <2>1, <3>2 DEF ClientAccepted, IsReply
  <2> QED BY <2>2, <2>3, <2>4, <2>5 DEF ClientInStep
<1>5. CASE Gone /\ pc' = "exited" /\ UNCHANGED toClient
  BY <1>5, ExitsInStep
<1> QED BY <1>4, <1>5 DEF PutPacket, Puts, Token, Exits

LEMMA ServerLockStep ==
  ASSUME IInv, Fits(asked), ServerInStep, ClientInStep, Server
  PROVE  ServerInStep' /\ ClientInStep'
<1> USE DEF clientVars, connection
<1>1. Len(toServer) \in Nat /\ (toServer = <<>> <=> Len(toServer) = 0)
  BY Lengths DEF IInv
<1>2. CASE Connect
  BY <1>2 DEF Connect, ServerInStep, ClientInStep, ClientIdle, ClientSent, ClientAccepted, Up,
              Place, IsReply
<1>3. CASE EndOfInput \/ OutOfMemory
  BY <1>3, ExitsInStep DEF EndOfInput, OutOfMemory, Exits
<1>4. CASE SkipToPacket
  <2>1. Up /\ Place = 2
    BY <1>4 DEF SkipToPacket, Up, Place
  <2>2. Head(toServer) = Char("$") /\ Len(toServer') = Len(toServer) - 1
    BY <1>4, <2>1, GetsNext, ScriptIs DEF SkipToPacket
  <2>3. pc' = "body" /\ Place' = 3 /\ UNCHANGED <<toClient, client, asked>>
    BY <1>4, <2>2 DEF SkipToPacket, Char, Token, Place
  <2>4. ServerInStep'
    BY <1>4, <2>1, <2>3, MovesOn DEF SkipToPacket
  <2>5. Len(toServer) > 0
    BY <1>1, <1>4 DEF SkipToPacket, Gets
  <2>6. ClientInStep'
    BY <1>1, <2>1, <2>2, <2>3, <2>5
       DEF ClientInStep, ClientIdle, ClientSent, ClientAccepted, Up
  <2> QED BY <2>4, <2>6
<1>5. CASE ReadBody
  <2>1. Up /\ Place = 3
    BY <1>5 DEF ReadBody, Up, Place
  <2>2. Head(toServer) = Token("body", asked, NoAnswer) /\ Len(toServer') = Len(toServer) - 1
    BY <1>5, <2>1, GetsNext, ScriptIs DEF ReadBody
  <2>3. pc' = "checksum" /\ Place' = 4 /\ buf' = asked /\ UNCHANGED <<toClient, client, asked>>
    BY <1>5, <2>2 DEF ReadBody, Token, Place
  <2>4. ServerInStep'
    BY <1>5, <2>1, <2>3, MovesOn DEF ReadBody
  <2>5. Len(toServer) > 0
    BY <1>1, <1>5 DEF ReadBody, Gets
  <2>6. ClientInStep'
    BY <1>1, <2>1, <2>2, <2>3, <2>5
       DEF ClientInStep, ClientIdle, ClientSent, ClientAccepted, Up
  <2> QED BY <2>4, <2>6
<1>6. ~ReadLongBody
  <2> SUFFICES ASSUME ReadLongBody PROVE FALSE
    OBVIOUS
  <2>1. Up /\ Place = 3 /\ toServer # <<>>
    BY DEF ReadLongBody, Up, Place
  <2>2. Head(toServer) = toServer[1] /\ 1 \in 1 .. Len(toServer)
    BY <1>1, <2>1, HeadTailProperties DEF IInv, ClientOK
  <2>3. toServer[1] = Script(asked)[3]
    BY <2>1, <2>2 DEF ServerInStep
  <2>4. toServer[1] = Token("body", asked, NoAnswer)
    BY <2>3, ScriptIs
  <2>5. Head(toServer).req = asked
    BY <2>2, <2>4 DEF Token
  <2> QED BY <2>5 DEF ReadLongBody
<1>7. CASE ReadChecksum
  <2>1. Up /\ Place = 4
    BY <1>7 DEF ReadChecksum, Up, Place
  <2>2. Len(toServer') = Len(toServer) - 1 /\ toServer' = Tail(toServer)
    BY <1>7, <2>1, GetsNext DEF ReadChecksum, Gets
  <2>3. Len(toServer) = 1 /\ Len(toServer') = 0 /\ toServer' \in Seq(Tokens)
    BY <1>1, <1>7, <2>1, <2>2, GetsType DEF ReadChecksum, Gets, ServerInStep, Up, IInv, ClientOK
  <2>4. toServer' = <<>>
    BY <2>3, EmptySeq
  <2>5. UNCHANGED <<buf, client, asked>>
    BY <1>7 DEF ReadChecksum
  <2>6. CASE toClient' = Append(toClient, Char("+")) /\ pc' = "dispatch"
    <3>1. Place' = 5 /\ buf' = asked
      BY <1>7, <2>5, <2>6 DEF ReadChecksum, Place, ServerInStep, Up
    <3>2. ServerInStep'
      BY <1>7, <2>1, <2>5, <2>6, <3>1, MovesOn DEF ReadChecksum
    <3>3. ~ClientIdle /\ ~ClientAccepted /\ (ClientSent => toClient = <<>>)
      BY <1>7, <2>1, <2>3 DEF ReadChecksum, ClientIdle, ClientAccepted, ClientSent, Up
    <3>4. ClientSent => toClient' = <<Char("+")>>
      BY <2>6, <3>3, Tuples
    <3>5. ClientSent => ClientSent'
      BY <2>4, <2>6, <3>4 DEF ClientSent
    <3> QED BY <2>5, <3>2, <3>3, <3>5 DEF ClientInStep
  <2>7. CASE pc' = "exited" /\ UNCHANGED toClient
    BY <2>5, <2>7, ExitsInStep
  <2> QED BY <1>7, <2>6, <2>7 DEF ReadChecksum, Puts, Exits
<1>8. CASE ReplyText \/ Download
  BY <1>8, RepliesInStep DEF ReplyText, Download
<1>9. CASE ReadMemory
  BY <1>9, RepliesInStep, ExitsInStep DEF ReadMemory, Exits
<1>10. CASE Ignore
  <2>1. Up /\ Place = 5 /\ Place' = 2 /\ Len(toServer) = 0
    BY <1>1, <1>10 DEF Ignore, Up, Place, ServerInStep
  <2>2. toServer' = <<>> /\ Len(toServer') = 0 /\ UNCHANGED <<toClient, client, asked>>
    BY <1>1, <1>10, <2>1 DEF Ignore
  <2>3. ServerInStep'
    BY <1>10, <2>1, <2>2 DEF Ignore, ServerInStep
  <2>4. ClientInStep'
    BY <1>10, <2>1, <2>2
       DEF Ignore, ClientInStep, ClientIdle, ClientSent, ClientAccepted, Up, IsReply
  <2> QED BY <2>3, <2>4
<1>11. CASE TakeAck
  <2>1. Up /\ Place = 1
    BY <1>11 DEF TakeAck, Up, Place
  <2>2. PICK kinds : Gets(kinds)
    BY <1>11 DEF TakeAck
  <2>3. Head(toServer) = Char("+") /\ Len(toServer') = Len(toServer) - 1 /\ Len(toServer) > 0
    BY <1>1, <2>1, <2>2, GetsNext, ScriptIs DEF Gets
  <2>4. Acknowledged /\ Place' = 2
    BY <1>11, <2>3 DEF TakeAck, Gets, Char, Token, Acknowledged, Place
  <2>5. ServerInStep'
    BY <2>1, <2>2, <2>4, MovesOn DEF Acknowledged
  <2>6. ClientInStep'
    BY <1>1, <2>1, <2>3, <2>4
       DEF Acknowledged, ClientInStep, ClientIdle, ClientSent, ClientAccepted, Up
  <2> QED BY <2>5, <2>6
<1> QED BY <1>2, <1>3, <1>4, <1>5, <1>6, <1>7, <1>8, <1>9, <1>10, <1>11 DEF Server

(* A request is made when all that is on its way is the acknowledgement of   *)
(* the last reply: behind it comes the rest of the script.                   *)
LEMMA AskInStep ==
  ASSUME IInv, ServerInStep, ClientInStep, NEW r \in Asks, Ask(r)
  PROVE  ServerInStep' /\ ClientInStep'
<1>1. /\ client' = "sent" /\ asked' = r /\ toServer' = toServer \o Packet(r)
      /\ UNCHANGED <<toClient, pc, buf>>
  BY DEF Ask, server
<1>2. toClient = <<>> /\ (Up => Place + Len(toServer) = 2)
  BY DEF Ask, ClientInStep, ClientIdle
<1>3. CASE ~Up
  BY <1>1, <1>2, <1>3 DEF ServerInStep, ClientInStep, ClientSent, Up
<1>4. CASE Up
  <2>1. Place \in {1, 2, 3, 4, 5} /\ Len(toServer) \in Nat /\ Place' = Place
    BY <1>1, Lengths DEF Place, IInv
  <2>2. \/ Place = 1 /\ Len(toServer) = 1
        \/ Place = 2 /\ Len(toServer) = 0
    BY <1>2, <1>4, <2>1
  <2>3. r \in Sound
    BY AskSound
  <2>4. /\ Packet(r) \in Seq(Tokens) /\ Len(Packet(r)) = 3
        /\ \A j \in 1 .. 3 : Packet(r)[j] = Script(r)[j + 1]
    <3>1. Char("$") \in Tokens /\ Char("#") \in Tokens
      BY CharType DEF Kinds
    <3>2. Token("body", r, NoAnswer) \in Tokens
      BY <2>3 DEF Token, Tokens, Kinds
    <3>3. Packet(r) \in Seq(Tokens) /\ Len(Packet(r)) = 3
      BY <3>1, <3>2 DEF Packet
    <3>4. /\ Packet(r)[1] = Char("$") /\ Packet(r)[2] = Token("body", r, NoAnswer)
          /\ Packet(r)[3] = Char("#")
      BY DEF Packet
    <3>5. /\ Packet(r)[1] = Script(r)[1 + 1] /\ Packet(r)[2] = Script(r)[2 + 1]
          /\ Packet(r)[3] = Script(r)[3 + 1]
      BY <3>4, ScriptIs
    <3> QED BY <3>3, <3>5
  <2>5. /\ Len(toServer') = Len(toServer) + 3
        /\ \A k \in 1 .. Len(toServer') :
             toServer'[k] = IF k <= Len(toServer) THEN toServer[k]
                            ELSE Packet(r)[k - Len(toServer)]
    <3>1. toServer \in Seq(Tokens)
      BY DEF IInv, ClientOK
    <3>2. /\ Len(toServer \o Packet(r)) = Len(toServer) + Len(Packet(r))
          /\ \A k \in 1 .. Len(toServer) + Len(Packet(r)) :
               (toServer \o Packet(r))[k] = IF k <= Len(toServer) THEN toServer[k]
                                            ELSE Packet(r)[k - Len(toServer)]
      BY <2>4, <3>1, ConcatProperties
    <3> QED BY <1>1, <2>4, <3>2
  <2>6. ASSUME NEW k \in 1 .. Len(toServer') PROVE toServer'[k] = Script(r)[Place + k - 1]
    <3>1. CASE k <= Len(toServer)
      <4>1. k = 1 /\ Place = 1 /\ Len(toServer) = 1
        BY <2>2, <2>5, <2>6, <3>1
      <4>2. toServer[1] = Script(asked)[1]
        BY <1>4, <4>1 DEF ServerInStep
      <4>3. toServer'[1] = Script(r)[1]
        BY <2>5, <2>6, <4>1, <4>2, ScriptIs
      <4> QED BY <4>1, <4>3
    <3>2. CASE k > Len(toServer)
      <4>1. k - Len(toServer) \in 1 .. 3 /\ (k - Len(toServer)) + 1 = Place + k - 1
        BY <2>1, <2>2, <2>5, <2>6, <3>2
      <4>2. toServer'[k] = Packet(r)[k - Len(toServer)]
        BY <2>1, <2>5, <2>6, <3>2
      <4>3. Packet(r)[k - Len(toServer)] = Script(r)[(k - Len(toServer)) + 1]
        BY <2>4, <4>1
      <4> QED BY <4>1, <4>2, <4>3
    <3> QED BY <2>1, <3>1, <3>2
  <2>7. pc \notin {"checksum", "dispatch", "stuck"}
    BY <1>4, <2>2 DEF Place, ServerInStep
  <2>8. ServerInStep'
    BY <1>1, <2>1, <2>2, <2>5, <2>6, <2>7 DEF ServerInStep
  <2>9. Place' + Len(toServer') = 5
    <3>1. Place' + (Len(toServer) + 3) = 5
      <4>1. Place' = Place
        BY <2>1
      <4>2. Place + (Len(toServer) + 3) = 5
        <5>1. CASE Place = 1 /\ Len(toServer) = 1
          BY <5>1
        <5>2. CASE Place = 2 /\ Len(toServer) = 0
          BY <5>2
        <5> QED BY <2>2, <5>1, <5>2
      <4> QED BY <4>1, <4>2
    <3>2. Len(toServer') = Len(toServer) + 3
      BY <2>5
    <3> QED BY <3>1, <3>2
  <2>10. ClientInStep'
    BY <1>1, <1>2, <2>7, <2>9 DEF ClientInStep, ClientSent
  <2> QED BY <2>8, <2>10
<1> QED BY <1>3, <1>4

(* What the client reads is what it awaits.                                  *)
LEMMA ReadsInStep ==
  ASSUME IInv, ServerInStep, ClientInStep, SeeAck \/ SeeReply \/ Stray
  PROVE  ServerInStep' /\ ClientInStep' /\ asked' = asked
<1> USE Tuples DEF server, Reads
<1>1. CASE SeeAck
  <2>1. ClientSent /\ client' = "accepted" /\ UNCHANGED <<toServer, pc, buf, asked>>
    BY <1>1 DEF SeeAck, ClientInStep
  <2>2. ServerInStep'
    BY <2>1 DEF ServerInStep, Up, Place
  <2>3. CASE toClient = <<Char("+")>> /\ (Up => toServer = <<>> /\ pc \in {"dispatch", "packet"})
    <3>1. toClient' = <<>>
      BY <1>1, <2>3 DEF SeeAck
    <3> QED BY <2>1, <2>2, <2>3, <3>1 DEF ClientInStep, ClientAccepted, Up
  <2>4. CASE \E t : /\ toClient = <<Char("+"), t>> /\ IsReply(t)
                    /\ Up => toServer = <<>> /\ pc = "ack"
    <3>1. PICK t : /\ toClient = <<Char("+"), t>> /\ t.kind = "reply" /\ t.req = asked
                   /\ Up => toServer = <<>> /\ pc = "ack"
      BY <2>4 DEF IsReply
    <3>2. toClient' = <<t>>
      BY <1>1, <3>1 DEF SeeAck
    <3>3. ClientAccepted'
      BY <2>1, <3>1, <3>2 DEF ClientAccepted, IsReply, Up
    <3> QED BY <2>1, <2>2, <3>3 DEF ClientInStep
  <2> QED BY <1>1, <2>1, <2>3, <2>4 DEF ClientSent, SeeAck
<1>2. CASE SeeReply
  <2>1. /\ ClientAccepted /\ client' = "idle" /\ toServer' = Append(toServer, Char("+"))
        /\ UNCHANGED <<pc, buf, asked>>
    BY <1>2 DEF SeeReply, ClientInStep
  <2>2. PICK t : toClient = <<t>> /\ (Up => toServer = <<>> /\ pc = "ack")
    BY <1>2, <2>1 DEF SeeReply, ClientAccepted
  <2>3. toClient' = <<>>
    BY <1>2, <2>2 DEF SeeReply
  <2>4. CASE Up
    <3>1. toServer' = <<Char("+")>>
      BY <2>1, <2>2, <2>4
    <3>2. Len(toServer') = 1 /\ toServer'[1] = Char("+") /\ Place' = 1 /\ pc' = "ack"
      BY <2>1, <2>2, <2>4, <3>1 DEF Place
    <3>3. toServer'[1] = Script(asked)[1]
      BY <3>2, ScriptIs
    <3>4. ServerInStep'
      BY <2>1, <3>2, <3>3 DEF ServerInStep
    <3> QED BY <2>1, <2>3, <3>2, <3>4 DEF ClientInStep, ClientIdle
  <2>5. CASE ~Up
    BY <2>1, <2>3, <2>5 DEF ServerInStep, ClientInStep, ClientIdle, Up
  <2> QED BY <2>1, <2>4, <2>5
<1>3. ~Stray
  <2>1. ClientIdle => toClient = <<>>
    BY DEF ClientIdle
  <2>2. ClientSent => toClient = <<>> \/ Head(toClient).kind = "+"
    BY DEF ClientSent, Char, Token
  <2>3. ClientAccepted => toClient = <<>> \/ Head(toClient).kind = "reply"
    BY DEF ClientAccepted, IsReply
  <2> QED BY <2>1, <2>2, <2>3 DEF Stray, ClientInStep, Gone
<1> QED BY <1>1, <1>2, <1>3

LEMMA LeavesInStep ==
  ASSUME IInv, ServerInStep, ClientInStep, Leave \/ SeeEnd
  PROVE  ServerInStep' /\ ClientInStep' /\ asked' = asked
<1>1. /\ client' = "gone" /\ UNCHANGED <<pc, buf, asked>>
      /\ \/ \E n \in 0 .. Len(toServer) : toServer' = SubSeq(toServer, 1, n)
         \/ UNCHANGED toServer
  BY DEF Leave, SeeEnd, server, connection
<1>2. Len(toServer) \in Nat /\ toServer \in Seq(Tokens) /\ Place' = Place /\ Place \in Nat
  BY <1>1, Lengths DEF IInv, ClientOK, Place
<1>3. Len(toServer') \in 0 .. Len(toServer) /\ \A k \in 1 .. Len(toServer') : toServer'[k] = toServer[k]
  <2>1. CASE UNCHANGED toServer
    BY <1>2, <2>1
  <2>2. ASSUME NEW n \in 0 .. Len(toServer), toServer' = SubSeq(toServer, 1, n)
        PROVE  Len(toServer') = n /\ \A k \in 1 .. n : toServer'[k] = toServer[k]
    <3>1. \A i \in 1 .. n : toServer[i] \in Tokens
      BY <1>2, <2>2, LenProperties, ElementOfSeq
    <3> QED BY <1>2, <2>2, <3>1, SubSeqProperties
  <2> QED BY <1>1, <1>2, <2>1, <2>2
<1>4. Up => /\ Place' + Len(toServer') <= 5
            /\ \A k \in 1 .. Len(toServer') : toServer'[k] = Script(asked)[Place' + k - 1]
  BY <1>2, <1>3 DEF ServerInStep
<1> QED BY <1>1, <1>4 DEF ServerInStep, ClientInStep, Up

LEMMA LockStepInit == Init => LockStep
<1> SUFFICES ASSUME Init PROVE LockStep
  OBVIOUS
<1>1. Fits(asked)
  BY RspAssumption DEF Init, Fits, NoRequest
<1>2. Len(toServer) = 0 /\ Place = 2 /\ faults = 0
  BY DEF Init, Place
<1> QED BY <1>1, <1>2 DEF Init, LockStep, ServerInStep, ClientInStep, ClientIdle

LEMMA LockStepNext == IInv /\ LockStep /\ [Next]_vars => LockStep'
<1> SUFFICES ASSUME IInv, LockStep, [Next]_vars PROVE LockStep'
  OBVIOUS
<1> USE DEF LockStep
<1>1. CASE UNCHANGED vars
  BY <1>1 DEF vars, connection, server, clientVars, ServerInStep, ClientInStep, ClientIdle, ClientSent,
              ClientAccepted, Up, Place, IsReply, Fits
<1>2. CASE Server
  <2>1. UNCHANGED <<asked, faults>>
    BY <1>2 DEF Server, clientVars, Connect, EndOfInput, SkipToPacket, ReadBody, ReadLongBody,
                ReadChecksum, ReplyText, OutOfMemory, Download, ReadMemory, Ignore, TakeAck,
                Acknowledged
  <2> QED BY <1>2, <2>1, ServerLockStep DEF Fits
<1>3. CASE \E r \in Asks : Ask(r)
  <2>1. PICK r \in Asks : Ask(r)
    BY <1>3
  <2>2. CASE UNCHANGED faults
    BY <2>1, <2>2, AskInStep DEF Ask, Fault, Fits
  <2>3. CASE Fault
    BY <2>3 DEF Fault
  <2> QED BY <2>1, <2>2, <2>3 DEF Ask
<1>4. CASE SeeAck \/ SeeReply \/ Stray
  BY <1>4, ReadsInStep DEF SeeAck, SeeReply, Stray, clientVars, Fits
<1>5. CASE Leave \/ SeeEnd
  BY <1>5, LeavesInStep DEF Leave, SeeEnd, Fits
<1>6. CASE Resend \/ GiveUp \/ \E kind \in {"-", "interrupt"} : Complain(kind)
  BY <1>6 DEF Resend, GiveUp, Complain, Fault
<1> QED BY <1>1, <1>2, <1>3, <1>4, <1>5, <1>6 DEF Next, Client

\* A client that is not impatient, does not interrupt and sends no packet longer
\* than the buffer stays in step with the server, for any requests and any end
\* of the session: the reply it reads is the one to its last request, and the
\* server never waits for an acknowledgement it has missed.
THEOREM StaysInStep == Spec => []InStep
<1>1. LockStep => InStep
  <2> SUFFICES ASSUME LockStep, faults = 0 PROVE InStep
    BY DEF InStep
  <2>1. pc # "stuck"
    BY DEF LockStep, ServerInStep, Up
  <2>2. client = "accepted" => ClientAccepted
    BY DEF LockStep, ClientInStep
  <2>3. ClientAccepted => toClient = <<>> \/ Head(toClient).req = asked
    BY Tuples DEF ClientAccepted, IsReply
  <2> QED BY <2>1, <2>2, <2>3 DEF InStep
<1> QED BY LockStepInit, LockStepNext, Invariant, <1>1, PTL DEF Spec
=============================================================================
