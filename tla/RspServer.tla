----------------------------- MODULE RspServer -----------------------------
(***************************************************************************)
(* The remote debugging server, src/simulation/rsp_server/main.c, and its  *)
(* client.  Both ends of the connection are sequences of tokens: a packet  *)
(* is its '$', its body and the '#' with the checksum; acknowledgements    *)
(* and the client's interrupt are single characters between packets.  The  *)
(* server is a loop that blocks in get_rsp_char; pc is the place it blocks *)
(* at.  The client is GDB: it is not in the repository, and is modelled by *)
(* the requests, acknowledgements and retries the server has to deal with. *)
(***************************************************************************)
EXTENDS Integers, Sequences, SequencesExt

CONSTANTS
  Adrs, Word, Bytes, Unmapped,   \* as in DebugSession
  Asks,        \* requests the client may make
  BufMax,      \* bytes of data a packet may carry, BUFMAX
  MaxAsks,     \* bounds the requests of a session
  MaxFaults    \* bounds the client's timeouts, interrupts and long packets

ASSUME RspAssumption ==
  /\ Adrs \subseteq Nat /\ Word \in Nat \ {0}
  /\ Unmapped \notin Bytes
  /\ {BufMax, MaxAsks, MaxFaults} \subseteq Nat
  /\ \A r \in Asks :
       /\ r \in [cmd : {"text", "X", "m", "unknown"}, adr : Nat, data : Seq(Bytes)]
       /\ \A k \in DOMAIN r.data : r.adr + k - 1 \in Adrs

VARIABLES
  toServer, toClient,   \* the connection, both directions
  pc, buf,              \* the server: where it waits, the packet in rsp.buf
  given,                \* the reply it waits to have acknowledged
  fd,                   \* rsp.client_fd is a connection
  regions,              \* the memory list, in the order of insertion
  client, asked,        \* what the client waits for, its last request
  asks, faults          \* counted by the client

connection == <<toServer, toClient>>
server == <<pc, buf, given, fd, regions>>
clientVars == <<client, asked, asks, faults>>
vars == <<connection, server, clientVars>>

NoRequest == [cmd |-> "none", adr |-> 0, data |-> <<>>]
NoAnswer == [kind |-> "none", bytes |-> <<>>]
Text == [kind |-> "text", bytes |-> <<>>]

\* A token carries its kind, the request it is or answers, and an answer.
Token(kind, req, answer) == [kind |-> kind, req |-> req, answer |-> answer]
Char(kind) == Token(kind, NoRequest, NoAnswer)

-----------------------------------------------------------------------------
(* The memory list.                                                          *)

\* init_mem_list: an entry no address is in
Root == [origin |-> 0, mem |-> <<>>]

Covers(m, a) == m.origin <= a /\ a < m.origin + Len(m.mem)

\* insert_new_mem: behind the entries there are, whatever they cover.
\* Variant: in front of them.
InsertInFront(list, adr, data) ==
  <<Head(list), [origin |-> adr, mem |-> data]>> \o Tail(list)
InsertNewMem(list, adr, data) == Append(list, [origin |-> adr, mem |-> data])

\* find_mem_entry: the first entry the address is in.
Entries(list, a) == {i \in DOMAIN list : Covers(list[i], a)}
First(S) == CHOOSE i \in S : \A j \in S : i <= j
ReadByte(list, a) ==
  IF Entries(list, a) = {} THEN Unmapped
  ELSE LET m == list[First(Entries(list, a))] IN m.mem[a - m.origin + 1]

\* read_word: the byte at the highest address is the most significant one.
ReadWord(list, a) == [i \in 1 .. Word |-> ReadByte(list, a + Word - i)]

\* Variant: the word as read.
KeepWord(w) == w
Swap32(w) == Reverse(w)

-----------------------------------------------------------------------------
(* The server.                                                               *)

\* rsp.buf is static, the memory list has its root, nobody is connected.
Init ==
  /\ toServer = <<>> /\ toClient = <<>>
  /\ pc = "listen" /\ buf = NoRequest /\ given = NoAnswer /\ fd = FALSE
  /\ regions = <<Root>>
  /\ client = "idle" /\ asked = NoRequest /\ asks = 0 /\ faults = 0

Gone == client = "gone"

\* connect_rsp_client: main goes on whether or not it succeeds.
Connect ==
  /\ pc = "listen" /\ pc' = "packet"
  /\ fd' \in BOOLEAN
  /\ UNCHANGED <<connection, buf, given, regions, clientVars>>

\* disconnect_rsp_client and exit, or exit alone: the system closes the socket.
Exits == pc' = "exited" /\ fd' = FALSE /\ given' = NoAnswer

Waiting == pc \in {"packet", "body", "checksum", "ack"}

\* get_rsp_char without a connection, or at the end of what the client sent
EndOfInput ==
  /\ Waiting
  /\ fd => Gone /\ toServer = <<>>
  /\ Exits
  /\ UNCHANGED <<connection, buf, regions, clientVars>>

\* get_rsp_char with a character to read
Gets(kinds) ==
  /\ fd /\ toServer # <<>> /\ Head(toServer).kind \in kinds
  /\ toServer' = Tail(toServer)

\* put_rsp_char: writing to a client that has left may fail.
Puts(token, next) ==
  \/ /\ toClient' = Append(toClient, token)
     /\ pc' = next /\ given' = token.answer /\ UNCHANGED fd
  \/ Gone /\ Exits /\ UNCHANGED toClient

Kinds == {"$", "body", "rest", "#", "+", "-", "interrupt"}

\* get_rsp_packet: everything up to '$' is dropped, the acknowledgements and
\* interrupts of the client among it.
SkipToPacket ==
  /\ pc = "packet" /\ Gets(Kinds)
  /\ pc' = IF Head(toServer).kind = "$" THEN "body" ELSE "packet"
  /\ UNCHANGED <<toClient, buf, given, fd, regions, clientVars>>

Fits(r) == Len(r.data) <= BufMax

ReadBody ==
  /\ pc = "body" /\ Gets({"body"}) /\ Fits(Head(toServer).req)
  /\ buf' = Head(toServer).req
  /\ pc' = "checksum"
  /\ UNCHANGED <<toClient, given, fd, regions, clientVars>>

\* The buffer is full: the next two characters of the body are taken for the
\* checksum.  Should they agree with it, bytes from behind the buffer are used.
ReadLongBody ==
  /\ pc = "body" /\ fd /\ toServer # <<>>
  /\ ~Fits(Head(toServer).req)
  /\ toServer' = <<Char("rest")>> \o Tail(toServer)
  /\ \/ /\ Puts(Char("+"), "dispatch")
        /\ \E b \in Bytes : buf' = [Head(toServer).req EXCEPT !.data =
             [i \in DOMAIN @ |-> IF i < BufMax THEN @[i] ELSE b]]
     \/ /\ toClient' = Append(toClient, Char("-")) /\ Exits
        /\ UNCHANGED buf
  /\ UNCHANGED <<regions, clientVars>>

\* The client's checksums are right.
ReadChecksum ==
  /\ pc = "checksum" /\ Gets({"#"})
  /\ Puts(Char("+"), "dispatch")
  /\ UNCHANGED <<buf, regions, clientVars>>

\* put_rsp_packet, up to its wait for the acknowledgement
PutPacket(answer) == Puts(Token("reply", buf, answer), "ack")

\* qSupported, v, H, qTStatus, ?, qfThreadInfo, qsThreadInfo, qC, qAttached,
\* g, p and P: a fixed text each.
ReplyText ==
  /\ pc = "dispatch" /\ buf.cmd = "text"
  /\ PutPacket(Text)
  /\ UNCHANGED <<toServer, buf, regions, clientVars>>

\* create_new_mem: no memory for a new area
OutOfMemory ==
  /\ pc = "dispatch" /\ buf.cmd = "X" /\ buf.data # <<>>
  /\ Exits
  /\ UNCHANGED <<connection, buf, regions, clientVars>>

\* Variant: an empty download is not answered.
DownloadSilently ==
  /\ pc = "dispatch" /\ buf.cmd = "X"
  /\ IF buf.data = <<>>
     THEN pc' = "packet" /\ buf' = NoRequest /\ UNCHANGED <<regions, toClient, fd, given>>
     ELSE /\ regions' = InsertNewMem(regions, buf.adr, buf.data)
          /\ PutPacket(Text) /\ UNCHANGED buf
  /\ UNCHANGED <<toServer, clientVars>>

\* X, with the empty download GDB probes with
Download ==
  /\ pc = "dispatch" /\ buf.cmd = "X"
  /\ regions' = IF buf.data = <<>> THEN regions
                ELSE InsertNewMem(regions, buf.adr, buf.data)
  /\ PutPacket(Text)
  /\ UNCHANGED <<toServer, buf, clientVars>>

Readable(w) == \A i \in DOMAIN w : w[i] # Unmapped

\* m: a word, whatever length is asked for
ReadMemory ==
  /\ pc = "dispatch" /\ buf.cmd = "m"
  /\ LET w == ReadWord(regions, buf.adr) IN
       IF Readable(w) THEN PutPacket([kind |-> "bytes", bytes |-> Swap32(w)])
                      ELSE Exits /\ UNCHANGED toClient
  /\ UNCHANGED <<toServer, buf, regions, clientVars>>

\* No branch of the dispatch matches: no reply, and the buffer is cleared.
Ignore ==
  /\ pc = "dispatch" /\ buf.cmd = "unknown"
  /\ pc' = "packet" /\ buf' = NoRequest
  /\ UNCHANGED <<connection, fd, regions, given, clientVars>>

\* The next packet: get_rsp_packet clears the buffer.
Acknowledged ==
  /\ pc' = "packet" /\ buf' = NoRequest /\ given' = NoAnswer
  /\ UNCHANGED <<toClient, fd, regions, clientVars>>

\* Variant: the comparison is the wrong way round.
TakeOtherAck ==
  /\ pc = "ack"
  /\ \/ Gets(Kinds \ {"+"}) /\ Acknowledged
     \/ /\ Gets({"+"}) /\ pc' = "stuck"
        /\ UNCHANGED <<toClient, buf, fd, regions, given, clientVars>>

\* while(ch != '+') reads no further character.
TakeAck ==
  /\ pc = "ack"
  /\ \/ Gets({"+"}) /\ Acknowledged
     \/ /\ Gets(Kinds \ {"+"}) /\ pc' = "stuck"
        /\ UNCHANGED <<toClient, buf, fd, regions, given, clientVars>>

Server ==
  \/ Connect \/ EndOfInput
  \/ SkipToPacket \/ ReadBody \/ ReadLongBody \/ ReadChecksum
  \/ ReplyText \/ OutOfMemory \/ Download \/ ReadMemory \/ Ignore
  \/ TakeAck

-----------------------------------------------------------------------------
(* The client.                                                               *)

Packet(r) == <<Char("$"), Token("body", r, NoAnswer), Char("#")>>

Reads(kind) ==
  /\ toClient # <<>> /\ Head(toClient).kind = kind
  /\ toClient' = Tail(toClient)

Fault == faults < MaxFaults /\ faults' = faults + 1

\* A packet longer than the server's buffer counts as a fault.
Ask(r) ==
  /\ client = "idle" /\ asks < MaxAsks
  /\ IF Fits(r) THEN UNCHANGED faults ELSE Fault
  /\ toServer' = toServer \o Packet(r)
  /\ client' = "sent" /\ asked' = r /\ asks' = asks + 1
  /\ UNCHANGED <<toClient, server>>

SeeAck ==
  /\ client = "sent" /\ Reads("+")
  /\ client' = "accepted"
  /\ UNCHANGED <<toServer, server, asked, asks, faults>>

SeeReply ==
  /\ client = "accepted" /\ Reads("reply")
  /\ toServer' = Append(toServer, Char("+"))
  /\ client' = "idle"
  /\ UNCHANGED <<server, asked, asks, faults>>

\* What the client does not expect is dropped.
Stray ==
  /\ \/ client \in {"idle", "sent"} /\ Reads("reply")
     \/ client \in {"idle", "accepted"} /\ Reads("+")
     \/ ~Gone /\ Reads("-")
  /\ UNCHANGED <<toServer, server, clientVars>>

\* No acknowledgement in time: the packet is sent again.
Resend ==
  /\ client = "sent" /\ Fault
  /\ toServer' = toServer \o Packet(asked)
  /\ UNCHANGED <<toClient, server, client, asked, asks>>

\* No reply in time: it is asked for again, or the user interrupts.
Complain(kind) ==
  /\ client = "accepted" /\ Fault
  /\ toServer' = Append(toServer, Char(kind))
  /\ UNCHANGED <<toClient, server, client, asked, asks>>

GiveUp ==
  /\ client = "accepted" /\ Fault
  /\ client' = "idle"
  /\ UNCHANGED <<connection, server, asked, asks>>

\* What had not been sent is lost.
Leave ==
  /\ ~Gone /\ client' = "gone"
  /\ \E n \in 0 .. Len(toServer) : toServer' = SubSeq(toServer, 1, n)
  /\ UNCHANGED <<toClient, server, asked, asks, faults>>

SeeEnd ==
  /\ ~Gone /\ pc = "exited" /\ toClient = <<>>
  /\ client' = "gone"
  /\ UNCHANGED <<connection, server, asked, asks, faults>>

Client ==
  \/ \E r \in Asks : Ask(r)
  \/ SeeAck \/ SeeReply \/ Stray
  \/ Resend \/ GiveUp \/ \E kind \in {"-", "interrupt"} : Complain(kind)
  \/ Leave \/ SeeEnd

Next == Server \/ Client
Spec == Init /\ [][Next]_vars

\* The server runs whenever it does not wait; the client reads what arrives.
FairSpec ==
  /\ Spec
  /\ WF_vars(Server) /\ WF_vars(SeeAck) /\ WF_vars(SeeReply) /\ WF_vars(SeeEnd)

-----------------------------------------------------------------------------
(* Properties.                                                               *)

\* The list is only ever extended; its root is in front; what is answered is
\* what was asked, and only a connected server waits for characters it can get.
TypeOK ==
  /\ pc \in {"listen", "packet", "body", "checksum", "dispatch", "ack", "stuck", "exited"}
  /\ client \in {"idle", "sent", "accepted", "gone"}
  /\ buf = NoRequest \/ buf.cmd \in {"text", "X", "m", "unknown"}
  /\ (buf # NoRequest) = (pc \in {"checksum", "dispatch", "ack", "stuck"}) \/ pc = "exited"
  /\ (given # NoAnswer) = (pc \in {"ack", "stuck"})
  /\ regions[1] = Root /\ \A i \in 2 .. Len(regions) : regions[i].mem # <<>>
  /\ asks \in 0 .. MaxAsks /\ faults \in 0 .. MaxFaults

\* The server implements DebugSession: the packet being dispatched is the
\* request taken, the reply not yet acknowledged is the answer, and the memory
\* is what a look-up in the list finds at each address.
Session == INSTANCE DebugSession WITH
  open <- pc # "exited",
  request <- IF pc = "dispatch" THEN buf ELSE NoRequest,
  image <- [a \in Adrs |-> ReadByte(regions, a)],
  answer <- given
Implements == Session!Spec

\* A client that is not impatient and does not interrupt stays in step with the
\* server: a reply it reads is the one to its last request, and the server never
\* waits for an acknowledgement it has missed.
InStep ==
  faults = 0 =>
    /\ pc # "stuck"
    /\ client = "accepted" /\ toClient # <<>> /\ Head(toClient).kind = "reply"
         => Head(toClient).req = asked

\* An accepted request the server knows is answered, unless a side ends the
\* session or the client interferes.
Served ==
  (client = "accepted" /\ asked.cmd # "unknown") ~> (client # "accepted" \/ faults > 0)
=============================================================================
