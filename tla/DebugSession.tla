---------------------------- MODULE DebugSession ----------------------------
(***************************************************************************)
(* What the remote debugging server promises, without packets, checksums   *)
(* and memory lists: one request at a time is taken, answered and the      *)
(* answer acknowledged.  A download fills the bytes nobody has loaded yet, *)
(* a read returns a word of loaded bytes in the order of their addresses,  *)
(* and every other request leaves the memory alone.  The session may end   *)
(* at any time.                                                            *)
(***************************************************************************)
EXTENDS Integers, Sequences

CONSTANTS
  Adrs,       \* addresses a download can reach
  Word,       \* bytes in a word
  Bytes, Unmapped

Commands == {"text", "X", "m", "unknown"}
Requests == [cmd : Commands, adr : Nat, data : Seq(Bytes)]
Answers == [kind : {"text", "bytes"}, bytes : Seq(Bytes)]

\* Values outside the sets above: nothing is asked, nothing is answered.
NoRequest == [cmd |-> "none", adr |-> 0, data |-> <<>>]
NoAnswer == [kind |-> "none", bytes |-> <<>>]
Text == [kind |-> "text", bytes |-> <<>>]

VARIABLES
  open,
  request,    \* taken from the client and not yet answered
  image,      \* the memory the client has loaded
  answer      \* given and not yet acknowledged

session == <<open, request, image, answer>>

Init ==
  /\ open = TRUE
  /\ request = NoRequest
  /\ image = [a \in Adrs |-> Unmapped]
  /\ answer = NoAnswer

Take ==
  /\ open /\ request = NoRequest /\ answer = NoAnswer
  /\ request' \in Requests
  /\ UNCHANGED <<open, image, answer>>

Answered(a) ==
  /\ answer' = a
  /\ request' = NoRequest
  /\ UNCHANGED open

AnswerText == request.cmd = "text" /\ Answered(Text) /\ UNCHANGED image

\* The first download of a byte wins.
Download ==
  /\ request.cmd = "X"
  /\ Answered(Text)
  /\ image' = [a \in Adrs |->
       IF image[a] = Unmapped /\ a - request.adr + 1 \in DOMAIN request.data
       THEN request.data[a - request.adr + 1]
       ELSE image[a]]

ReadMemory ==
  /\ request.cmd = "m"
  /\ \A i \in 0 .. Word - 1 : request.adr + i \in Adrs /\ image[request.adr + i] # Unmapped
  /\ Answered([kind |-> "bytes", bytes |-> [i \in 1 .. Word |-> image[request.adr + i - 1]]])
  /\ UNCHANGED image

\* A request the server does not know is never answered.
Ignore == request.cmd = "unknown" /\ Answered(NoAnswer) /\ UNCHANGED image

Acknowledge == answer # NoAnswer /\ answer' = NoAnswer /\ UNCHANGED <<open, request, image>>

\* The memory goes with the session.
Close ==
  /\ open /\ open' = FALSE
  /\ request' = NoRequest /\ answer' = NoAnswer
  /\ image' \in [Adrs -> Bytes \cup {Unmapped}]

Next ==
  \/ Take
  \/ AnswerText \/ Download \/ ReadMemory \/ Ignore
  \/ Acknowledge
  \/ Close

Spec == Init /\ [][Next]_session
=============================================================================
