--------------------------- MODULE TestBench_proofs ---------------------------
(***************************************************************************)
(* The test bench, for any executable, any core, any options and any waits *)
(* of the memory: what the core sees of reset and of the keyboard, and     *)
(* what is logged of its exceptions.                                       *)
(***************************************************************************)
EXTENDS TestBench, SequenceTheorems, TLAPS

Phases == {"load", "powerup", "assert", "negate", "run", "flush", "exited", "undefined"}

\* Between the two steps of resetCore that show reset to the core, exactly one
\* is a rising edge.
ResetOK ==
  /\ phase \in {"load", "powerup", "assert"} => reset = 0 /\ seen.resets = 0
  /\ phase = "negate" => reset = 1 /\ seen.resets = (IF Rising THEN 0 ELSE 1)
  /\ phase \in {"run", "flush"} => reset = 0 /\ seen.resets = 1

Shown == IF uart = Nothing THEN <<>> ELSE <<uart>>
KeysOK ==
  /\ keys \in Seq(Bytes) /\ uart \in Bytes \cup {Nothing} /\ seen.keys \in Seq(Bytes)
  /\ phase \notin {"exited", "undefined"} => seen.keys \o Shown \o keys = Keys

EdgesOK ==
  /\ phase \in Phases /\ clock \in {0, 1} /\ DOMAIN seen = {"resets", "keys", "memory"}
  /\ ResetOK /\ KeysOK

-----------------------------------------------------------------------------
(* The edges.                                                                *)

LEMMA EdgesInit == Init => EdgesOK
<1> SUFFICES ASSUME Init PROVE EdgesOK
  OBVIOUS
<1>1. /\ phase = "load" /\ clock = 0 /\ reset = 0 /\ keys = Keys /\ uart = Nothing
      /\ seen.resets = 0 /\ seen.keys = <<>> /\ DOMAIN seen = {"resets", "keys", "memory"}
  BY DEF Init
<1>2. <<>> \o <<>> \o Keys = Keys
  BY BenchAssumption, EmptySeq, ConcatEmptySeq
<1> QED
  BY <1>1, <1>2, BenchAssumption, EmptySeq DEF EdgesOK, Phases, ResetOK, KeysOK, Shown

\* An edge hears the character that is shown; then the next one may be.
LEMMA KeysStep ==
  ASSUME KeysOK, phase \notin {"exited", "undefined"}, Getchar,
         seen'.keys = IF uart = Nothing THEN seen.keys ELSE Append(seen.keys, uart)
  PROVE  KeysOK'
<1>1. Nothing \notin Bytes
  BY ElfAssumption
<1> DEFINE heard == seen.keys \o Shown
<1>2. seen'.keys = heard /\ heard \in Seq(Bytes) /\ heard \o keys = Keys
  <2>1. CASE uart = Nothing
    BY <2>1, ConcatEmptySeq DEF KeysOK, Shown
  <2>2. CASE uart # Nothing
    <3>1. Append(seen.keys, uart) = seen.keys \o <<uart>>
      BY <2>2, AppendIsConcat DEF KeysOK
    <3>2. Append(seen.keys, uart) \in Seq(Bytes)
      BY <2>2, AppendProperties DEF KeysOK
    <3> QED
      BY <2>2, <3>1, <3>2 DEF KeysOK, Shown
  <2> QED
    BY <2>1, <2>2
<1> HIDE DEF heard
<1>3. CASE uart' = Nothing /\ keys' = keys
  <2>1. heard \o <<>> = heard
    BY <1>2, ConcatEmptySeq
  <2> QED
    BY <1>2, <1>3, <2>1 DEF KeysOK, Shown
<1>4. CASE keys # <<>> /\ uart' = Head(keys) /\ keys' = Tail(keys)
  <2>1. keys \in Seq(Bytes) /\ uart' \in Bytes /\ keys' \in Seq(Bytes) /\ <<uart'>> \in Seq(Bytes)
    BY <1>4, HeadTailProperties DEF KeysOK
  <2>2. <<Head(keys)>> \o Tail(keys) = keys
    BY <1>4, <2>1, HeadTailProperties, ConcatProperties, LenProperties, SeqEqual, EmptySeq
  <2>3. heard \o <<uart'>> \o keys' = heard \o (<<uart'>> \o keys')
    BY <1>2, <2>1, ConcatAssociative
  <2> QED
    BY <1>1, <1>2, <1>4, <2>1, <2>2, <2>3 DEF KeysOK, Shown
<1> QED
  BY <1>3, <1>4 DEF Getchar

LEMMA KeysKept ==
  ASSUME KeysOK, keys' = keys, uart' = uart, seen'.keys = seen.keys,
         phase' \notin {"exited", "undefined"} => phase \notin {"exited", "undefined"}
  PROVE  KeysOK'
BY DEF KeysOK, Shown

LEMMA EdgesStep ==
  ASSUME EdgesOK, [Next]_vars
  PROVE  EdgesOK'
<1> USE DEF EdgesOK
<1>1. CASE UNCHANGED vars
  BY <1>1, KeysKept DEF vars, clocks, terminal, Phases, ResetOK, Rising
<1>2. CASE LoadElf
  <2>1. /\ phase = "load" /\ phase' \in {"load", "exited", "undefined"}
        /\ UNCHANGED <<clock, reset, keys, uart, seen>>
    BY <1>2 DEF LoadElf, Quit, clocks, terminal
  <2> QED
    BY <2>1, KeysKept DEF Phases, ResetOK
<1>3. CASE ParseLogOpts
  <2>1. /\ phase = "load" /\ phase' \in {"powerup", "exited"}
        /\ UNCHANGED <<clock, reset, keys, uart>>
        /\ DOMAIN seen' = DOMAIN seen /\ seen'.resets = seen.resets /\ seen'.keys = seen.keys
    BY <1>3 DEF ParseLogOpts, Quit, clocks, terminal
  <2> QED
    BY <2>1, KeysKept DEF Phases, ResetOK
<1>4. CASE PowerUp
  BY <1>4, KeysKept DEF PowerUp, Tick, terminal, Phases, ResetOK, Rising
<1>5. CASE AssertReset \/ NegateReset
  <2>1. /\ \/ phase = "assert" /\ phase' = "negate"
           \/ phase = "negate" /\ phase' = "run"
        /\ clock' = 1 - clock /\ UNCHANGED <<keys, uart>> /\ seen'.keys = seen.keys
        /\ reset' = IF phase = "assert" THEN 1 ELSE 0
        /\ coreReset' = 1 /\ DOMAIN seen' = DOMAIN seen
        /\ seen'.resets = IF clock = 0 THEN seen.resets + 1 ELSE seen.resets
    BY <1>5 DEF AssertReset, NegateReset, Evaluated, Tick, Rising, terminal, ResetOK
  <2>2. KeysOK'
    BY <2>1, KeysKept
  <2> QED
    BY <2>1, <2>2 DEF Phases, ResetOK, Rising
<1>6. CASE StepDown
  <2>1. /\ phase \in {"run", "flush"} /\ phase' \in {phase, "exited"}
        /\ clock' = 1 - clock /\ UNCHANGED <<reset, keys, uart, seen>>
    BY <1>6 DEF StepDown, Tick, Quit, Running, terminal
  <2> QED
    BY <2>1, KeysKept DEF Phases, ResetOK
<1>7. CASE StepUp
  <2>1. PICK f, acc, delay, done, retire :
          IF Violation(f, acc)
          THEN Quit(255) /\ UNCHANGED terminal
          ELSE Observe(delay, done, retire)
    BY <1>7 DEF StepUp
  <2>2. /\ phase \in {"run", "flush"} /\ clock = 0 /\ clock' = 1 /\ reset' = reset
        /\ coreReset' = reset /\ seen'.resets = seen.resets + coreReset'
        /\ seen'.keys = IF uart = Nothing THEN seen.keys ELSE Append(seen.keys, uart)
        /\ DOMAIN seen' = DOMAIN seen
    BY <1>7 DEF StepUp, Running, Rising, Tick, Edge
  <2>3. CASE Violation(f, acc)
    <3>1. phase' = "exited" /\ UNCHANGED <<keys, uart>>
      BY <2>1, <2>3 DEF Quit, terminal
    <3>2. seen'.keys \in Seq(Bytes)
      BY <2>2, AppendProperties DEF KeysOK
    <3> QED
      BY <2>2, <3>1, <3>2 DEF Phases, ResetOK, KeysOK
  <2>4. CASE ~Violation(f, acc)
    <3>1. KeysOK'
      BY <2>1, <2>2, <2>4, KeysStep DEF Observe
    <3>2. phase' \in {"run", "flush", "exited", "undefined"}
      BY <2>1, <2>2, <2>4 DEF Observe, Returned, Quit
    <3> QED
      BY <2>2, <3>1, <3>2 DEF Phases, ResetOK
  <2> QED
    BY <2>3, <2>4
<1> QED
  BY <1>1, <1>2, <1>3, <1>4, <1>5, <1>6, <1>7 DEF Next

\* The core sees reset at one rising edge only and hears every character that is
\* typed once and in order, however many ticks it is held before, whatever it
\* asks of its buses and at whichever half clock the simulation goes on.
THEOREM EdgesAreCounted == Spec => []EdgesCounted
<1>1. EdgesOK => EdgesCounted
  BY DEF EdgesOK, EdgesCounted, ResetOK, KeysOK, Shown, Running
<1> QED
  BY <1>1, EdgesInit, EdgesStep, PTL DEF Spec

-----------------------------------------------------------------------------
(* The log.                                                                  *)

Logs == [got : {-1, 0, 1}, raised : Nat, printed : Seq(Nat), since : {0, 1, 2}]

\* What is in the log was raised before what is to be logged; what is to be
\* logged has been waiting as long as its delay allows; if nothing is, the last
\* exception is in the log.
LogBefore(l) ==
  /\ \A i \in DOMAIN l.printed : l.printed[i] <= l.raised /\ (l.got # -1 => l.printed[i] < l.raised)
  /\ \A i, j \in DOMAIN l.printed : i < j => l.printed[i] < l.printed[j]
LogTimely(l) ==
  /\ l.got = 1 => l.since = 0
  /\ l.got = 0 => l.since # 2
  /\ l.got = -1 /\ l.raised > 0 => l.printed # <<>> /\ l.printed[Len(l.printed)] = l.raised
LogOK ==
  /\ log \in Logs /\ LogBefore(log)
  /\ "e" \in options => LogTimely(log)
  /\ phase \in {"load", "powerup", "assert", "negate"} => log.raised = 0 /\ log.got = -1

LEMMA RaisedOK ==
  ASSUME LogOK, NEW delay, delay \in {0, 1} \/ delay = Nothing
  PROVE  LET l == Raised(log, delay) IN
           /\ l \in Logs
           /\ LogBefore(l) /\ ("e" \in options => LogTimely(l))
<1>1. CASE delay = Nothing
  BY <1>1 DEF Raised, LogOK, Logs
<1>2. CASE delay # Nothing
  <2> DEFINE l == Raised(log, delay)
  <2>1. /\ l = [got |-> delay, raised |-> log.raised + 1, printed |-> log.printed, since |-> 0]
        /\ delay \in {0, 1}
    BY <1>2 DEF Raised, LogOK, Logs
  <2>2. /\ l.got = delay /\ l.raised = log.raised + 1 /\ l.since = 0 /\ l.printed = log.printed
        /\ l \in Logs
    BY <2>1 DEF LogOK, Logs
  <2>3. \A i \in DOMAIN log.printed : log.printed[i] \in Nat
    BY LenProperties, ElementOfSeq DEF LogOK, Logs
  <2>4. LogBefore(l)
    BY <2>1, <2>2, <2>3 DEF LogOK, Logs, LogBefore
  <2>5. LogTimely(l)
    BY <2>1, <2>2 DEF LogTimely
  <2> QED
    BY <2>2, <2>4, <2>5
<1> QED
  BY <1>1, <1>2

LEMMA LoggedOK ==
  ASSUME NEW l \in Logs,
         LogBefore(l), "e" \in options => LogTimely(l)
  PROVE  /\ Logged(l) \in Logs
         /\ LogBefore(Logged(l)) /\ ("e" \in options => LogTimely(Logged(l)))
<1> DEFINE since == IF l.since < 2 THEN l.since + 1 ELSE l.since
<1>1. since \in {0, 1, 2} /\ l.printed \in Seq(Nat) /\ l.raised \in Nat /\ l.got \in {-1, 0, 1}
  BY DEF Logs
<1>2. CASE l.got = 0 /\ "e" \in options
  <2> DEFINE m == Logged(l)
             n == Len(l.printed)
  <2>1. m = [got |-> -1, raised |-> l.raised, printed |-> Append(l.printed, l.raised), since |-> since]
    BY <1>2 DEF Logged, Logs
  <2>2. /\ m.got = -1 /\ m.raised = l.raised /\ m.printed = Append(l.printed, l.raised)
        /\ m.since = since
        /\ m.printed \in Seq(Nat)
        /\ m \in Logs
    BY <1>1, <2>1, AppendProperties DEF Logs
  <2>3. /\ n \in Nat /\ DOMAIN l.printed = 1 .. n
        /\ DOMAIN m.printed = 1 .. n + 1 /\ Len(m.printed) = n + 1
        /\ m.printed[n + 1] = l.raised
        /\ \A i \in 1 .. n : m.printed[i] = l.printed[i] /\ l.printed[i] < l.raised
    BY <1>1, <1>2, <2>2, AppendProperties, LenProperties DEF LogBefore
  <2>4. LogBefore(m)
    <3>1. \A i \in 1 .. n : l.printed[i] \in Nat
      BY <1>1, <2>3, ElementOfSeq
    <3>2. ASSUME NEW i \in DOMAIN m.printed PROVE m.printed[i] <= m.raised
      BY <1>1, <2>2, <2>3, <3>1, <3>2
    <3>3. ASSUME NEW i \in DOMAIN m.printed, NEW j \in DOMAIN m.printed, i < j
          PROVE  m.printed[i] < m.printed[j]
      <4>1. CASE j = n + 1
        BY <2>3, <3>3, <4>1
      <4>2. CASE j # n + 1
        BY <2>3, <3>3, <4>2 DEF LogBefore
      <4> QED
        BY <4>1, <4>2
    <3> QED
      BY <2>2, <3>2, <3>3 DEF LogBefore
  <2>5. LogTimely(m)
    BY <2>2, <2>3, EmptySeq DEF LogTimely
  <2> QED
    BY <2>2, <2>4, <2>5
<1>3. CASE ~(l.got = 0 /\ "e" \in options)
  <2> DEFINE m == Logged(l)
  <2>1. m = [got |-> IF l.got = -1 THEN -1 ELSE l.got - 1, raised |-> l.raised,
             printed |-> l.printed, since |-> since]
    BY <1>3 DEF Logged, Logs
  <2>2. /\ m.got = (IF l.got = -1 THEN -1 ELSE l.got - 1) /\ m.raised = l.raised
        /\ m.printed = l.printed /\ m.since = since
        /\ m \in Logs
    BY <1>1, <2>1 DEF Logs
  <2>3. LogBefore(m)
    BY <2>2 DEF LogBefore
  <2>4. "e" \in options => LogTimely(m)
    BY <1>1, <1>3, <2>2 DEF LogTimely
  <2> QED
    BY <2>2, <2>3, <2>4
<1> QED
  BY <1>2, <1>3

LEMMA LogStep ==
  ASSUME LogOK, [Next]_vars
  PROVE  LogOK'
<1>1. CASE log' = log /\ (options' = options \/ (log.raised = 0 /\ log.got = -1))
           /\ (phase' \in {"load", "powerup", "assert", "negate"} =>
                 phase \in {"load", "powerup", "assert", "negate"})
  BY <1>1 DEF LogOK, Logs, LogBefore, LogTimely
<1>2. CASE StepUp
  <2>1. PICK f, acc, delay, done, retire :
          /\ delay \in {0, 1} \/ delay = Nothing
          /\ IF Violation(f, acc)
             THEN Quit(255) /\ UNCHANGED log
             ELSE Observe(delay, done, retire)
    BY <1>2 DEF StepUp, May
  <2>2. phase \in {"run", "flush"} /\ options' = options
    BY <1>2 DEF StepUp, Running
  <2>3. CASE Violation(f, acc)
    BY <1>1, <2>1, <2>2, <2>3 DEF Quit
  <2>4. CASE ~Violation(f, acc)
    <3> DEFINE l == Raised(log, delay)
    <3>1. log' \in {l, Logged(l)} /\ phase' \in {"run", "flush", "exited", "undefined"}
      BY <2>1, <2>2, <2>4 DEF Observe, Returned, Quit
    <3>2. /\ l \in Logs
          /\ LogBefore(l) /\ ("e" \in options => LogTimely(l))
      BY <2>1, RaisedOK
    <3> HIDE DEF l
    <3>3. /\ log' \in Logs /\ LogBefore(log') /\ ("e" \in options => LogTimely(log'))
      BY <3>1, <3>2, LoggedOK
    <3> QED
      BY <2>2, <3>1, <3>3 DEF LogOK, LogBefore, LogTimely
  <2> QED
    BY <2>3, <2>4
<1> QED
  BY <1>1, <1>2 DEF Next, vars, LoadElf, ParseLogOpts, PowerUp, AssertReset, NegateReset, StepDown,
                    Quit, Running, LogOK

\* No exception is logged twice or late, for any core and any way its exceptions
\* follow each other: an exception raised while another one waits takes its
\* place, and the wait never exceeds two retirements.
THEOREM LogIsFaithful == Spec => []LogFaithful
<1>1. Init => LogOK
  BY EmptySeq DEF Init, LogOK, Logs, LogBefore, LogTimely
<1>2. LogOK => LogFaithful
  BY DEF LogOK, Logs, LogBefore, LogTimely, LogFaithful
<1> QED
  BY <1>1, <1>2, LogStep, PTL DEF Spec

-----------------------------------------------------------------------------
(* The memory list: which entry an address is found in, and what is read     *)
(* there, after each of its operations.                                      *)

Memories == UNION {[0 .. n - 1 -> Bytes] : n \in Nat}
\* The provers do not know the literals to be strings.
Names == STRING \cup {"null", "RAM0"}
Areas == {e \in [name : Names, origin : Nat, length : Nat, mem : Memories] :
            e.mem \in [0 .. e.length - 1 -> Bytes]}

Found(list, a) == {i \in DOMAIN list : Covers(list[i], a)}

\* There is a first entry for every address that is in one.
HasFirst(list, a) ==
  Found(list, a) # {} => \E i \in Found(list, a) : \A j \in Found(list, a) : i <= j
ListOK(list) == list \in Seq(Areas) /\ \A a \in Nat : HasFirst(list, a)

LEMMA Indices ==
  ASSUME NEW list, ListOK(list)
  PROVE  /\ Len(list) \in Nat /\ DOMAIN list = 1 .. Len(list)
         /\ \A i \in DOMAIN list : i \in Nat /\ i # 0 /\ list[i] \in Areas
BY LenProperties, ElementOfSeq DEF ListOK

First(S) == CHOOSE i \in S : \A j \in S : i <= j

LEMMA FindsFirst ==
  ASSUME NEW list, NEW a
  PROVE  FindMemEntry(list, a) = IF Found(list, a) = {} THEN 0 ELSE First(Found(list, a))
BY DEF FindMemEntry, Found, First

\* find_mem_entry finds the first of them.
LEMMA FindIs ==
  ASSUME NEW list, ListOK(list), NEW a \in Nat
  PROVE  /\ Found(list, a) = {} => FindMemEntry(list, a) = 0
         /\ Found(list, a) # {} => /\ FindMemEntry(list, a) \in Found(list, a)
                                   /\ FindMemEntry(list, a) # 0
                                   /\ \A j \in Found(list, a) : FindMemEntry(list, a) <= j
<1>1. CASE Found(list, a) = {}
  BY <1>1, FindsFirst
<1>2. CASE Found(list, a) # {}
  <2>1. \E i \in Found(list, a) : \A j \in Found(list, a) : i <= j
    BY <1>2 DEF ListOK, HasFirst
  <2>2. FindMemEntry(list, a) = First(Found(list, a))
    BY <1>2, FindsFirst
  <2>3. /\ FindMemEntry(list, a) \in Found(list, a)
        /\ \A j \in Found(list, a) : FindMemEntry(list, a) <= j
    BY <2>1, <2>2 DEF First
  <2> QED BY <1>2, <2>3, Indices DEF Found
<1> QED BY <1>1, <1>2

LEMMA FindUnique ==
  ASSUME NEW list, ListOK(list), NEW a \in Nat,
         NEW i \in Found(list, a), \A j \in Found(list, a) : i <= j
  PROVE  FindMemEntry(list, a) = i
<1>1. FindMemEntry(list, a) \in Found(list, a) /\ FindMemEntry(list, a) <= i
  BY FindIs
<1>2. i <= FindMemEntry(list, a) /\ i \in Nat /\ FindMemEntry(list, a) \in Nat
  BY <1>1, Indices DEF Found
<1> QED BY <1>1, <1>2

\* What is found is an area the address lies in, with a byte at it.
LEMMA FoundArea ==
  ASSUME NEW list, ListOK(list), NEW a \in Nat, FindMemEntry(list, a) # 0
  PROVE  LET e == list[FindMemEntry(list, a)] IN
           /\ FindMemEntry(list, a) \in DOMAIN list /\ e \in Areas /\ Covers(e, a)
           /\ a - e.origin \in 0 .. e.length - 1
           /\ Loaded(e, a) = e.mem[a - e.origin]
<1>1. FindMemEntry(list, a) \in Found(list, a)
  BY FindIs
<1> DEFINE e == list[FindMemEntry(list, a)]
<1>2. FindMemEntry(list, a) \in DOMAIN list /\ e \in Areas /\ Covers(e, a)
  BY <1>1, Indices DEF Found
<1>3. a - e.origin \in 0 .. e.length - 1
  BY <1>2 DEF Covers, Areas
<1> QED BY <1>2, <1>3 DEF Loaded

\* A list that differs in the contents of its areas only
Alike(list, new) ==
  /\ DOMAIN new = DOMAIN list
  /\ \A i \in DOMAIN list : new[i].name = list[i].name /\ new[i].origin = list[i].origin
                              /\ new[i].length = list[i].length

LEMMA AlikeFinds ==
  ASSUME NEW list, NEW new, Alike(list, new), NEW a
  PROVE  /\ FindMemEntry(new, a) = FindMemEntry(list, a)
         /\ Found(new, a) = Found(list, a)
         /\ \A i \in DOMAIN list : Covers(new[i], a) <=> Covers(list[i], a)
<1>1. \A i \in DOMAIN list : Covers(new[i], a) <=> Covers(list[i], a)
  BY DEF Alike, Covers
<1>2. Found(new, a) = Found(list, a)
  BY <1>1 DEF Found, Alike
<1>3. FindMemEntry(new, a) = FindMemEntry(list, a)
  BY <1>2, FindsFirst
<1> QED BY <1>1, <1>2, <1>3

\* insert_new_mem: what was found is still found, with what it holds.
LEMMA Inserted ==
  ASSUME NEW list, ListOK(list), NEW name \in Names, NEW origin \in Nat, NEW length \in Nat
  PROVE  LET new == InsertNewMem(list, name, origin, length) IN
           /\ ListOK(new)
           /\ DOMAIN new = 1 .. Len(list) + 1
           /\ \A i \in DOMAIN list : new[i] = list[i]
           /\ new[Len(list) + 1] = Entry(name, origin, length, NewMem(length))
           /\ \A a \in Nat : FindMemEntry(list, a) # 0 => FindMemEntry(new, a) = FindMemEntry(list, a)
<1> DEFINE new == InsertNewMem(list, name, origin, length)
           e == Entry(name, origin, length, NewMem(length))
           n == Len(list)
<1>1. e \in Areas
  <2>1. NewMem(length) \in [0 .. length - 1 -> Bytes]
    BY ElfAssumption DEF NewMem
  <2> QED BY <2>1 DEF Entry, Areas, Memories
<1>0. new = Append(list, e)
  BY DEF InsertNewMem
<1> HIDE DEF e, new
<1>2. /\ list \in Seq(Areas) /\ n \in Nat /\ DOMAIN list = 1 .. n
      /\ new \in Seq(Areas) /\ DOMAIN new = 1 .. n + 1
      /\ \A i \in 1 .. n : new[i] = list[i]
      /\ new[n + 1] = e
  <2>1. list \in Seq(Areas) /\ n \in Nat /\ DOMAIN list = 1 .. n
    BY LenProperties DEF ListOK
  <2>2. /\ new \in Seq(Areas) /\ Len(new) = n + 1
        /\ \A i \in 1 .. n : new[i] = list[i]
        /\ new[n + 1] = e
    BY <1>0, <1>1, <2>1, AppendProperties
  <2> QED BY <2>1, <2>2, LenProperties
<1>3. ASSUME NEW a \in Nat
      PROVE  Found(new, a) = Found(list, a) \cup (IF Covers(e, a) THEN {n + 1} ELSE {})
  BY <1>2 DEF Found
<1>4. ASSUME NEW a \in Nat PROVE Found(list, a) \subseteq 1 .. n
  BY <1>2 DEF Found
<1>5. ASSUME NEW a \in Nat, NEW i \in Found(list, a), \A j \in Found(list, a) : i <= j
      PROVE  i \in Found(new, a) /\ \A j \in Found(new, a) : i <= j
  BY <1>2, <1>3, <1>4, <1>5
<1>6. ASSUME NEW a \in Nat PROVE HasFirst(new, a)
  <2>1. CASE Found(list, a) # {}
    BY <1>5, <2>1 DEF ListOK, HasFirst
  <2>2. CASE Found(list, a) = {}
    BY <1>2, <1>3, <2>2 DEF HasFirst
  <2> QED BY <2>1, <2>2
<1>7. ListOK(new)
  BY <1>2, <1>6 DEF ListOK
<1>8. ASSUME NEW a \in Nat, FindMemEntry(list, a) # 0
      PROVE  FindMemEntry(new, a) = FindMemEntry(list, a)
  <2>1. /\ FindMemEntry(list, a) \in Found(list, a)
        /\ \A j \in Found(list, a) : FindMemEntry(list, a) <= j
    BY <1>8, FindIs
  <2>2. /\ FindMemEntry(list, a) \in Found(new, a)
        /\ \A j \in Found(new, a) : FindMemEntry(list, a) <= j
    BY <1>5, <2>1
  <2> QED BY <1>7, <2>2, FindUnique
<1> QED BY <1>2, <1>7, <1>8 DEF e, new

\* load_section: the bytes of the section where it goes, the others as before.
LEMMA LoadedSection ==
  ASSUME NEW list, ListOK(list), NEW s \in Sections, FindMemEntry(list, s.vma) # 0
  PROVE  LET new == LoadSection(list, s) IN
           /\ ListOK(new) /\ Alike(list, new)
           /\ \A a \in Nat : FindMemEntry(list, a) # 0 =>
                LET i == FindMemEntry(list, a)
                    k == a - s.vma + 1 IN
                Loaded(new[i], a) = IF i = FindMemEntry(list, s.vma) /\ k \in DOMAIN s.data
                                    THEN s.data[k] ELSE Loaded(list[i], a)
<1> DEFINE new == LoadSection(list, s)
           i == FindMemEntry(list, s.vma)
           start == s.vma - list[i].origin
           mem == [o \in DOMAIN list[i].mem |->
                     IF o - start + 1 \in DOMAIN s.data THEN s.data[o - start + 1] ELSE list[i].mem[o]]
<1>1. s.vma \in Nat /\ s.data \in Seq(Bytes) /\ i \in DOMAIN list /\ list[i] \in Areas
  BY FoundArea DEF Sections
<1>2. new = [list EXCEPT ![i].mem = mem]
  BY DEF LoadSection
<1>3. list \in [1 .. Len(list) -> Areas] /\ Len(list) \in Nat
  BY LenProperties, SeqDef DEF ListOK
<1>4. list[i].mem \in [0 .. list[i].length - 1 -> Bytes] /\ list[i].length \in Nat /\ list[i].origin \in Nat
  BY <1>1 DEF Areas
<1>5. mem \in [0 .. list[i].length - 1 -> Bytes]
  BY <1>1, <1>4, ElementOfSeq, LenProperties
<1> HIDE DEF mem
<1>6. /\ DOMAIN new = DOMAIN list
      /\ new[i] = [list[i] EXCEPT !.mem = mem]
      /\ \A j \in DOMAIN list : j # i => new[j] = list[j]
  BY <1>1, <1>2, <1>3
<1>7. /\ new[i] \in Areas /\ new[i].mem = mem /\ new[i].name = list[i].name
      /\ new[i].origin = list[i].origin /\ new[i].length = list[i].length
  <2>1. mem \in Memories
    BY <1>4, <1>5 DEF Memories
  <2> QED BY <1>1, <1>5, <1>6, <2>1 DEF Areas
<1> HIDE DEF new
<1>8. new \in Seq(Areas)
  <2>1. new = [j \in 1 .. Len(list) |-> new[j]]
    BY <1>2, <1>3, <1>6
  <2>2. \A j \in 1 .. Len(list) : new[j] \in Areas
    BY <1>3, <1>6, <1>7
  <2>3. new \in [1 .. Len(list) -> Areas]
    BY <2>1, <2>2
  <2> QED BY <1>3, <2>3, SeqDef
<1>9. Alike(list, new)
  BY <1>6, <1>7 DEF Alike
<1>10. ListOK(new)
  BY <1>8, <1>9, AlikeFinds DEF ListOK, HasFirst
<1>11. ASSUME NEW a \in Nat, FindMemEntry(list, a) # 0
       PROVE  LET j == FindMemEntry(list, a)
                  k == a - s.vma + 1 IN
              Loaded(new[j], a) = IF j = i /\ k \in DOMAIN s.data THEN s.data[k]
                                  ELSE Loaded(list[j], a)
  <2> DEFINE j == FindMemEntry(list, a)
  <2>1. /\ j \in DOMAIN list /\ Covers(list[j], a)
        /\ a - list[j].origin \in 0 .. list[j].length - 1
        /\ Loaded(list[j], a) = list[j].mem[a - list[j].origin]
    BY <1>11, FoundArea
  <2>2. Loaded(new[j], a) = new[j].mem[a - list[j].origin]
    BY <1>9, <2>1, AlikeFinds DEF Loaded, Alike
  <2>3. CASE j = i
    <3>1. (a - list[i].origin) - start + 1 = a - s.vma + 1
      BY <1>1, <1>4
    <3>2. mem[a - list[i].origin] =
            IF (a - list[i].origin) - start + 1 \in DOMAIN s.data
            THEN s.data[(a - list[i].origin) - start + 1] ELSE list[i].mem[a - list[i].origin]
      BY <1>4, <2>1, <2>3 DEF mem
    <3> QED BY <1>7, <2>1, <2>2, <2>3, <3>1, <3>2
  <2>4. CASE j # i
    BY <1>6, <2>1, <2>2, <2>4
  <2> QED BY <2>3, <2>4
<1> QED BY <1>9, <1>10, <1>11 DEF new

\* write_byte, write_halfword, write_word: the bytes written, the others as before.
LEMMA Written ==
  ASSUME NEW list, ListOK(list), NEW adr \in Nat, NEW bytes \in Seq(Bytes)
  PROVE  LET new == WriteMem(list, adr, bytes) IN
           /\ ListOK(new) /\ Alike(list, new)
           /\ \A a \in Nat : FindMemEntry(list, a) # 0 =>
                LET i == FindMemEntry(list, a)
                    k == a - adr + 1 IN
                Loaded(new[i], a) = IF k \in DOMAIN bytes THEN bytes[k] ELSE Loaded(list[i], a)
<1> DEFINE new == WriteMem(list, adr, bytes)
           At(i, o) == list[i].origin + o - adr + 1
           Hit(i, o) == At(i, o) \in DOMAIN bytes /\ FindMemEntry(list, adr + At(i, o) - 1) = i
           mem(i) == [o \in DOMAIN list[i].mem |->
                        IF Hit(i, o) THEN bytes[At(i, o)] ELSE list[i].mem[o]]
<1>1. new = [i \in DOMAIN list |-> [list[i] EXCEPT !.mem = mem(i)]]
  BY DEF WriteMem
<1>2. list \in [1 .. Len(list) -> Areas] /\ Len(list) \in Nat /\ DOMAIN list = 1 .. Len(list)
  BY LenProperties, SeqDef DEF ListOK
<1>3. ASSUME NEW i \in DOMAIN list
      PROVE  list[i].mem \in [0 .. list[i].length - 1 -> Bytes] /\ list[i].length \in Nat
             /\ list[i].origin \in Nat /\ list[i] \in Areas
  BY <1>2 DEF Areas
<1>4. ASSUME NEW i \in DOMAIN list
      PROVE  mem(i) \in [0 .. list[i].length - 1 -> Bytes]
  <2>1. \A k \in DOMAIN bytes : bytes[k] \in Bytes
    BY ElementOfSeq, LenProperties
  <2> QED BY <1>3, <2>1
<1>5. ASSUME NEW i \in DOMAIN list
      PROVE  /\ new[i] = [list[i] EXCEPT !.mem = mem(i)]
             /\ new[i] \in Areas /\ new[i].mem = mem(i) /\ new[i].name = list[i].name
             /\ new[i].origin = list[i].origin /\ new[i].length = list[i].length
  <2> DEFINE m == mem(i)
  <2>1. m \in Memories /\ m \in [0 .. list[i].length - 1 -> Bytes]
    BY <1>3, <1>4 DEF Memories
  <2>2. new[i] = [list[i] EXCEPT !.mem = m]
    BY <1>1
  <2> HIDE DEF m, new
  <2>3. /\ new[i] \in Areas /\ new[i].mem = m /\ new[i].name = list[i].name
        /\ new[i].origin = list[i].origin /\ new[i].length = list[i].length
    BY <1>3, <2>1, <2>2 DEF Areas
  <2> QED BY <2>2, <2>3 DEF m
<1>6. DOMAIN new = DOMAIN list /\ new = [j \in 1 .. Len(list) |-> new[j]]
  BY <1>1, <1>2
<1> HIDE DEF new
<1>7. new \in Seq(Areas)
  <2>1. \A j \in 1 .. Len(list) : new[j] \in Areas
    BY <1>2, <1>5
  <2>2. new \in [1 .. Len(list) -> Areas]
    BY <1>6, <2>1
  <2> QED BY <1>2, <2>2, SeqDef
<1>8. Alike(list, new)
  BY <1>5, <1>6 DEF Alike
<1>9. ListOK(new)
  BY <1>7, <1>8, AlikeFinds DEF ListOK, HasFirst
<1>10. ASSUME NEW a \in Nat, FindMemEntry(list, a) # 0
       PROVE  LET i == FindMemEntry(list, a)
                  k == a - adr + 1 IN
              Loaded(new[i], a) = IF k \in DOMAIN bytes THEN bytes[k] ELSE Loaded(list[i], a)
  <2> DEFINE i == FindMemEntry(list, a)
             k == a - adr + 1
             o == a - list[i].origin
  <2>1. /\ i \in DOMAIN list /\ Covers(list[i], a)
        /\ o \in 0 .. list[i].length - 1
        /\ Loaded(list[i], a) = list[i].mem[o]
    BY <1>10, FoundArea
  <2>2. Loaded(new[i], a) = mem(i)[o]
    BY <1>5, <1>8, <2>1, AlikeFinds DEF Loaded
  <2>3. At(i, o) = k /\ adr + At(i, o) - 1 = a
    BY <1>3, <2>1
  <2>4. mem(i)[o] = IF Hit(i, o) THEN bytes[At(i, o)] ELSE list[i].mem[o]
    BY <1>3, <2>1
  <2>5. Hit(i, o) <=> k \in DOMAIN bytes
    BY <2>3
  <2> QED BY <2>1, <2>2, <2>3, <2>4, <2>5
<1> QED BY <1>8, <1>9, <1>10 DEF new

LEMMA InitialList ==
  LET list == InsertNewMem(MemList, "RAM0", RamOrigin, RamLength) IN
    /\ ListOK(list) /\ DOMAIN list = {1, 2}
    /\ list[1].name = "null" /\ list[2].origin = RamOrigin
<1> DEFINE root == Entry("null", 0, 0, NewMem(0))
<1>1. root \in Areas /\ root.name = "null"
  <2>1. NewMem(0) \in [0 .. 0 - 1 -> Bytes]
    BY DEF NewMem
  <2> QED BY <2>1 DEF Entry, Areas, Memories, Names
<1> HIDE DEF root
<1>2. MemList = <<root>>
  BY DEF MemList, root
<1>3. MemList \in Seq(Areas) /\ DOMAIN MemList = {1} /\ MemList[1] = root /\ Len(MemList) = 1
  BY <1>1, <1>2
<1>4. ASSUME NEW a \in Nat PROVE Found(MemList, a) = {}
  BY <1>1, <1>3 DEF Found, Covers
<1>5. ListOK(MemList)
  BY <1>3, <1>4 DEF ListOK, HasFirst
<1> DEFINE list == InsertNewMem(MemList, "RAM0", RamOrigin, RamLength)
<1>6. RamOrigin \in Nat /\ RamLength \in Nat /\ "RAM0" \in Names
  BY MemoryAssumption DEF Names
<1>7. /\ ListOK(list) /\ DOMAIN list = 1 .. Len(MemList) + 1
      /\ \A i \in DOMAIN MemList : list[i] = MemList[i]
      /\ list[Len(MemList) + 1] = Entry("RAM0", RamOrigin, RamLength, NewMem(RamLength))
  BY <1>5, <1>6, Inserted
<1>8. list[2].origin = RamOrigin
  BY <1>3, <1>7 DEF Entry
<1> HIDE DEF list
<1>9. DOMAIN list = {1, 2} /\ list[1].name = "null"
  BY <1>1, <1>3, <1>7
<1> QED BY <1>7, <1>8, <1>9 DEF list

LEMMA PlacedOK ==
  ASSUME NEW list, ListOK(list), NEW s \in Sections
  PROVE  LET new == Placed(list, s) IN
           /\ ListOK(new)
           /\ \A i \in DOMAIN list : i \in DOMAIN new /\ new[i] = list[i]
           /\ \A i \in DOMAIN new : i \in DOMAIN list \/ (s.alloc /\ new[i].origin = s.vma)
           /\ \A a \in Nat : FindMemEntry(list, a) # 0 => FindMemEntry(new, a) = FindMemEntry(list, a)
<1>1. CASE Placed(list, s) = list
  BY <1>1
<1>2. CASE s.alloc /\ Placed(list, s) = InsertNewMem(list, s.name, s.vma, s.size + Margin)
  <2>1. s.name \in Names /\ s.vma \in Nat /\ s.size + Margin \in Nat
    BY ElfAssumption DEF Sections, Names
  <2> DEFINE new == InsertNewMem(list, s.name, s.vma, s.size + Margin)
  <2>2. /\ ListOK(new)
        /\ DOMAIN new = 1 .. Len(list) + 1
        /\ \A i \in DOMAIN list : new[i] = list[i]
        /\ new[Len(list) + 1] = Entry(s.name, s.vma, s.size + Margin, NewMem(s.size + Margin))
        /\ \A a \in Nat : FindMemEntry(list, a) # 0 => FindMemEntry(new, a) = FindMemEntry(list, a)
    BY <2>1, Inserted
  <2>3. new[Len(list) + 1].origin = s.vma
    BY <2>2 DEF Entry
  <2>4. DOMAIN list = 1 .. Len(list) /\ Len(list) \in Nat
    BY Indices
  <2> HIDE DEF new
  <2>5. \A i \in DOMAIN list : i \in DOMAIN new
    BY <2>2, <2>4
  <2>6. \A i \in DOMAIN new : i \in DOMAIN list \/ i = Len(list) + 1
    BY <2>2, <2>4
  <2> QED BY <1>2, <2>2, <2>3, <2>5, <2>6 DEF new
<1> QED BY <1>1, <1>2 DEF Placed

\* The i-th section is the first one of its name.
FirstNamed(i, name) ==
  /\ image[i].name = name
  /\ \A j \in DOMAIN image : image[j].name = name => i <= j
\* Each section up to the next one bears a name that has a first section.
NamesOK ==
  \A k \in DOMAIN image : k <= section => \E i \in DOMAIN image : FirstNamed(i, image[k].name)

\* The list is one, whatever is loaded and whatever the core writes.
MemoryOK ==
  /\ ListOK(memory) /\ NamesOK
  /\ image \in Images /\ section \in Nat \ {0}
  /\ fetch \in Fetches \cup {Nothing} /\ access \in Accesses \cup {Nothing}

LEMMA SectionIs ==
  ASSUME MemoryOK, section <= Len(image)
  PROVE  /\ section \in DOMAIN image
         /\ image[section] \in Sections /\ Len(image[section].data) <= image[section].size
<1>1. image \in Seq(Sections) /\ section \in 1 .. Len(image)
  BY MemoryAssumption, LenProperties DEF MemoryOK
<1> QED BY <1>1, MemoryAssumption, LenProperties, ElementOfSeq DEF MemoryOK

\* The section load_section works on: the next one, if no other has its name
Named == SectionByName(image, image[section].name)
LEMMA NamedIs ==
  ASSUME MemoryOK, section <= Len(image)
  PROVE  Named \in Sections /\ (DistinctNames(image) => Named = image[section])
<1> DEFINE name == image[section].name
           first == CHOOSE i \in DOMAIN image : FirstNamed(i, name)
<1>1. section \in DOMAIN image /\ section <= section
  BY SectionIs DEF MemoryOK
<1>2. first \in DOMAIN image /\ FirstNamed(first, name)
  BY <1>1 DEF MemoryOK, NamesOK
<1>3. Named = image[first]
  BY DEF Named, SectionByName, FirstNamed
<1>4. image[first] \in Sections
  BY <1>2, MemoryAssumption, ElementOfSeq, LenProperties DEF MemoryOK
<1> QED BY <1>1, <1>2, <1>3, <1>4 DEF FirstNamed, DistinctNames

LEMMA NamesStep ==
  ASSUME MemoryOK, image' = image,
         section' = section \/ (section' = section + 1 /\ section <= Len(image))
  PROVE  NamesOK'
<1> SUFFICES ASSUME NEW k \in DOMAIN image, k <= section'
             PROVE  \E i \in DOMAIN image : FirstNamed(i, image[k].name)
  BY DEF NamesOK, FirstNamed
<1>1. DOMAIN image = 1 .. Len(image) /\ Len(image) \in Nat /\ section \in Nat
  BY MemoryAssumption, LenProperties DEF MemoryOK
<1>2. CASE k <= section
  BY <1>2 DEF MemoryOK, NamesOK
<1>3. CASE k = section + 1 /\ \E j \in DOMAIN image : j <= section /\ image[j].name = image[k].name
  <2>1. PICK j \in DOMAIN image : j <= section /\ image[j].name = image[k].name
    BY <1>3
  <2>2. \E i \in DOMAIN image : FirstNamed(i, image[j].name)
    BY <2>1 DEF MemoryOK, NamesOK
  <2> QED BY <2>1, <2>2
<1>4. CASE k = section + 1 /\ \A j \in DOMAIN image : j <= section => image[j].name # image[k].name
  <2>1. \A j \in DOMAIN image : image[j].name = image[k].name => k <= j
    BY <1>1, <1>4
  <2> QED BY <2>1 DEF FirstNamed
<1> QED BY <1>1, <1>2, <1>3, <1>4

\* What LoadElf does with the list
Loads(placed) ==
  IF image[section].load
  THEN /\ FindMemEntry(placed, Named.vma) # 0 /\ ~Overruns(placed, Named)
       /\ memory' = LoadSection(placed, Named)
  ELSE memory' = placed
LEMMA LoadElfIs ==
  ASSUME LoadElf
  PROVE  /\ phase = "load" /\ section <= Len(image)
         /\ UNCHANGED <<image, fetch, access, seen, ibus, dbus, clock>>
         /\ \/ phase' \in {"exited", "undefined"} /\ section' \in {section, section + 1}
               /\ UNCHANGED memory
            \/ phase' = "load" /\ section' = section + 1 /\ Loads(Placed(memory, image[section]))
BY DEF LoadElf, Loads, Named, Quit, clocks, buses

LEMMA MemoryInit == Init => MemoryOK
<1> SUFFICES ASSUME Init PROVE MemoryOK
  OBVIOUS
<1>1. ASSUME NEW k \in DOMAIN image, k <= section
      PROVE  FirstNamed(k, image[k].name)
  <2>1. DOMAIN image = 1 .. Len(image) /\ Len(image) \in Nat /\ section = 1
    BY MemoryAssumption, LenProperties DEF Init
  <2> QED BY <1>1, <2>1 DEF FirstNamed
<1> QED BY <1>1, InitialList DEF Init, MemoryOK, NamesOK

LEMMA ServesWrites ==
  ASSUME MemoryOK, NEW acc \in Accesses \cup {Nothing}, ServeDmem(acc)
  PROVE  ListOK(memory')
<1>1. CASE memory' = memory
  BY <1>1 DEF MemoryOK
<1>2. CASE memory' = WriteMem(memory, acc.adr, acc.data) /\ acc # Nothing
  <2>1. acc.adr \in Nat /\ acc.data \in Seq(Bytes)
    BY <1>2, MemoryAssumption
  <2> QED BY <1>2, <2>1, Written DEF MemoryOK
<1> QED BY <1>1, <1>2 DEF ServeDmem

LEMMA MemoryStep ==
  ASSUME MemoryOK, [Next]_vars
  PROVE  MemoryOK'
<1>0. ListOK(memory)' <=> ListOK(memory')
  BY DEF ListOK, HasFirst, Found, Covers
<1>1. CASE UNCHANGED <<memory, image, section, fetch, access>>
  BY <1>0, <1>1, NamesStep DEF MemoryOK
<1>2. CASE LoadElf
  <2>1. image[section] \in Sections
    BY <1>2, LoadElfIs, SectionIs
  <2>2. ListOK(Placed(memory, image[section]))
    BY <2>1, PlacedOK DEF MemoryOK
  <2>3. ListOK(memory')
    BY <1>2, <2>1, <2>2, LoadElfIs, NamedIs, LoadedSection DEF Loads, MemoryOK
  <2>4. NamesOK'
    BY <1>2, LoadElfIs, NamesStep
  <2> QED BY <1>0, <1>2, <2>3, <2>4, LoadElfIs DEF MemoryOK
<1>3. CASE StepUp
  <2>1. PICK f \in Fetches \cup {Nothing}, acc \in NextAccesses : 
               fetch' = f /\ access' = acc /\ ServeDmem(acc)
    BY <1>3 DEF StepUp
  <2>2. acc \in Accesses \cup {Nothing}
    BY <2>1 DEF NextAccesses, May, MemoryOK
  <2> QED BY <1>0, <1>3, <2>1, <2>2, ServesWrites, NamesStep DEF StepUp, MemoryOK
<1>4. CASE StepDown
  BY <1>0, <1>4, ServesWrites, NamesStep DEF StepDown, MemoryOK
<1> QED BY <1>1, <1>2, <1>3, <1>4
        DEF Next, vars, loader, buses, ParseLogOpts, PowerUp, AssertReset, NegateReset

-----------------------------------------------------------------------------
(* Loading.  As a linker lays them out, the sections that take up memory lie *)
(* apart, and none of them begins in front of RAM and ends in it.            *)
Occupies(s) == s.alloc \/ s.load
Apart(s, t) == s.vma + s.size <= t.vma \/ t.vma + t.size <= s.vma
WellLinked ==
  \A i \in Images : \A k \in DOMAIN i : Occupies(i[k]) =>
    /\ \A l \in DOMAIN i \ {k} : Occupies(i[l]) => Apart(i[k], i[l])
    /\ i[k].vma + i[k].size <= RamOrigin \/ RamOrigin <= i[k].vma

\* A section reads back from the list.
ReadsBack(list, s) ==
  \A k \in DOMAIN s.data : LET a == s.vma + k - 1 IN
    FindMemEntry(list, a) # 0 /\ Loaded(list[FindMemEntry(list, a)], a) = s.data[k]

\* An area begins where RAM or a section does.
Begins(list) ==
  \A i \in DOMAIN list : \/ list[i].name = "null" \/ list[i].origin = RamOrigin
                         \/ \E k \in DOMAIN image : image[k].alloc /\ list[i].origin = image[k].vma

LoadOK ==
  /\ phase = "load" => Begins(memory)
  /\ phase \in {"load", "powerup"} /\ DistinctNames(image) =>
       \A k \in DOMAIN image : k < section /\ image[k].load => ReadsBack(memory, image[k])
  /\ phase = "powerup" => section > Len(image)

LEMMA ImageIs ==
  ASSUME MemoryOK
  PROVE  /\ Len(image) \in Nat /\ DOMAIN image = 1 .. Len(image)
         /\ \A k \in DOMAIN image :
              /\ k \in Nat
              /\ image[k] \in Sections /\ image[k].vma \in Nat /\ image[k].size \in Nat
              /\ image[k].data \in Seq(Bytes) /\ Len(image[k].data) \in Nat
              /\ DOMAIN image[k].data = 1 .. Len(image[k].data)
              /\ Len(image[k].data) <= image[k].size
<1>1. image \in Seq(Sections)
  BY MemoryAssumption DEF MemoryOK
<1>2. ASSUME NEW k \in DOMAIN image
      PROVE  image[k] \in Sections /\ Len(image[k].data) <= image[k].size
  BY <1>1, <1>2, MemoryAssumption, LenProperties, ElementOfSeq DEF MemoryOK
<1> QED BY <1>1, <1>2, LenProperties DEF Sections

(* All the bytes of a section are found in the area its first one is found   *)
(* in: no other area begins among them.                                      *)
LEMMA OneArea ==
  ASSUME WellLinked, MemoryOK, NEW n \in DOMAIN image, image[n].load,
         NEW list, ListOK(list), Begins(list),
         FindMemEntry(list, image[n].vma) # 0, ~Overruns(list, image[n]),
         NEW k \in DOMAIN image[n].data
  PROVE  FindMemEntry(list, image[n].vma + k - 1) = FindMemEntry(list, image[n].vma)
<1> DEFINE s == image[n]
           a == s.vma + k - 1
           i == FindMemEntry(list, s.vma)
<1>1. /\ s \in Sections /\ s.vma \in Nat /\ s.size \in Nat /\ Len(s.data) \in Nat
      /\ k \in 1 .. Len(s.data) /\ Len(s.data) <= s.size
  BY ImageIs
<1>2. a \in Nat /\ s.vma <= a /\ a < s.vma + s.size
  BY <1>1
<1>3. /\ i \in Found(list, s.vma) /\ i \in DOMAIN list /\ list[i] \in Areas
      /\ Covers(list[i], s.vma)
      /\ \A j \in Found(list, s.vma) : i <= j
  BY <1>1, FindIs, FoundArea
<1>4. s.vma + Len(s.data) <= list[i].origin + list[i].length
      /\ list[i].origin \in Nat /\ list[i].length \in Nat
  BY <1>1, <1>3 DEF Overruns, Areas
<1>5. i \in Found(list, a)
  BY <1>1, <1>3, <1>4 DEF Found, Covers
<1>6. ASSUME NEW j \in Found(list, a) PROVE i <= j
  <2>1. j \in DOMAIN list /\ list[j] \in Areas /\ Covers(list[j], a)
    BY Indices DEF Found
  <2>2. list[j].origin \in Nat /\ list[j].length \in Nat
    BY <2>1 DEF Areas
  <2>3. ~(s.vma < list[j].origin)
    <3> SUFFICES ASSUME s.vma < list[j].origin PROVE FALSE
      OBVIOUS
    <3>1. list[j].name # "null" /\ list[j].origin < s.vma + s.size
      <4>1. list[j].name # "null" /\ list[j].origin <= a
        BY <2>1 DEF Covers
      <4> HIDE DEF a
      <4> QED BY <1>1, <1>2, <2>2, <4>1
    <3>2. list[j].origin # RamOrigin
      <4>1. s.vma + s.size <= RamOrigin \/ RamOrigin <= s.vma
        BY DEF WellLinked, MemoryOK, Occupies
      <4> QED BY <1>1, <2>2, <3>1, <4>1
    <3>3. PICK m \in DOMAIN image : image[m].alloc /\ list[j].origin = image[m].vma
      BY <2>1, <3>1, <3>2 DEF Begins
    <3>4. m # n
      BY <1>1, <3>3
    <3>5. Apart(s, image[m])
      BY <3>3, <3>4 DEF WellLinked, MemoryOK, Occupies
    <3>6. image[m].vma \in Nat /\ image[m].size \in Nat
      BY ImageIs
    <3> QED BY <1>1, <3>1, <3>3, <3>5, <3>6 DEF Apart
  <2>4. j \in Found(list, s.vma)
    BY <1>1, <1>2, <2>1, <2>2, <2>3 DEF Found, Covers
  <2> QED BY <1>3, <2>4
<1> QED BY <1>2, <1>5, <1>6, FindUnique

LEMMA LoadStep ==
  ASSUME WellLinked, MemoryOK, LoadOK, LoadElf
  PROVE  LoadOK'
<1>1. CASE phase' \in {"exited", "undefined"}
  BY <1>1 DEF LoadOK
<1>2. CASE phase' = "load" /\ section' = section + 1 /\ Loads(Placed(memory, image[section]))
  <2> DEFINE s == image[section]
             placed == Placed(memory, s)
  <2>1. image' = image /\ phase = "load" /\ section \in DOMAIN image /\ s \in Sections
        /\ section \in Nat
    BY LoadElfIs, SectionIs DEF MemoryOK
  <2>2. /\ ListOK(placed)
        /\ \A i \in DOMAIN memory : i \in DOMAIN placed /\ placed[i] = memory[i]
        /\ \A i \in DOMAIN placed : i \in DOMAIN memory \/ (s.alloc /\ placed[i].origin = s.vma)
        /\ \A a \in Nat : FindMemEntry(memory, a) # 0 =>
                            FindMemEntry(placed, a) = FindMemEntry(memory, a)
    BY <2>1, PlacedOK DEF MemoryOK
  <2>3. Begins(placed)
    BY <2>1, <2>2 DEF LoadOK, Begins
  <2>4. ASSUME NEW t \in Sections, ReadsBack(memory, t)
        PROVE  ReadsBack(placed, t)
    <3>1. ASSUME NEW k \in DOMAIN t.data
          PROVE  /\ FindMemEntry(placed, t.vma + k - 1) # 0
                 /\ Loaded(placed[FindMemEntry(placed, t.vma + k - 1)], t.vma + k - 1) = t.data[k]
      <4>1. t.vma + k - 1 \in Nat
        BY LenProperties DEF Sections
      <4>2. FindMemEntry(memory, t.vma + k - 1) \in DOMAIN memory
        BY <2>4, <4>1, FoundArea DEF ReadsBack, MemoryOK
      <4> QED BY <2>2, <2>4, <4>1, <4>2 DEF ReadsBack
    <3> QED BY <3>1 DEF ReadsBack
  <2> HIDE DEF placed
  <2>5. CASE ~s.load
    <3>1. memory' = placed
      BY <1>2, <2>5 DEF Loads, placed
    <3>2. ASSUME DistinctNames(image), NEW k \in DOMAIN image, k < section + 1, image[k].load
          PROVE  ReadsBack(placed, image[k])
      <4>1. k < section
        BY <2>1, <2>5, <3>2, ImageIs
      <4> QED BY <2>1, <2>4, <3>2, <4>1, ImageIs DEF LoadOK
    <3> QED BY <1>2, <2>1, <2>3, <3>1, <3>2 DEF LoadOK, Begins, ReadsBack, DistinctNames
  <2>6. CASE s.load
    <3>1. /\ Named \in Sections /\ (DistinctNames(image) => Named = s)
          /\ FindMemEntry(placed, Named.vma) # 0 /\ ~Overruns(placed, Named)
          /\ memory' = LoadSection(placed, Named)
      BY <1>2, <2>6, LoadElfIs, NamedIs DEF Loads, placed
    <3> DEFINE new == LoadSection(placed, Named)
    <3>2. /\ ListOK(new) /\ Alike(placed, new)
          /\ \A a \in Nat : FindMemEntry(placed, a) # 0 =>
               Loaded(new[FindMemEntry(placed, a)], a) =
                 IF /\ FindMemEntry(placed, a) = FindMemEntry(placed, Named.vma)
                    /\ a - Named.vma + 1 \in DOMAIN Named.data
                 THEN Named.data[a - Named.vma + 1] ELSE Loaded(placed[FindMemEntry(placed, a)], a)
      BY <2>2, <3>1, LoadedSection
    <3> HIDE DEF new
    <3>3. Begins(new)
      BY <2>3, <3>2 DEF Begins, Alike
    <3>4. ASSUME DistinctNames(image), NEW n \in DOMAIN image, n < section + 1, image[n].load,
                 NEW k \in DOMAIN image[n].data
          PROVE  LET a == image[n].vma + k - 1 IN
                   FindMemEntry(new, a) # 0 /\ Loaded(new[FindMemEntry(new, a)], a) = image[n].data[k]
      <4> DEFINE t == image[n]
                 a == t.vma + k - 1
      <4>1. /\ t \in Sections /\ t.vma \in Nat /\ t.size \in Nat
            /\ Len(t.data) \in Nat /\ k \in 1 .. Len(t.data) /\ Len(t.data) <= t.size /\ n \in Nat
        BY ImageIs
      <4>2. /\ s.vma \in Nat /\ s.size \in Nat /\ Len(s.data) \in Nat
            /\ DOMAIN s.data = 1 .. Len(s.data) /\ Len(s.data) <= s.size
        BY <2>1, ImageIs
      <4>3. a \in Nat /\ FindMemEntry(new, a) = FindMemEntry(placed, a)
        BY <3>2, <4>1, AlikeFinds
      <4>4. Named = s
        BY <3>1, <3>4
      <4>5. CASE n = section
        <5>1. FindMemEntry(placed, a) = FindMemEntry(placed, s.vma)
          BY <2>1, <2>2, <2>3, <2>6, <3>1, <4>4, <4>5, OneArea
        <5>2. a - s.vma + 1 = k
          BY <4>1, <4>5
        <5> QED BY <3>1, <3>2, <4>3, <4>4, <4>5, <5>1, <5>2
      <4>6. CASE n # section
        <5>1. n < section
          BY <2>1, <3>4, <4>1, <4>6
        <5>2. ReadsBack(placed, t)
          BY <2>1, <2>4, <3>4, <4>1, <5>1 DEF LoadOK
        <5>3. FindMemEntry(placed, a) # 0 /\ Loaded(placed[FindMemEntry(placed, a)], a) = t.data[k]
          BY <5>2 DEF ReadsBack
        <5>4. Apart(t, s)
          BY <2>1, <2>6, <3>4, <4>6 DEF WellLinked, MemoryOK, Occupies
        <5>5. a - s.vma + 1 \notin DOMAIN s.data
          <6>1. t.vma <= a /\ a < t.vma + t.size
            BY <4>1
          <6>2. ASSUME a - s.vma + 1 \in 1 .. Len(s.data)
                PROVE  s.vma <= a /\ a < s.vma + s.size
            <7> HIDE DEF a, s
            <7> QED BY <4>2, <4>3, <6>2
          <6> HIDE DEF a, s, t
          <6> QED BY <4>1, <4>2, <4>3, <5>4, <6>1, <6>2 DEF Apart
        <5> QED BY <3>2, <4>3, <4>4, <5>3, <5>5
      <4> QED BY <4>5, <4>6
    <3>5. DistinctNames(image) => \A n \in DOMAIN image : n < section + 1 /\ image[n].load => ReadsBack(new, image[n])
      BY <3>4 DEF ReadsBack
    <3>6. memory' = new
      BY <3>1 DEF new
    <3> QED BY <1>2, <2>1, <3>3, <3>5, <3>6 DEF LoadOK, Begins, ReadsBack, DistinctNames
  <2> QED BY <2>5, <2>6
<1> QED BY <1>1, <1>2, LoadElfIs

LEMMA LoadNext ==
  ASSUME WellLinked, MemoryOK, LoadOK, [Next]_vars
  PROVE  LoadOK'
<1>1. CASE UNCHANGED <<memory, image, section, phase>>
  BY <1>1 DEF LoadOK, Begins, ReadsBack, DistinctNames
<1>2. CASE ParseLogOpts
  BY <1>2, ImageIs DEF ParseLogOpts, Quit, loader, LoadOK, ReadsBack, MemoryOK, DistinctNames
<1>3. CASE PowerUp
  BY <1>3 DEF PowerUp, loader, LoadOK, ReadsBack, DistinctNames
<1>4. CASE AssertReset \/ NegateReset \/ StepUp \/ StepDown
  <2>1. phase' \notin {"load", "powerup"}
    BY <1>4 DEF AssertReset, NegateReset, StepUp, StepDown, Observe, Returned, Quit, Running
  <2> QED BY <2>1 DEF LoadOK
<1> QED BY <1>1, <1>2, <1>3, <1>4, LoadStep DEF Next, vars, loader

\* Every byte of a section that was loaded reads back at its address when the
\* core is powered up, for any number of sections in any order, whichever areas
\* and margins they are found in, if they lie apart and have different names:
\* load_section looks them up by name.
THEOREM SectionsReadBack == WellLinked => (Spec => []LoadedIntact)
<1>1. Init => LoadOK
  <2> SUFFICES ASSUME Init PROVE LoadOK
    OBVIOUS
  <2>1. Begins(memory)
    BY InitialList DEF Init, Begins
  <2>2. DOMAIN image = 1 .. Len(image)
    BY MemoryInit, ImageIs
  <2> QED BY <2>1, <2>2 DEF Init, LoadOK
<1>2. MemoryOK /\ LoadOK => LoadedIntact
  <2> SUFFICES ASSUME MemoryOK, LoadOK, phase = "powerup", DistinctNames(image), NEW i \in DOMAIN image, image[i].load,
                      NEW k \in DOMAIN image[i].data
               PROVE  ByteAt(memory, image[i].vma + k - 1) = image[i].data[k]
    BY DEF LoadedIntact
  <2>1. i < section
    BY ImageIs DEF LoadOK, MemoryOK
  <2> QED BY <2>1 DEF LoadOK, ReadsBack, ByteAt
<1>3. WellLinked /\ MemoryOK /\ LoadOK /\ [Next]_vars => MemoryOK' /\ LoadOK'
  BY MemoryStep, LoadNext
<1>4. ASSUME WellLinked PROVE Spec => []LoadedIntact
  BY MemoryInit, <1>1, <1>2, <1>3, <1>4, PTL DEF Spec
<1> QED BY <1>4

-----------------------------------------------------------------------------
(* The buses.  With the waits the source has, a request that is there when   *)
(* the clock rises is counted then and answered when it falls; memory is     *)
(* what the core has been told, but for the store that has just been done.   *)
Live == phase \notin {"exited", "undefined"}

Timed(bus, request) ==
  /\ bus.wait = (IF Rising \/ request = Nothing THEN 0 ELSE 1)
  /\ bus.ready = (Rising /\ request # Nothing)

Done == Rising /\ access # Nothing /\ dbus.ready /\ access.op # "read"
Known(a) == LET k == a - access.adr + 1
            IN IF Done /\ k \in DOMAIN access.data THEN access.data[k] ELSE seen.memory[a]

\* A read of n bytes stays among the addresses of the core and in one area.
Within(a, n) ==
  \A k \in 0 .. n - 1 : a + k \in Adrs /\ FindMemEntry(memory, a + k) = FindMemEntry(memory, a)
Whole ==
  /\ ibus.ready => Within(fetch, Word)
  /\ dbus.ready /\ access.op = "read" => Within(access.adr, Len(access.data))

Reads(bytes, a, n) == Within(a, n) => \A k \in 0 .. n - 1 : seen.memory[a + k] = bytes[k]

BusOK ==
  /\ clock \in {0, 1}
  /\ DOMAIN ibus = {"wait", "ready", "inst"} /\ DOMAIN seen = {"resets", "keys", "memory"}
  /\ Live =>
       /\ Running \/ (fetch = Nothing /\ access = Nothing)
       /\ Timed(ibus, fetch) /\ Timed(dbus, access)
       /\ phase # "load" => \A a \in Adrs : ByteAt(memory, a) = Known(a)
       /\ ibus.ready => Reads(ibus.inst, fetch, Word)
       /\ dbus.ready /\ access.op = "read" => Reads(dbus.rdata, access.adr, Len(access.data))

(* What a read finds is what the core has been told, if it stays in one area.*)
LEMMA ReadsTold ==
  ASSUME NEW a \in Nat, NEW n \in Nat,
         \A b \in Adrs : ByteAt(memory, b) = seen.memory[b],
         Within(a, n), ReadMem(memory, a, n) # Nothing
  PROVE  \A k \in 0 .. n - 1 : seen.memory[a + k] = ReadMem(memory, a, n)[k]
<1>1. FindMemEntry(memory, a) # 0
  BY DEF ReadMem
<1>2. ReadMem(memory, a, n) = [k \in 0 .. n - 1 |-> Loaded(memory[FindMemEntry(memory, a)], a + k)]
  BY <1>1 DEF ReadMem
<1>3. ASSUME NEW k \in 0 .. n - 1
      PROVE  seen.memory[a + k] = Loaded(memory[FindMemEntry(memory, a)], a + k)
  <2>1. ByteAt(memory, a + k) = seen.memory[a + k] /\ FindMemEntry(memory, a + k) = FindMemEntry(memory, a)
    BY DEF Within
  <2> QED BY <1>1, <2>1 DEF ByteAt
<1> QED BY <1>2, <1>3

(* After a store that could be done, its bytes are there.                    *)
LEMMA StoreIsDone ==
  ASSUME NEW list, ListOK(list), NEW acc \in Accesses,
         Writable(list, acc.adr, Len(acc.data)), NEW a \in Adrs
  PROVE  ByteAt(WriteMem(list, acc.adr, acc.data), a) =
           IF a - acc.adr + 1 \in DOMAIN acc.data THEN acc.data[a - acc.adr + 1] ELSE ByteAt(list, a)
<1>1. acc.adr \in Nat /\ acc.data \in Seq(Bytes) /\ a \in Nat
  BY MemoryAssumption
<1> DEFINE new == WriteMem(list, acc.adr, acc.data)
<1>2. /\ Alike(list, new)
      /\ FindMemEntry(list, a) # 0 =>
           Loaded(new[FindMemEntry(list, a)], a) =
             IF a - acc.adr + 1 \in DOMAIN acc.data THEN acc.data[a - acc.adr + 1]
             ELSE Loaded(list[FindMemEntry(list, a)], a)
  BY <1>1, Written
<1> HIDE DEF new
<1>3. FindMemEntry(new, a) = FindMemEntry(list, a)
  BY <1>2, AlikeFinds
<1>4. ASSUME a - acc.adr + 1 \in DOMAIN acc.data
      PROVE  FindMemEntry(list, a) # 0
  <2>1. Len(acc.data) \in Nat /\ a - acc.adr + 1 \in 1 .. Len(acc.data)
    BY <1>1, <1>4, LenProperties
  <2>2. a - acc.adr \in 0 .. Len(acc.data) - 1 /\ acc.adr + (a - acc.adr) = a
    BY <1>1, <2>1
  <2> QED BY <2>2 DEF Writable
<1>5. ByteAt(new, a) = IF a - acc.adr + 1 \in DOMAIN acc.data THEN acc.data[a - acc.adr + 1]
                       ELSE ByteAt(list, a)
  BY <1>2, <1>3, <1>4 DEF ByteAt
<1> QED BY <1>5 DEF new

LEMMA UpKeepsBusOK ==
  ASSUME ImemWait = 1, DmemWait = 1, MemoryOK, BusOK, StepUp
  PROVE  BusOK'
<1>1. PICK f \in Fetches \cup {Nothing}, acc \in NextAccesses :
        /\ Edge /\ fetch' = f /\ access' = acc /\ ServeImem(f) /\ ServeDmem(acc)
  BY DEF StepUp
<1>2. /\ Running /\ Live /\ Rising /\ clock' = 1 /\ ~Rising'
      /\ ibus.wait = 0 /\ dbus.wait = 0 /\ phase # "load"
  BY DEF StepUp, Tick, Rising, Running, Live, BusOK, Timed
<1>3. /\ DOMAIN ibus' = {"wait", "ready", "inst"} /\ ibus'.ready = FALSE
      /\ ibus'.wait = IF f = Nothing THEN 0 ELSE 1
  BY <1>1, <1>2 DEF ServeImem, BusOK
<1>4. /\ dbus'.ready = FALSE /\ dbus'.wait = (IF acc = Nothing THEN 0 ELSE 1)
      /\ memory' = memory
  <2>1. ~(acc # Nothing /\ dbus.wait = DmemWait)
    BY <1>2
  <2>2. dbus'.ready = (acc # Nothing /\ dbus.wait = DmemWait)
    BY <1>1, Zenon DEF ServeDmem
  <2>3. dbus'.wait = IF acc = Nothing THEN dbus.wait
                     ELSE IF acc # Nothing /\ dbus.wait = DmemWait THEN 0 ELSE dbus.wait + 1
    BY <1>1, Zenon DEF ServeDmem
  <2>4. ~(acc # Nothing /\ dbus.wait = DmemWait) => memory' = memory
    BY <1>1 DEF ServeDmem
  <2>5. dbus'.ready = FALSE
    BY <2>1, <2>2, Zenon
  <2>6. dbus'.wait = IF acc = Nothing THEN 0 ELSE 1
    BY <1>2, <2>1, <2>3
  <2> QED BY <2>1, <2>4, <2>5, <2>6
<1>5. DOMAIN seen' = {"resets", "keys", "memory"}
  BY <1>1 DEF Edge
<1>6. ASSUME NEW a \in Adrs PROVE ByteAt(memory, a) = seen'.memory[a]
  <2>1. ByteAt(memory, a) = Known(a)
    BY <1>2 DEF BusOK
  <2>2. dbus.ready => access # Nothing /\ access \in Accesses
    BY <1>2 DEF BusOK, Timed, MemoryOK
  <2>3. Done <=> dbus.ready /\ access.op = "write"
    BY <1>2, <2>2, MemoryAssumption DEF Done
  <2>4. seen'.memory[a] = Known(a)
    BY <1>1, <2>3 DEF Edge, Known
  <2> QED BY <2>1, <2>4
<1>7. \A a \in Adrs : ByteAt(memory', a) = Known(a)'
  BY <1>2, <1>4, <1>6 DEF Known, Done
<1>8. Live' => Running'
  <2>1. phase' \in {phase, "run", "flush", "exited", "undefined"}
    BY DEF StepUp, Observe, Returned, Quit
  <2> QED BY <1>2, <2>1 DEF Running, Live
<1> QED BY <1>1, <1>2, <1>3, <1>4, <1>5, <1>7, <1>8 DEF BusOK, Timed, ByteAt

LEMMA DownKeepsBusOK ==
  ASSUME ImemWait = 1, DmemWait = 1, MemoryOK, BusOK, StepDown
  PROVE  BusOK'
<1>1. /\ ServeImem(fetch) /\ ServeDmem(access)
      /\ UNCHANGED <<fetch, access, seen>>
      /\ IF Violation(fetch, access) THEN phase' = "exited" ELSE phase' = phase
  BY DEF StepDown, Quit
<1>2. /\ Running /\ Live /\ ~Rising /\ clock' = 0 /\ Rising'
      /\ ibus.wait = (IF fetch = Nothing THEN 0 ELSE 1)
      /\ dbus.wait = (IF access = Nothing THEN 0 ELSE 1)
      /\ phase # "load"
  BY DEF StepDown, Tick, Rising, Running, Live, BusOK, Timed
<1>3. /\ DOMAIN ibus' = {"wait", "ready", "inst"} /\ ibus'.ready = (fetch # Nothing)
      /\ ibus'.wait = 0
      /\ fetch # Nothing => ibus'.inst = ReadMem(memory, fetch, Word)
  BY <1>1, <1>2 DEF ServeImem, BusOK
<1>4. /\ dbus'.ready = (access # Nothing) /\ dbus'.wait = 0
      /\ access # Nothing /\ access.op = "read" =>
           dbus'.rdata = ReadMem(memory, access.adr, Len(access.data)) /\ memory' = memory
      /\ access # Nothing /\ access.op # "read" => memory' = WriteMem(memory, access.adr, access.data)
      /\ access = Nothing => memory' = memory
  BY <1>1, <1>2 DEF ServeDmem
<1>5. CASE Violation(fetch, access)
  BY <1>1, <1>2, <1>3, <1>5 DEF BusOK, Live
<1>6. CASE ~Violation(fetch, access)
  <2>1. Running' /\ phase' = phase
    BY <1>1, <1>2, <1>6 DEF Running
  <2>2. \A a \in Adrs : ByteAt(memory, a) = seen.memory[a]
    BY <1>2 DEF BusOK, Known, Done
  <2>3. access # Nothing => /\ access \in Accesses /\ access.op \in {"read", "write"}
                            /\ access.adr \in Nat /\ access.data \in Seq(Bytes)
                            /\ Len(access.data) \in Nat
    BY MemoryAssumption, LenProperties DEF MemoryOK
  <2>4. ListOK(memory)
    BY DEF MemoryOK
  <2>5. \A b \in Nat : FindMemEntry(memory', b) = FindMemEntry(memory, b)
    BY <1>4, <2>3, <2>4, Written, AlikeFinds
  <2>6. \A a \in Adrs : ByteAt(memory', a) = Known(a)'
    <3>1. CASE access = Nothing \/ access.op = "read"
      BY <1>1, <1>4, <2>2, <3>1 DEF Known, Done
    <3>2. CASE access # Nothing /\ access.op # "read"
      <4>1. Writable(memory, access.adr, Len(access.data))
        BY <1>4, <1>6, <2>3, <3>2 DEF Violation
      <4>2. Done'
        BY <1>1, <1>2, <1>4, <3>2 DEF Done
      <4> QED BY <1>1, <1>4, <2>2, <2>3, <2>4, <3>2, <4>1, <4>2, StoreIsDone DEF Known
    <3> QED BY <3>1, <3>2
  <2>7. ibus'.ready => Reads(ibus.inst, fetch, Word)'
    <3> SUFFICES ASSUME fetch # Nothing, Within(fetch, Word)'
                 PROVE  \A k \in 0 .. Word - 1 : seen.memory[fetch + k] = ibus'.inst[k]
      BY <1>1, <1>3 DEF Reads
    <3>1. fetch \in Nat /\ Word \in Nat
      BY MemoryAssumption DEF MemoryOK
    <3>2. ReadMem(memory, fetch, Word) # Nothing
      BY <1>3, <1>6 DEF Violation
    <3>3. Within(fetch, Word)
      BY <1>1, <2>5, <3>1 DEF Within
    <3>4. \A k \in 0 .. Word - 1 : seen.memory[fetch + k] = ReadMem(memory, fetch, Word)[k]
      BY <2>2, <3>1, <3>2, <3>3, ReadsTold
    <3> QED BY <1>3, <3>4
  <2>8. dbus'.ready /\ access'.op = "read" => Reads(dbus.rdata, access.adr, Len(access.data))'
    <3> SUFFICES ASSUME access # Nothing, access.op = "read", Within(access.adr, Len(access.data))'
                 PROVE  \A k \in 0 .. Len(access.data) - 1 :
                          seen.memory[access.adr + k] = dbus'.rdata[k]
      BY <1>1, <1>4 DEF Reads
    <3>2. ReadMem(memory, access.adr, Len(access.data)) # Nothing
      BY <1>4, <1>6 DEF Violation
    <3>3. Within(access.adr, Len(access.data))
      BY <1>1, <2>3, <2>5 DEF Within
    <3>4. \A k \in 0 .. Len(access.data) - 1 :
            seen.memory[access.adr + k] = ReadMem(memory, access.adr, Len(access.data))[k]
      BY <2>2, <2>3, <3>2, <3>3, ReadsTold
    <3> QED BY <1>4, <3>4
  <2> QED BY <1>1, <1>2, <1>3, <1>4, <2>1, <2>6, <2>7, <2>8 DEF BusOK, Timed, ByteAt, Rising
<1> QED BY <1>5, <1>6

LEMMA BusStep ==
  ASSUME ImemWait = 1, DmemWait = 1, MemoryOK, BusOK, [Next]_vars
  PROVE  BusOK'
<1> USE DEF BusOK, Live, Running, Timed, Rising, Known, Done, ByteAt
<1>1. CASE UNCHANGED vars
  BY <1>1 DEF vars, loader, clocks, buses, Reads, Within
<1>2. CASE LoadElf
  BY <1>2, LoadElfIs DEF Reads, Within
<1>3. CASE ParseLogOpts
  <2>1. /\ phase = "load" /\ phase' \in {"exited", "powerup"}
        /\ UNCHANGED <<fetch, access, ibus, dbus, memory, clock>> /\ DOMAIN seen' = DOMAIN seen
        /\ \A a \in Adrs : ByteAt(memory, a) = seen'.memory[a]
    BY <1>3 DEF ParseLogOpts, Quit, loader, clocks, buses
  <2>2. fetch = Nothing /\ access = Nothing /\ ~Done'
    BY <2>1
  <2>3. /\ ibus.wait = 0 /\ ibus.ready = FALSE /\ dbus.wait = 0 /\ dbus.ready = FALSE
    BY <2>1, <2>2
  <2>4. Timed(ibus, fetch)' /\ Timed(dbus, access)' /\ ibus'.ready = FALSE /\ dbus'.ready = FALSE
    BY <2>1, <2>2, <2>3
  <2> HIDE DEF Timed, Done, ByteAt
  <2> QED BY <2>1, <2>2, <2>4
<1>4. CASE PowerUp \/ AssertReset \/ NegateReset
  <2>1. /\ phase \in {"powerup", "assert", "negate"} /\ clock' = 1 - clock
        /\ UNCHANGED <<fetch, access, ibus, dbus, memory>>
        /\ seen'.memory = seen.memory /\ DOMAIN seen' = DOMAIN seen
    BY <1>4 DEF PowerUp, AssertReset, NegateReset, Tick, Evaluated, loader, buses
  <2>2. fetch = Nothing /\ access = Nothing /\ ~Done /\ ~Done'
    BY <2>1
  <2>3. /\ ibus.wait = 0 /\ ibus.ready = FALSE /\ dbus.wait = 0 /\ dbus.ready = FALSE
    BY <2>1, <2>2
  <2>4. Timed(ibus, fetch)' /\ Timed(dbus, access)' /\ ibus'.ready = FALSE /\ dbus'.ready = FALSE
    BY <2>1, <2>2, <2>3
  <2>5. \A a \in Adrs : ByteAt(memory', a) = Known(a)'
    <3>1. \A a \in Adrs : ByteAt(memory, a) = seen.memory[a]
      BY <2>1, <2>2 DEF Known
    <3> HIDE DEF ByteAt, Done
    <3> QED BY <2>1, <2>2, <3>1 DEF Known
  <2> HIDE DEF Timed, Known, Done
  <2> QED BY <2>1, <2>2, <2>4, <2>5
<1> QED BY <1>1, <1>2, <1>3, <1>4, UpKeepsBusOK, DownKeepsBusOK DEF Next

\* With one half clock of wait, as the source has it, a request is answered at
\* the rising edge after the one it is made at, with the bytes the core was last
\* told to be there, and a store is done once and whole, for any executable and
\* any core, as long as what the core reads does not straddle two areas.
THEOREM BusesAnswer == ImemWait = 1 /\ DmemWait = 1 => (Spec => [](Whole => BusAnswers))
<1>1. Init => BusOK
  <2> SUFFICES ASSUME Init PROVE BusOK
    OBVIOUS
  <2>1. /\ phase = "load" /\ clock = 0 /\ fetch = Nothing /\ access = Nothing
        /\ ibus.wait = 0 /\ ibus.ready = FALSE /\ dbus.wait = 0 /\ dbus.ready = FALSE
        /\ DOMAIN ibus = {"wait", "ready", "inst"} /\ DOMAIN seen = {"resets", "keys", "memory"}
    BY DEF Init
  <2>2. Timed(ibus, fetch) /\ Timed(dbus, access)
    BY <2>1 DEF Timed, Rising
  <2> QED BY <2>1, <2>2 DEF BusOK
<1>2. BusOK /\ Whole => BusAnswers
  <2> SUFFICES ASSUME BusOK, Whole, Running PROVE BusAnswers
    BY DEF BusAnswers
  <2>1. Live /\ phase # "load"
    BY DEF Running, Live
  <2>2. /\ Timed(ibus, fetch) /\ Timed(dbus, access)
        /\ \A a \in Adrs : ByteAt(memory, a) = Known(a)
        /\ ibus.ready => \A k \in 0 .. Word - 1 : seen.memory[fetch + k] = ibus.inst[k]
        /\ dbus.ready /\ access.op = "read" =>
             \A k \in 0 .. Len(access.data) - 1 : seen.memory[access.adr + k] = dbus.rdata[k]
    BY <2>1 DEF BusOK, Whole, Reads
  <2> QED BY <2>2 DEF BusAnswers, Timed, Known, Done
<1>3. ImemWait = 1 /\ DmemWait = 1 /\ MemoryOK /\ BusOK /\ [Next]_vars => MemoryOK' /\ BusOK'
  BY MemoryStep, BusStep
<1>4. ASSUME ImemWait = 1 /\ DmemWait = 1 PROVE Spec => [](Whole => BusAnswers)
  BY MemoryInit, <1>1, <1>2, <1>3, <1>4, PTL DEF Spec
<1> QED BY <1>4
=============================================================================
