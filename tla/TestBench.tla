----------------------------- MODULE TestBench -----------------------------
(***************************************************************************)
(* The simulator's test bench, src/simulation/rv32x_simulation.cpp: it     *)
(* loads an executable, resets the core and then steps it, half a clock at *)
(* a time, answering its two buses from the memory list, feeding it what   *)
(* is typed, logging exceptions and ending with the value the program      *)
(* writes to tohost.  The core is the generated processor: it sees its     *)
(* inputs and changes its requests at rising edges of the clock only.      *)
(***************************************************************************)
EXTENDS ElfLoader

CONSTANTS
  Images,              \* executables: sequences of sections
  RamOrigin, RamLength,
  Adrs,                \* the addresses the core can reach
  Word,                \* bytes in an instruction
  Fetches, Accesses,   \* what the core may ask of its two buses
  Options,             \* of the command line: sets of letters
  Keys,                \* what is typed
  Tohost, AllOnes,     \* words written to tohost, the word that is -1
  StatusMod,           \* an exit status is the result modulo 256
  ImemWait, DmemWait,  \* IMEM_WAIT, DMEM_WAIT
  PowerUpTicks,        \* the 10 of resetCore
  MaxEvents            \* bounds accesses, exceptions, keys and tohost writes

\* What is typed are bytes.
ASSUME BenchAssumption == Keys \in Seq(Bytes)

\* What load_elf uses of a section; data are what BFD gives as its contents,
\* zeros for a section without any.
Sections == [name : STRING, vma : Nat, size : Nat, data : Seq(Bytes),
             alloc : BOOLEAN, load : BOOLEAN]

ASSUME MemoryAssumption ==
  /\ Images \subseteq Seq(Sections)
  /\ \A i \in Images : \A k \in DOMAIN i : Len(i[k].data) = i[k].size
  /\ {RamOrigin, RamLength, Word} \subseteq Nat /\ Adrs \subseteq Nat
  /\ Fetches \subseteq Nat /\ Nothing \notin Fetches
  /\ Accesses \subseteq [op : {"read", "write"}, adr : Nat, data : Seq(Bytes)]
  /\ Nothing \notin Accesses

VARIABLES
  phase,                       \* where main and resetCore are
  image, section, memory,      \* the executable, its next section, the list
  options,
  clock, ticks, reset, coreReset,  \* m_clock, m_clock_count, reset as set and as driven
  fetch, access, retired,      \* the core's requests; it has retired an instruction
  ibus, dbus,                  \* the wait counters and the answers
  keys, uart,                  \* yet to be read, shown to the core
  log,                         \* the exception to be logged, and the log
  ret, status,                 \* main's result, the exit status
  seen, events                 \* what the core has seen; counted by MaxEvents

loader == <<image, section, memory>>
clocks == <<clock, ticks, reset, coreReset>>
buses == <<fetch, access, retired, ibus, dbus>>
terminal == <<keys, uart>>
vars == <<phase, loader, options, clocks, buses, terminal, log, ret, status, seen, events>>

\* The status while the simulation runs, and the one abort leaves
Alive == -1
Aborted == 134

Init ==
  /\ phase = "load"
  /\ image \in Images /\ section = 1
  /\ memory = InsertNewMem(MemList, "RAM0", RamOrigin, RamLength)
  /\ options = {}
  /\ clock = 0 /\ ticks = 0 /\ reset = 0 /\ coreReset = 0
  /\ fetch = Nothing /\ access = Nothing /\ retired = FALSE
  /\ ibus = [wait |-> 0, ready |-> FALSE, inst |-> Nothing]
  /\ dbus = [wait |-> 0, ready |-> FALSE, rdata |-> Nothing]
  /\ keys = Keys /\ uart = Nothing
  /\ log = [got |-> -1, raised |-> 0, printed |-> <<>>, since |-> 0]
  /\ ret = -1 /\ status = Alive
  /\ seen = [resets |-> 0, keys |-> <<>>, memory |-> [a \in Adrs |-> Nothing]]
  /\ events = 0

\* exit runs sim_exit, which deletes a pointer that was never set.
Quit(code) == phase' = "exited" /\ status' \in {code, Aborted}

-----------------------------------------------------------------------------
(* load                                                                      *)

ByteAt(list, a) ==
  LET i == FindMemEntry(list, a) IN IF i = 0 THEN Nothing ELSE Loaded(list[i], a)

\* load_elf: the next section.  An area is made for the section itself;
\* load_section gets the name only, and looks the section up by it.
LoadElf ==
  /\ phase = "load" /\ section <= Len(image)
  /\ LET s == image[section]
         named == SectionByName(image, s.name)
         placed == Placed(memory, s) IN
       \/ TooSmall(memory, s) /\ Quit(1) /\ UNCHANGED <<section, memory>>
       \/ /\ ~TooSmall(memory, s)
          /\ section' = section + 1
          /\ IF ~s.load
             THEN memory' = placed /\ UNCHANGED <<phase, status>>
             ELSE IF FindMemEntry(placed, named.vma) = 0
             THEN phase' = "exited" /\ status' = Aborted /\ UNCHANGED memory
             ELSE IF Overruns(placed, named)
             THEN phase' = "undefined" /\ UNCHANGED <<memory, status>>
             ELSE memory' = LoadSection(placed, named) /\ UNCHANGED <<phase, status>>
  /\ UNCHANGED <<image, options, clocks, buses, terminal, log, ret, seen, events>>

\* parseLogOpts: an unknown option ends the simulation.
ParseLogOpts ==
  /\ phase = "load" /\ section > Len(image)
  /\ options' \in Options
  /\ IF "?" \in options' THEN Quit(1) ELSE phase' = "powerup" /\ UNCHANGED status
  /\ seen' = [seen EXCEPT !.memory = [a \in Adrs |-> ByteAt(memory, a)]]
  /\ UNCHANGED <<loader, clocks, buses, terminal, log, ret, events>>

-----------------------------------------------------------------------------
(* resetCore                                                                 *)

Tick ==
  /\ clock' = 1 - clock
  /\ coreReset' = reset

Rising == clock = 0

\* What the core sees of reset at the edge this tick makes
Evaluated ==
  seen' = [seen EXCEPT !.resets = IF Rising /\ coreReset' = 1 THEN @ + 1 ELSE @]

\* p_reset holds the core.  The last tick leaves the loop.
PowerUp ==
  /\ phase = "powerup"
  /\ Tick /\ ticks' = ticks + 1
  /\ phase' = IF ticks <= PowerUpTicks THEN "powerup" ELSE "assert"
  /\ UNCHANGED <<loader, options, reset, buses, terminal, log, ret, status, seen, events>>

AssertReset ==
  /\ phase = "assert" /\ phase' = "negate"
  /\ clock' = 1 - clock /\ reset' = 1 /\ coreReset' = 1
  /\ Evaluated
  /\ UNCHANGED <<loader, options, ticks, buses, terminal, log, ret, status, events>>

\* Variant: reset stays asserted.
NegateNothing ==
  /\ phase = "negate" /\ phase' = "run"
  /\ Tick /\ UNCHANGED reset
  /\ Evaluated
  /\ UNCHANGED <<loader, options, ticks, buses, terminal, log, ret, status, events>>
NegateReset ==
  /\ phase = "negate" /\ phase' = "run"
  /\ Tick /\ reset' = 0
  /\ Evaluated
  /\ UNCHANGED <<loader, options, ticks, buses, terminal, log, ret, status, events>>

-----------------------------------------------------------------------------
(* step                                                                      *)

\* The core at an edge: it takes the answers, hears what was typed, and may
\* make other requests.  A fetch may be redirected or dropped at any edge, an
\* access is held until it is answered.
May(S) == IF events < MaxEvents THEN S \cup {Nothing} ELSE {Nothing}
NextAccesses == IF access # Nothing /\ ~dbus.ready THEN {access} ELSE May(Accesses)
Edge ==
  seen' = [resets |-> seen.resets + coreReset',
           keys |-> IF uart = Nothing THEN seen.keys ELSE Append(seen.keys, uart),
           memory |->
             IF dbus.ready /\ access.op = "write"
             THEN [a \in Adrs |-> LET k == a - access.adr + 1
                     IN IF k \in DOMAIN access.data THEN access.data[k] ELSE seen.memory[a]]
             ELSE seen.memory]

\* imem_read
\* Variant: the wait is not counted anew.
ServeImemAtOnce(f) ==
  ibus' =
    IF f = Nothing THEN [ibus EXCEPT !.ready = FALSE, !.inst = Nothing]
    ELSE IF ibus.wait = ImemWait
    THEN [ibus EXCEPT !.ready = TRUE, !.inst = ReadMem(memory, f, Word)]
    ELSE [wait |-> ibus.wait + 1, ready |-> FALSE, inst |-> Nothing]
ServeImem(f) ==
  ibus' =
    IF f = Nothing THEN [ibus EXCEPT !.ready = FALSE, !.inst = Nothing]
    ELSE IF ibus.wait = ImemWait
    THEN [wait |-> 0, ready |-> TRUE, inst |-> ReadMem(memory, f, Word)]
    ELSE [wait |-> ibus.wait + 1, ready |-> FALSE, inst |-> Nothing]

\* dmem_read and dmem_write
ServeDmem(acc) ==
  LET answer == acc # Nothing /\ dbus.wait = DmemWait
      reads == answer /\ acc.op = "read" IN
  /\ dbus' = [wait |-> IF acc = Nothing THEN dbus.wait ELSE IF answer THEN 0 ELSE dbus.wait + 1,
              ready |-> answer,
              rdata |-> IF reads THEN ReadMem(memory, acc.adr, Len(acc.data)) ELSE Nothing]
  /\ memory' = IF answer /\ ~reads THEN WriteMem(memory, acc.adr, acc.data) ELSE memory

\* imem_stat or dmem_stat is -1.
Violation(f, acc) ==
  \/ ibus'.ready /\ ibus'.inst = Nothing
  \/ dbus'.ready /\ acc.op = "read" /\ dbus'.rdata = Nothing
  \/ dbus'.ready /\ acc.op = "write" /\ ~Writable(memory, acc.adr, Len(acc.data))

\* getchar: a character, or none for now
\* Variant: uart_write is not taken back.
GetcharKept ==
  \/ keys # <<>> /\ uart' = Head(keys) /\ keys' = Tail(keys)
  \/ UNCHANGED <<uart, keys>>
Getchar ==
  \/ keys # <<>> /\ uart' = Head(keys) /\ keys' = Tail(keys)
  \/ uart' = Nothing /\ UNCHANGED keys

\* debug_raise_exception: exceptions that come with the retirement of their
\* instruction are logged after it (delay 1), the others at once (0).
Raised(l, delay) ==
  IF delay = Nothing THEN l
  ELSE [l EXCEPT !.got = delay, !.raised = @ + 1, !.since = 0]

\* What step does before it returns: print what has waited long enough
\* Variant: what was printed stays to be printed.
LoggedAgain(l) ==
  LET m == [l EXCEPT !.since = IF @ < 2 THEN @ + 1 ELSE @] IN
  IF l.got = 0 /\ "e" \in options THEN [m EXCEPT !.printed = Append(@, l.raised)]
  ELSE IF l.got = -1 THEN m
  ELSE [m EXCEPT !.got = @ - 1]
Logged(l) ==
  LET m == [l EXCEPT !.since = IF @ < 2 THEN @ + 1 ELSE @] IN
  IF l.got = 0 /\ "e" \in options THEN [m EXCEPT !.got = -1, !.printed = Append(@, l.raised)]
  ELSE IF l.got = -1 THEN m
  ELSE [m EXCEPT !.got = @ - 1]

\* sim_done: step's result, as main's int.  A store to tohost is not followed
\* by another one before it has retired.
MayTell == IF ret = -1 /\ phase = "run" THEN May(Tohost) ELSE {Nothing}
AsInt(word) == IF word = AllOnes THEN -1 ELSE word
Told(done) == IF done = Nothing \/ "n" \in options THEN ret ELSE AsInt(done)

ExitCode(r) == IF r = 1 THEN 0 ELSE r % StatusMod

\* step returns: main goes on with another one unless there is a result; one
\* more step flushes the last store.
\* Variant: only success ends the loop.
ReturnedUntilOne(r) ==
  IF phase = "flush" THEN Quit(ExitCode(ret)) /\ UNCHANGED ret
  ELSE /\ ret' = r
       /\ phase' = IF r = 1 THEN "flush" ELSE "run"
       /\ UNCHANGED status
Returned(r) ==
  IF phase = "flush" THEN Quit(ExitCode(ret)) /\ UNCHANGED ret
  ELSE /\ ret' = r
       /\ phase' = IF r = -1 THEN "run" ELSE "flush"
       /\ UNCHANGED status

\* The end of the body of step's loop after a rising edge: the core may raise an
\* exception, be done, and retire an instruction.
Observe(delay, done, retire) ==
  LET l == Raised(log, delay)
      r == Told(done) IN
  /\ Getchar
  /\ IF ~retire THEN log' = l /\ ret' = r /\ UNCHANGED <<phase, status>>
     ELSE IF l.got = 0 /\ {"e", "x"} \subseteq options
     THEN phase' = "undefined" /\ log' = l /\ UNCHANGED <<ret, status>>
     ELSE log' = Logged(l) /\ Returned(r)

Count(b) == IF b THEN 1 ELSE 0

Running == phase \in {"run", "flush"}

\* The loop body with a rising edge
StepUp ==
  /\ Running /\ Rising /\ Tick
  /\ \E f \in Fetches \cup {Nothing}, acc \in NextAccesses, delay \in May({0, 1}), done \in MayTell,
        retire \in BOOLEAN :
       /\ Edge /\ fetch' = f /\ access' = acc /\ retired' = retire
       /\ ServeImem(f) /\ ServeDmem(acc)
       /\ IF Violation(f, acc)
          THEN Quit(255) /\ UNCHANGED <<terminal, log, ret, events>>
          ELSE /\ Observe(delay, done, retire)
               /\ events' = events + Count(acc \notin {access, Nothing}) + Count(delay # Nothing)
                                   + Count(done # Nothing) + Count(keys' # keys)
               /\ events' <= MaxEvents
  /\ UNCHANGED <<image, section, options, ticks, reset>>

\* The loop body with a falling edge
StepDown ==
  /\ Running /\ ~Rising /\ Tick
  /\ ServeImem(fetch) /\ ServeDmem(access)
  /\ IF Violation(fetch, access) THEN Quit(255) ELSE UNCHANGED <<phase, status>>
  /\ UNCHANGED <<image, section, options, ticks, reset, fetch, access, retired, terminal, log, ret, seen, events>>

Next ==
  \/ LoadElf \/ ParseLogOpts
  \/ PowerUp \/ AssertReset \/ NegateReset
  \/ StepUp \/ StepDown

Spec == Init /\ [][Next]_vars

\* The program runs, and the core goes on retiring instructions.
Runs == Running /\ Tick
Retires == Running /\ Rising /\ Tick /\ retired' = TRUE
FairSpec == Spec /\ WF_clock(Runs) /\ SF_clock(Retires)

-----------------------------------------------------------------------------
(* Properties.                                                               *)

\* Every byte of a section that was loaded reads back at its address, also
\* where areas with their margins lie side by side, if the sections of the
\* executable have different names.
DistinctNames(sections) ==
  \A i, j \in DOMAIN sections : sections[i].name = sections[j].name => i = j
LoadedIntact ==
  phase = "powerup" /\ DistinctNames(image) =>
    \A i \in DOMAIN image : LET s == image[i] IN s.load =>
      \A k \in DOMAIN s.data : ByteAt(memory, s.vma + k - 1) = s.data[k]

\* A request that is there before a rising edge is answered at that edge, with
\* the bytes the core has last been told to be there; a store is done once,
\* between its first edge and its answer.
BusAnswers ==
  Running =>
    LET pending == ~Rising \/ access = Nothing \/ ~dbus.ready \/ access.op = "read"
        Now(a) == LET k == a - access.adr + 1
                  IN IF ~pending /\ k \in DOMAIN access.data THEN access.data[k] ELSE seen.memory[a]
        Right(m, a, n) ==
          \A k \in 0 .. n - 1 : seen.memory[a + k] \in {Nothing, m[k]}
    IN /\ ibus.ready = (Rising /\ fetch # Nothing)
       /\ dbus.ready = (Rising /\ access # Nothing)
       /\ ibus.ready => Right(ibus.inst, fetch, Word)
       /\ dbus.ready /\ access.op = "read" => Right(dbus.rdata, access.adr, Len(access.data))
       /\ \A a \in Adrs : ByteAt(memory, a) = Now(a)

\* The core sees reset at one rising edge, and every character typed at one, in
\* order.
EdgesCounted ==
  Running =>
    /\ seen.resets = 1
    /\ seen.keys \o (IF uart = Nothing THEN <<>> ELSE <<uart>>) \o keys = Keys

\* No exception is logged twice or late: two retirements after it was raised it
\* is in the log, unless another one was raised before.
LogFaithful ==
  /\ \A i, j \in DOMAIN log.printed : i < j => log.printed[i] < log.printed[j]
  /\ Running /\ "e" \in options /\ log.raised > 0 /\ log.since = 2 =>
       log.printed # <<>> /\ log.printed[Len(log.printed)] = log.raised

\* A value written to tohost ends the simulation with the status main makes of
\* it, unless it is -1 or the simulation ends otherwise before.  Of the odd
\* values, the ones test programs write, 1 alone is a success; an even one may
\* be cut to the status 0.
Verdict ==
  \A v \in Tohost \ {AllOnes} :
    Running /\ ret = v ~>
      \/ /\ phase = "exited" /\ status \in {ExitCode(v), 255, Aborted}
         /\ status = 0 /\ v % 2 = 1 => v = 1
      \/ phase = "undefined"
=============================================================================
