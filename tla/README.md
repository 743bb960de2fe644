# Verification of the RV32X processor

The repository holds rv32x5p, a 32-bit RISC-V processor written in the hardware
description language NSL, with the units around it: an instruction fetch unit
with cache and TLB, a load store unit with TLB and page table walker, a data
cache, the trap and CSR logic, and a small system on chip (interrupt controller,
timer, UART), the simulator that runs it, a remote debugging server and the small
runtime library of its programs. This directory holds TLA+ models of it, the TLC configurations
that check them on small instances, and TLAPS proofs of their safety properties
for all sizes.

NSL in one paragraph, because the models follow it closely. A *procedure* is a
control state with argument registers: calling it activates it in the next
clock, `finish()` ends it, and a call in the same clock wins over `finish()`.
A *function* is a wire that runs in the clock in which it is called. `:=`
transfers to a register at the end of the clock, `=` drives a wire. Two
transfers to one register in the same clock, or two values on one wire, are
resolved as the generated logic happens to, which the models leave open.
Registers keep their contents when the procedure they belong to has finished.
Hence in the modules of the hardware **one step is one clock**, a procedure is a bit or the
value of a state variable, and conditions that read the registers of a finished
procedure read what it left there.

## 1. Inventory

| component | source (under `src/`) | state | operations | correct when |
|---|---|---|---|---|
| five-stage pipeline | `core/rv32x5p.nsl`, `regs5p.h`, `inst_dec.nsl`, `reg32.nsl` | IDREG, DEREG, EMREG, MWREG, register file, active procedures | ifetch, decode, execute, memory, writeback, stalls and flushes, trap entry and returns | every instruction is issued once, in order, with current operands; nothing of a wrong path takes effect; it never stops |
| trap logic, CSR file | `core/rv32x_core.nsl`, `priv.h`, `csr*.h` | mode, mstatus, mie/mip, delegation, epc, cause | priority encoder, trap, mret/sret/uret, CSR accesses, fence handshakes | a trap is precise; a return undoes a trap; the status shadows agree |
| instruction fetch unit | `core/ifetch_unit.nsl`, `tlb.inc` | cache lines, TLB, active procedure | lookup, allocate, page table walk, invalidate, TLB flush | the instruction at the address that is asked for, as of the last fence |
| load store unit, walker | `core/load_store_unit.nsl`, `ptw.nsl`, `amoalu.nsl` | data TLB, reservation, walker | load, store, AMO, LR/SC, walk, flush | each request answered or faulted once, with the right translation |
| data cache | `core/cache.nsl` | lines with valid and dirty bits | lookup, allocate, write back, flush, bypass | a memory |
| branch target buffer | `core/btb.nsl` | targets, 2-bit counters | predict, update, flush | for a branch or a jump any answer is acceptable; for other instructions it never hits |
| multiplier, divider | `core/munit32.nsl`, `mul32.nsl`, `div32.nsl` | operands, counter, quotient, remainder | start, wait, done, reset | the product, quotient and remainder of the specification |
| interrupt controller | `integration/plic.nsl` (generated by `gen_plic.py`) | gateways, enables, priorities, thresholds, claims | acquire, generate, deliver, claim, complete | an interrupt is delivered while raised, and not twice at once |
| UART and FIFO | `integration/uart_*.nsl`, `fifo.inc`, `mmio_dev.nsl` | two queues, enables, status flags, byte count, threshold | a byte arrives or goes out, a register is read or written | no byte is lost in the FIFOs; the interrupt comes when the queue has reached its level |
| timer | `integration/clint.nsl` | mtime, mtimecmp | count, compare | |
| interconnect | `integration/rv32x_integration.nsl` | none | address decoding | |
| simulator | `simulation/rv32x_simulation.cpp`, `simulation/elfloader/` | memory list, clock, reset, wait counters of the two buses, log, verdict | load, reset, one half clock, end | memory is what was loaded and stored; both buses answer with it; the exit status is the verdict of the program |
| debugging server | `simulation/rsp_server/main.c` | connection, packet buffer, memory list | read a packet, answer it, wait for the acknowledgement | each request is answered once and for what it asks; it stays in step with its client |
| runtime library, programs | `software/gloss/`, `software/plic_test/` | place in the program, heap pointer | put and get a byte, system calls, interrupt handler | what is written goes out, what has arrived is read; areas of the heap do not overlap |

How they interact. The pipeline asks the fetch unit (`imem_read`, held in every
clock with the current PC) and the load store unit (held in every clock the
instruction is in the memory stage); both answer in a later clock, neither
answer carries a tag. A request is cancelled by no longer making it. Traps are
raised by any stage, the fetch unit, the load store unit or the interrupt
lines, go through the priority encoder of rv32x_core, which stalls and flushes
the stages in the same clock, and start the `trap` procedure, which redirects
fetching in the next. `fence.i` and `sfence.vma` hold the memory stage until
fetch unit and load store unit have reported their caches and TLBs flushed. The
two units share one page table walker. The interrupt controller is driven by
device lines on one side and by bus accesses of the handler on the other.

Above the processor: the runtime library polls the flags of the UART and the echo
program works by its interrupt, through the interrupt controller. The test bench
drives clock and reset of the generated processor, answers its two buses from the
memory list that the loader has filled, and ends when the processor stores to
`tohost`. The debugging server talks to GDB over a socket and keeps a memory list
of its own; the processor is not connected to it.

What is hard here: untagged answers and cancellations by silence; conditions
that read the registers of a stage whether or not it is active; several stages
that call the same procedure in one clock; three independent reasons to stall;
flushes that must reach exactly the younger instructions; handshakes whose
"done" lasts one clock; the snapshot that the interrupt controller works on for
two clocks. In the software: flags that are a clock old when they are looked at, and
an interrupt that must not be lost between the last look and its completion; a
test bench that advances counters at both edges for a core that looks at one; a
debugging client that may be slow, send twice, interrupt or leave at any
character. `PROJECT.json` lists them one by one with the line where each bites.

## 2. Modules

### Pipeline (`Pipeline.tla`, instances in `MCPipeline.tla` and `MCPrograms.tla`)

State: for each stage the bit of its procedure (`ifetch`, `decode`, `execute`,
`memory`, `writeback`) and its register (`PC`, `IDREG`, `DEREG`, `EMREG`,
`MWREG`), the register file `RF`, the bit of the fetch unit that makes it answer
in every other clock at most (`compare`), multiplier and load store unit as the
pipeline sees them, and the procedures `trap` and `xret`. `Clock(in, ins)` is
one clock with inputs `in`, in which the fetch unit delivers `ins`; it is the
conjunction of one operator per stage, and the wires between stages (stalls,
flushes, interlock, forwarding) are operators of the same names.

The data are abstracted to what the properties tell apart. An address has a
*role*: `next` (the next instruction of the program to be issued to the memory
stage), `again` (already issued) or `wrong` (not on the program's path). Roles
are derived from what was fetched and flushed: the instruction fetched behind an
unresolved jump is `wrong`, a redirection by an instruction that is itself on
the path leads to `next`, a trap makes everything younger `wrong`, restarting at
`DEREG.pc` when execute has handed its instruction on is `again`. A register
value is `cur` if it is what program order gives the register after all
instructions that have left memory, else `old`; every retiring instruction makes
the copies of its destination that were read before it `old`. So "computed from
the wrong operand" and "issued twice" are states, not histories.

Inputs (`Inputs`) are whatever the other units may do in that clock: hit or
miss, any delay of memory, AMOs answered at once or later, faults, interrupts in
any clock, a CSR access or `sfence.vma` that turns out to be illegal in the memory
stage, flush handshakes and the multiplier ending in any clock. `Events`
selects which kinds of fault and interrupt the environment raises. The priorities
are those of the encoder: interrupts, illegal instructions in the memory stage,
misaligned addresses (the class `misaligned`, found in execute), faults of the
memory stage, the other exceptions of execute (`exc`), fetch faults.

### IfetchUnit (`IfetchUnit.tla`, instances in `MCIfetchUnit.tla`)

The unit (`Unit`: one action per procedure) composed with its client (`Client`:
the pipeline, that reads, redirects, stops, fences; and the rest of the system,
that stores to code and page tables and changes the mode): `Next == Unit /\
Client`, both take their step in the same clock. `reply` holds the outputs of
the clock before, with the address that was asked for then. An instruction is
the physical page it was read from and the version of the program there
(`text`), so a stale line is told from a fresh one. `stores` and `remaps` say
that code or page tables were written since the last fence: until the next one,
the unit may deliver anything.

### LoadStoreUnit (`LoadStoreUnit.tla`, instance in `MCLoadStoreUnit.tla`)

The unit's procedure with its arguments (`st`, `arg`; the three states of
`amo_op_exe` are three values of `st`), the data TLB, the reservation, the page
table walker (`walker`) and the face of the data cache (`dcache`: idle, or busy with
an access for whoever asked, which it may take any number of clocks to make). `Unit`
is one clock of all four: one action per procedure, with the answer the cache gives
in that clock (`out`), since faults of the cache and of the walker go to the outputs
whatever procedure is active (`Raised`). Around it are its clients: the memory stage,
which holds a request until it is answered or trapped; the fetch unit, which asks
for a page until it is answered; and the registers the unit reads directly, mode,
permissions and page table, which change between requests, by a store, and, for
the mode, under a waiting request. Virtual pages are pages of one superpage, so
a table is its entry at level 1 and one entry per page at level 0; an entry is its
flags and where it points, and may point to where there is no memory. Data is
left out; `made` is the list of accesses made for the request, `linked` the place
of the last answered lr, and these, with `remaps`, `waited` and `moved`, are only
for the properties. IfetchUnit has the other end of the walks: there, the answers of
this unit are any answers.

A walk in a table that lies outside memory ends the module (`Lost`): the unit
leaves the walk and the walker does not, see section 5.

### Plic (`Plic.tla`, instantiated by its configurations directly)

`lines` and `gateway`, the procedure of the dispatcher with the interrupts it
works on (`disp`), and per context the claim procedure with its number and mask
(`harts`). Every action is one clock, with at most one bus access.

### TrapUnit (`TrapUnit.tla`, instances in `MCTrapUnit.tla`)

The trap priority encoder and the procedures trap, trap_mret, trap_sret and
trap_uret, with the privilege mode and the status, interrupt enable, pending and
delegation registers. `mstatus`, `sstatus` and `ustatus` are registers of their
own in the source, and so are `mie`, `sie`, `uie` and `mip`, `sip`, `uip`; the
model keeps all nine. `trap` and `xret` are the procedures with their
arguments. A clock is `Encode` (what the stages and the interrupt lines show to
the encoder, and so which procedure is active next) together with `Write` (what
the active procedures and a CSR instruction transfer): `Idle`, `Trap`, `Return`
and one action per CSR register that has an effect here. A trap may coincide
with a return, or, if it is for a fetch fault, with a CSR write of an older
instruction; where both transfer to a field, either may win. What the stages
can hold while a procedure is active (`Executing`, `Csr`) follows from what it
flushes. `mframe` and `sframe` are not in the source: they keep what the last
trap to each level interrupted, until software or a return writes that level.

Of the rest of the status only `tsr` is modelled, which makes `sret` illegal.

TrapUnit and Pipeline describe the same clock from two sides: Pipeline decides
what is flushed and where fetching goes on, with the encoder's priorities;
TrapUnit decides who is trapped to and what becomes of the status.

### DebugSession (`DebugSession.tla`) and RspServer (`RspServer.tla`, instance in `MCRspServer.tla`)

`DebugSession` is what the debugging server promises: a request is taken,
answered and the answer acknowledged; a download fills the bytes nobody has
loaded yet, a read returns a word of loaded bytes in the order of their
addresses, and the session may end at any time. It knows no packets, checksums,
buffers or lists.

`RspServer` is the server of `main.c` and its client. `toServer` and `toClient`
are the two directions of the socket, sequences of tokens (`$`, body, `#` with the
checksum, and the single characters between packets). `pc` is the call of
`get_rsp_char` the server blocks in, or `dispatch` between a packet and its reply;
`buf` is `rsp.buf`, `regions` the memory list. There is one action per state of the
reader (`SkipToPacket`, `ReadBody`, `ReadLongBody`, `ReadChecksum`) and per branch of
the dispatch (`ReplyText`, `Download`, `ReadMemory`, `Ignore`), and each way out:
`EndOfInput` when the client has left, `OutOfMemory`, a reply that cannot be written.
The twelve requests that get a fixed text are one action. The client is external:
it asks, waits, and, up to `MaxFaults` times, sends a packet that is too long,
sends again, complains, interrupts or gives up; it may leave at any moment, with
any part of what it sent still under way.

The refinement mapping (`Session`): the request is the packet being dispatched, the
answer the reply that waits for its acknowledgement, the session is open until
the process exits, and the image is what a look-up in the list finds at each
address.

### ElfLoader (`ElfLoader.tla`) and TestBench (`TestBench.tla`, instance in `MCTestBench.tla`)

`ElfLoader` holds the operators of the memory list: look-up (the first entry that
covers the address), reads that look the first address up and take what follows
it, writes that look every byte up, and the placing and loading of a section.
`TestBench` is `main`, `resetCore` and `step`. `phase` says where: `load` (one section
per step), `powerup`, `assert`, `negate`, `run`, `flush` (the last step, after a
result) and `exited`; `undefined` is what the C++ program is in after copying a
section past the end of its area, and after printing to a log that was never
opened. In `run` and `flush` a step is half a clock: `StepUp` with a rising edge, in
which the core moves, `StepDown` with a falling one; both serve the buses. The core
is the generated processor and external: it fetches, loads, stores, raises
exceptions and retires as it likes, but holds an access until it is answered.
`seen` is what the core has seen: the resets at its edges, the characters, the
memory as of its answered stores.

### Uart (`Uart.tla`) and Gloss (`Gloss.tla`)

`Uart` is one clock of receiver and sender with their FIFOs: at most one register
access, a byte that may arrive and one that may be taken to be sent. The flags in
the status registers (`rxStatus`, `txStatus`) are those of the clock before. `bufcnt`
counts modulo `CountMod`; in a clock with an arrival and a read the source transfers
two values to it, and the model takes any. `irq` is what Plic does for this one line.
The bits of a byte on the wire are left open. `Gloss` is the processor running either
the echo program of `plic_test` or any program of library calls (`uart_putchar`,
`uart_getchar`, the loops of `sys_write` and `sys_read`, `sys_fstat`, `_sbrk`, ...): `pc`
is the next access of the UART, `back` where the library function returns. Every
action is one clock of `Uart` with the access the instruction makes, and between two
accesses any number of clocks may pass (`Pause`).

### Proofs

`Pipeline_proofs.tla`, `IfetchUnit_proofs.tla`, `LoadStoreUnit_proofs.tla`,
`TrapUnit_proofs.tla`, `Plic_proofs.tla`, `RspServer_proofs.tla`, `TestBench_proofs.tla`,
`Gloss_proofs.tla`; see section 4.

## 3. Runs

| run | instance | shows |
|---|---|---|
| `pipeline_programs` | x0-x2; programs of 14 instructions, covering each producer and each consumer through rs1 and rs2, or of jumps, both kinds of branches, exceptions, misaligned accesses and CSR operations, or with returns; data faults, illegal CSR accesses and fences; fair units | `OperandsReady`, `StoreDataReady`, `AnswersMatch`: interlock, forwarding and store bypass never let an old value through; `IssuedInOrder`, `TrapPrecise` with redirections; `NoThreeInARow`, `RequestHeld`; `Progress`; `TypeOK` |
| `pipeline_traps` | x0-x1, interrupts, data faults, fetch faults and illegal fences in any clock; misaligned accesses | `NeverWrongPath`, `ResumeOnPath`, `FetchAlive` |
| `ifetch_cache` | one page, two lines, with and without paging, fair | `RightInstruction`, `Answered`, `FenceEnds` |
| `ifetch_paging` | two pages, TLB of one entry, one line, both kinds of failing walk | `RightInstruction`, `FaultIsReal` over remappings, mode changes and refills |
| `load_store` | two pages, one of the two physical ones memory; three tables (pages moved, denied and invalid; a superpage; outside memory), three modes, a TLB of one entry, fair cache | `AnswersRight`, `FaultsReal`, `Served`; `TypeOK` |
| `plic_machine` | lines 1 and 2, priorities 0 and 1, machine mode, fair handler | `ClaimedClosed`, `OffersOpen`, `ServedWhenFree` |
| `trap_status` | one supervisor interrupt, one delegable fetch fault, two words for the status registers, every return and CSR write | `ShadowsAgree`, `HandledOnce`, `ReturnUndoesTrap`; `TypeOK` |
| `rsp_session` | three requests out of eight: text, unknown, downloads that overlap, empty or too long, reads inside, across and outside; two faults of the client | `Implements` (DebugSession), `InStep`, `Served` |
| `sim_bench` | five executables with sections in RAM, in one another's margin, of one name, too long, or nowhere; four sets of options; four events of the core | `LoadedIntact`, `BusAnswers`, `EdgesCounted`, `LogFaithful`, `Verdict` |
| `serial` | FIFOs of four cells, four bytes arriving; the echo program, and three library calls of up to two bytes; a heap of four | `NoByteLost`, `LevelAgrees`, `AreasApart`, `Echoed` |

Two more runs (`pipeline_mul`, `ifetch_alias`) end in a violation, each of one
property that a comment of the repository states; they are section 5.
`TypeOK` of the other modules says what their variables hold; no run is spent on it.

Bounds. *Pipeline.* Memory holds any instruction of a finite set in any order,
so programs are unbounded; a dependence involves one register and at most three
instructions in flight, and two registers besides x0 make every pair of equal
and different numbers occur. Instruction classes that the source treats alike
are represented once per run. *IfetchUnit.* The cache is direct-mapped and the
lines do not interact except through the comparison of indices, for which two
lines are enough; two pages and one TLB entry make every refill a replacement.
*LoadStoreUnit.* One entry in the TLB makes every refill of another page a
replacement, also while a request and a fetch compete; a physical page with and one
without memory let every access and every table succeed and fault; the flags of the
entries grant, deny by mode, deny by kind of access, or are invalid. One request
(`InFlight`) may still come behind the one that is waiting when the fetch unit begins
to wait: then decode and execute have run dry. *Plic.* Two lines give every order of offer, claim and completion of two
interrupts; priorities only enter through a comparison with the threshold.
*TrapUnit.* Interrupts of a level differ only in priority, so one is enough; a
supervisor interrupt is the one that goes to either level. The fetch fault is the
exception that leaves older instructions running. The words switch interrupts of
both levels and the trapping of `sret` on and off and name a mode to return to, or the
mode 2 that there is none of; what is enabled or delegated stays so in the run, and can be taken back
in the proofs.
*RspServer.* Three requests make two downloads and a read over both; with words of
two bytes and three addresses a read lies in one area, in two, or half outside. A
packet is one byte longer than the buffer, where the cut begins. Two faults are
needed for a packet sent twice whose second answer is then interrupted.
*TestBench.* Wait counts of 1 tell both edges apart, four events let an exception
overtake another or a store follow a store, and words written to `tohost` are
1, another odd value, and, with exit statuses modulo 8, one that is cut to 0 (8) and the
word that is -1 as an `int` (15). Two of the executables load and run: one with four
sections of different names, in a margin and in RAM, and one whose two sections share
their name. *Uart and Gloss.* A FIFO of four cells holds
three bytes, which the threshold of the echo program (1) and a fourth arrival
make full and overfull; the count wraps at 8, beyond anything the FIFO holds.

What the passing runs leave out, because the code does not have the property
there: `pipeline_programs` has no multiplications, and neither correctly
predicted branches nor returns together with loads or stores (`pipeline_mul` and
section 5 show why), and no CSR access there that can be illegal in front of a return
reads the register it writes; `fence` and stale predictions occur in none (section 5),
`pipeline_traps` has no returns and no CSR accesses (an interrupt in the clock of a
return calls `ifetch` with two addresses at once, and one in the clock of an illegal CSR
access drops its exception) and fetch faults there are those of the
program's path; the redirections of `ifetch_cache` and `ifetch_paging` go to
another index (`ifetch_alias`); `plic_machine` restricts itself to machine mode
(section 5).

Fairness. There is no scheduler: a clock always comes (`WF_vars(Next)`). The
remaining assumptions are about units that a model does not contain. *Pipeline:*
the fetch unit looks an address up and hits again and again while it is asked
(`Answered` is the fetch unit's own side of it), memory answers a held request,
multiplier and divider end (they count down), and flush handshakes end
(`FenceEnds`). They are strong fairness because a request may be interrupted by
a flush before it is answered. *IfetchUnit:* the walker and the bus answer in
the end. *LoadStoreUnit:* the memory
behind the data cache answers (`CacheAnswers`). *Plic:* the handler claims what is delivered and completes it, as
`software/plic_test` does. *RspServer:* the server runs whenever it does not wait,
and the client reads what has arrived. It need not ask, and the network may end
the session, but does not lose characters: TCP does not. *TestBench:* the loop runs,
and the core retires an instruction again and again, at rising edges
(strong fairness, because only one of two half clocks has one); a core that hangs
makes the simulator run for ever, which is what riscv-tests call a timeout.
*Gloss:* the clock runs, the processor goes on, and the wire becomes free again.

Deadlock is checked in every run but `rsp_session`, `sim_bench` and `serial`, in which
the system really stops: the session or the simulation ends, or the program's calls
are used up.

## 4. Proofs

For all values of the constants, checked by TLAPS:

* `TypeCorrect`: `Spec => []TypeOK` for Pipeline, from
  `PipelineAssumption`. One lemma per stage; inductive as it stands. It says
  more than types: the tag `em` of a forwarded result never reaches a pipeline
  register, so the forwarding unit resolves it in the same clock.
* `NeverThreeInARow`: without multiplications (`NoMul`), no three neighbouring
  stages are occupied. The forwarding unit looks two stages ahead only, so this
  is what its correctness rests on. `NoThreeInARow` is not inductive: the
  invariant `Spaced` adds what the stages may look like around a hole in each
  state of the fetch unit, which answers at most in every other clock, and that
  no multiplication is in the pipeline; `WaitsForMemory` shows that then only the
  memory stage can hold execute back.
* `RequestsAreHeld`: if no correctly predicted branch occurs
  (`NoCorrectPrediction`), a load, store or AMO stays in the memory stage until
  it is answered or trapped. The invariant `Turning` is that every branch in the
  pipeline turns; `NotOverwritten` then shows that a waiting memory stage is not
  issued to.
* `AnswersAreOwn` and `FetchNeverDies`, if nothing is overwritten in the memory stage
  (`Undisturbed`: no correctly predicted branch, or nothing that waits there), the first
  also if no interrupt can drop the exception of an illegal CSR access (`Unmixed`). The
  invariant `Answered` is that a running request is that of the memory stage
  (`OwnRequest`).
* `OperandsAreReady` and `StoreDataIsReady`, under `Undisturbed`, `Unmixed` and `NoMul`: every
  operand and every datum of a store is the value of program order. The invariant
  `DataCurrent` says where an old value may lie: in a register that is being written
  back, in an operand the forwarding unit is about to replace, in the rs2 of a store
  that the bypass will replace. `NoThreeInARow` closes the argument: what is two
  instructions ahead is on a forwarding path.
* `WrongPathIsDropped`, `TrapsResumeOnPath`, `IssuesInOrder` and `TrapsArePrecise`:
  instructions are issued in program order, once, those of a wrong path never, and
  traps save the address of the instruction the program has reached. `Flow` says how
  flushes, redirections and fences keep the fetch stage going and what may be behind
  an instruction that turns; `Follows(G)`, on top of it, says for every register that
  holds an address or an instruction which role it has while the others are empty or
  full, in one invariant for three theorems: `G` are the roles of what is issued,
  `next` or `next` and `again`. Each theorem has the hypotheses without
  which TLC finds it false (section 5): `OnProgram` leaves out `fence`, stale
  predictions, faults of fetches off the program's path or given up before, illegal CSR
  accesses under an interrupt, and returns that meet accesses, interrupts or fetch
  faults; `InOrder` also interrupts, and exceptions or returns behind a `fence.i`;
  `NoneAhead` also fetch faults, and exceptions behind an access.

  An illegal CSR access and a return behind it must not meet either: in the clock in
  which memory holds the one and execute the other, `trap` and the return would both
  start and redirect fetching. They do not, if nothing holds up what is between
  them (`ReturnsApart`: no multiplication, no access that waits, and no CSR access
  that reads the register it writes, which the interlock holds up after it has left).
  `Thin` and `Apart` say so: memory and execute are never occupied in one clock, because
  fetching delivers in every other clock and nothing ever waits.

  `pipeline_traps` and each of the three kinds of programs of `pipeline_programs`
  satisfy the hypotheses of what they check, so the theorems say of all registers,
  programs and environments of that kind what the runs say of one set.
* `ShadowsCorrect`, `HandlesOnce`, `ReturnsRestore` and `TypeCorrect` of
  TrapUnit: for any interrupts, exceptions and words written (and any mix of the
  two transfers where a trap meets another writer), from `TrapUnitAssumption`.
  Every action is `Write(other, written)`; `Clocked` shows that `other` is always
  `Proper` (typed, its shadows agreeing, fields it does not claim left alone), and
  `TransferOK`, `FramesOK` and `OnceOK` need nothing else. The inductive invariant
  `IInv` adds to the properties what keeps them: while a frame is kept, the
  status holds what the trap saved and machine interrupts are off.
* `MachineClaimsOnce`: for any set of lines and any priorities, if software
  uses machine mode only, an interrupt being handled is masked. The inductive
  invariant adds that what is being delivered is a single interrupt (`Single`)
  and that context 1 never gets one (`Unused`); without the latter the statement
  is false, because context 1 opens the gateways of context 0 (section 5).
* `OffersAreOpen` of Plic, however both contexts are used: only a delivery closes a
  gateway, and between the offer and its delivery there is none.
* `RightIsFetched` of IfetchUnit, if redirections change the index (`IndexTells`;
  `ifetch_alias` is the counterexample without it), and `FaultsAreReal`, for any
  redirections. The invariant says that cache and TLB hold what program and page table
  do unless they were written since the last fence (`CacheOK`, `TlbOK`), what the
  registers of `compare` and of the invalidation hold in each state (`CompareOK`,
  `InvalidateOK`), and hence that the answer belongs to the address asked for.
* `TypeCorrect`, `AnswersAreRight` and `FaultsAreReal` of LoadStoreUnit, for any
  tables, modes and memory, from `LoadStoreUnitAssumption` (the names for "no page" and
  for the two levels of a table are no pages). Two invariants: `Steady`, for accesses,
  says what each state of the procedure may have made so far (`ArgOK`), whose access is
  at the data cache (`BusOK`), which walk is running for whom (`WalkerOK`), that the
  request is held (`HeldOK`) and where `lr` linked (`LinkedOK`), all of it until the
  module ends in a walk outside memory. `Steadfast` adds what the TLB, a walk and its
  result have to do with the table since the last `sfence.vma` (`TlbOK`, `WalkOK`,
  `TargetOK`, `PurposeOK`, `MovedOK`).
* `Implementation` of RspServer: `Spec => Implements`, from `RspAssumption` (requests
  are typed, their data lie in `Adrs`). The invariant `IInv` says what is on the
  way to the server and that the list is typed (`ListOK`); one of its conjuncts,
  `HasFirst`, says that every address that is in some entry is in a first one, which
  spares an induction over the list. `Extended` is the fact about look-ups that
  makes a download refine the abstract one: after an area was added, an address
  has the byte it had before, or else the byte of the new area. `WordSwapped` does
  the same for the two reversals of a word. Then every step is mapped: `ServerRefines`
  has a case per action, and steps of the client do not change the session.
* `StaysInStep` of RspServer. `InStep` speaks of the moment a reply is read; the
  invariant `LockStep` says for each place of the server which characters may be on the
  way in each direction and whose request they belong to.
* `NoByteIsLost`, `LevelIsCounted` and `AreasAreApart` of Gloss, for any depth of the
  FIFOs, any bytes and calls. `NoByteLost` is not inductive: the invariant adds where
  the program can be (`Places`) and what the flags are worth there (`Flags`): they are
  a clock old, but can only be too cautious wherever the library looks at them,
  because it never looks in the clock after its own access. `SenderClock` and
  `ReceiverClock` are the facts about a clock of the UART on which each step rests.
  `LevelIsCounted` needs that the count has room for the level of a full FIFO
  (`UartAssumption`; 256 and 64 in the source), `AreasAreApart` that no increment is
  negative.
* `EdgesAreCounted` and `LogIsFaithful` of TestBench. The first holds for any number of
  ticks before the reset, even or odd: exactly one of the two edges that show reset
  is a rising one (`ResetOK`). The second rests on `LogTimely`: an exception that has
  to wait for its instruction to retire is printed with the retirement after.
* `SectionsReadBack` of TestBench, if the sections of an executable lie apart and none
  begins in front of RAM and ends in it (`WellLinked`; of such a section, loaded into an
  area of its own, the bytes in RAM are looked up in the area of RAM, which comes first).
  `LoadedIntact` itself speaks of executables whose sections have different names, since
  `load_section` looks them up by name. Any order of the sections, any margins. The
  invariant `LoadOK` follows the list section by section; `NamesOK` says that the look-up
  by name finds a first section, one section at a time, which again spares an induction.
* `BusesAnswer` of TestBench, with the wait counts of the source (1): the answer of
  either bus is at the rising edge after the request, with the bytes last loaded or
  stored. `Whole` restricts it to reads that stay in one area, because a read over the
  end of one succeeds whatever is behind it (section 5). `BusOK` says what is pending
  at each of the two edges. `MemoryAssumption` gives addresses and bytes their types.

Every invariant and action property that a passing run checks is the subject of a theorem.

Model-checked only: everything temporal (`Progress`, `Answered`, `FenceEnds`,
`ServedWhenFree`, the two `Served`, `Verdict`, `Echoed`), because fairness and ENABLED are
out of the prover's reach. What the hypotheses above exclude is not claimed anywhere;
section 5 says what happens there. No theorem needs an induction over data: look-ups
and copies are functions and first entries in the models, not recursive definitions.

## 5. Disagreements between code and its own statements

* `pipeline_mul`: while a multiplication waits in execute the stages around it
  close up, and the instruction behind it then reads an operand that has left
  the forwarding paths (`rv32x5p.nsl:306`, "both Operands are ready").
* `ifetch_alias`: a redirection to the same index of another page is not seen as
  a cancellation (`ifetch_unit.nsl:104`).

The models show further behaviours that no run is spent on. In the processor:

* a correctly predicted branch enters the memory stage over a waiting load or
  store (`rv32x5p.nsl:440`; `RequestHeld` fails as soon as `Instrs` contains such a
  branch together with loads);
* an interrupt offered while the context is busy is masked for good
  (`plic.nsl:123`; without "while the context is free", `ServedWhenFree` fails);
* an interrupt delegated to supervisor mode is never taken (`rv32x_core.nsl:632`):
  the encoder asks for a mode below machine mode with machine interrupts off, and
  below machine mode they are always on. README.md of the repository promises
  "some delegation to S-Mode";
* `fence` restarts fetching behind itself without dropping the instruction in
  decode, which is issued twice (`rv32x5p.nsl:604`; `IssuedInOrder` fails as soon
  as `Instrs` contains `fence`);
* completions of interrupt context 1 open the gateways of context 0
  (`plic.nsl:149`), so an interrupt of supervisor mode is delivered once only
  (`Served(1)` fails);
* a return behind a load that waits acts in every clock of the wait
  (`rv32x5p.nsl:401`): the second time it returns from nothing, or is illegal in
  the mode it has just entered;
* an exception behind a `fence.i` that waits traps at once, and when the fence is done
  it restarts fetching behind itself (`rv32x5p.nsl:608`): in the middle of the handler, at
  the exception, which traps again (`IssuedInOrder` fails as soon as a load can hold the
  two together);
* an interrupt may be recognised in the clock in which a CSR instruction turns it
  off, and is then entered with its enable bit already off
  (`rv32x_core.nsl:171`);
* an interrupt in the clock in which memory holds an illegal CSR access drops its
  exception: the access is not among the memory operations that hold interrupts back
  (`rv32x_core.nsl:171`), is not flushed, and retires with 0 in its destination
  (`AnswersMatch` fails);
* an illegal CSR access in memory while a return is in execute (behind a multiplication or
  a CSR access that reads the register it writes) starts `trap` and the return in one
  clock, which redirect fetching to two addresses (`rv32x_core.nsl:804`, `:907`;
  `IssuedInOrder` fails as soon as such a CSR access is among the programs with returns);
* a misaligned load or store in execute traps before the page or access fault of the one
  in memory (`rv32x_core.nsl:643`), whose request stays in memory, is made again and
  faults again under the handler;
* a hit of the branch target buffer on an instruction that is no branch is never
  corrected (`rv32x5p.nsl:445`). The entries are compared with the whole virtual address and
  flushed by `fence.i` and `sfence.vma`, so the instruction there was a branch when the
  entry was made; but in another address space, that of machine mode say, there may be
  another one;
* a fetch fault traps at once, also at an address that a jump in decode or execute is
  about to leave (`rv32x_core.nsl:884`, `"wildfault"` in `Events`; `NeverWrongPath` and
  `ResumeOnPath` fail);
* a fetch fault does not flush execute: a return in front of it is carried out
  after the trap, and returns from it (`rv32x_core.nsl:884`);
* writing `mstatus` does not update the user fields of `sstatus`, and writing
  `sie` copies an undriven wire to the user bits of `mip` (`rv32x_core.nsl:352`,
  `:499`);
* an exception is delegated to supervisor mode even when it happens in machine
  mode, and `spp` cannot say so (`rv32x_core.nsl:740`, `:991`);
* a younger exception of execute traps before the fault of the load in front of
  it (`rv32x_core.nsl:818`, the role `early` of `epc`);
* the page fault of a walk that was cancelled is raised all the same
  (`ifetch_unit.nsl:92`);
* a page table outside memory: the load store unit leaves the walk and the walker
  does not (`load_store_unit.nsl:227`). From then on the walker asks for that entry in
  every clock, the fault is raised again in every clock, and so is that of the fetch
  unit (`ifetch_unit.nsl:95`); a store whose walk ends there raises a load access
  fault (`load_store_unit.nsl:304`);
* a request that waits behind a walk of the fetch unit is looked up in the mode of
  the moment (`load_store_unit.nsl:64`), which a younger `ecall` or return in execute
  may have changed (`rv32x5p.nsl:401`);
* a page that is denied on a TLB hit is walked as well (`load_store_unit.nsl:98`): the walk
  goes on under the trap handler, and its entry is a second one for that page;
* a store of the hart itself does not clear the reservation (`load_store_unit.nsl:101`);
* a claim number is the line number plus one (`plic.nsl:87`);
* a fetch fault in the first clock of `fence.i` starts a trap whose handler
  `fence.i` stops fetching (`rv32x5p.nsl:565`).

In the debugging server:

* the wait for an acknowledgement reads one character: after an interrupt or a
  complaint of the client the server loops for ever (`main.c:313`, `pc = "stuck"`);
  a packet that an impatient client sends again is a second request, and answers
  are one off from then on (`InStep` assumes no such client);
* a packet longer than the buffer is cut, its next two characters are taken for the
  checksum, and the download has the length of the whole packet (`main.c:225`);
* an unknown request is not answered, where the protocol wants an empty reply; `m`
  reads a word whatever length is asked for; the escapes in the data of `X` are
  not undone; `PacketSize` is given in decimal.

In the simulator:

* 1 written to `tohost` becomes exit status 0, and so does every multiple of 256, since
  a status is cut to a byte; -1 does not end the simulation
  (`rv32x_simulation.cpp:568-575`). README.md:39 of the repository says "with written value
  as exit code". `Verdict` states what the code does: an odd value is a success only if
  it is 1;
* of two sections with one name the first is copied again when the second one's turn
  comes, and the second one never (`elfloader.c:180`, called with the name at line 205);
* a read that begins in an area and ends behind it succeeds where a write fails;
* an exception that follows another one before that was logged takes its place;
* a section longer than what is left of the area it starts in is copied over the
  end (`elfloader.c:198`); the exit handler deletes a pointer that was never set;
  printing without a log file writes to a file that was never opened.

In the runtime library: `sys_exit` and unknown calls loop for ever; a call of
`_sbrk` that fails uses the rest of the heap up, an exact fit fails, and a negative
increment is not checked; bytes that stay below the threshold are not echoed
until more arrive, and the count drifts for good once a byte was dropped or an
empty FIFO read. `isr.c` of the library calls the UART's claim number 1, and the
controller gives it 11.

## 6. Plan

Pipeline, IfetchUnit, LoadStoreUnit, Plic, TrapUnit, the UART with its software, the
debugging server and the test bench are done; next, in this order:

1. IfetchUnit and LoadStoreUnit composed through the walker, in place of the walker's
   free answers; an abstract specification of both, in which a request is answered
   with the translation of the last `sfence.vma`.
2. `DataCache` and an abstract `Memory` it implements
   (`INSTANCE Memory WITH ...`), on two lines and two tags, with flushes.
   Theorem: the refinement, step by step.
3. `Munit`: the shift-and-subtract division as a recursive function over small
   words against `\div` and `%`, and the register timing of `op`. Theorem: the
   loop invariant of the division.
4. `Clint`, with `TrapUnit` as its consumer.
5. Proofs: the composition of 1 implements its abstract specification; weaker
   hypotheses for Pipeline where the code allows them, such as correctly predicted
   branches that meet no waiting access although the program has both.

## 7. Not modelled

* ALU, shifter, adders and immediate generator: combinational, no state.
* Data cache, multiplier and divider, timer: stateful and within reach, but still to
  be done (section 6). LoadStoreUnit sees the first as something that takes an
  access and makes it later; Pipeline sees the second as an environment that waits.
* What the load store unit does after a walk was abandoned (section 5).
* Address decoding of the interconnect: no state.
* The branch target buffer's tables: the pipeline is checked for any prediction of a
  branch; that it is not correct for a prediction of anything else is in section 5.
* The SD card interface: a submodule that the repository does not contain; with
  it the SD card sample and the block device of the simulator.
* Of the simulator: waveforms, the disassembler, the wording of the trace.
* Of the debugging server: `write_byte` and its companions and `print_mem_list`,
  which nothing calls; the digits of checksums and numbers (a client's are right).
* Of the software: `isr.c` and `trap_handler.S`, whose interrupts no program
  enables; the saving of registers in `crt0`; the boot ROM.
* Of the UART: the timing of the bits on the wire, start bits that turn out to be
  noise, the readable copies of the count and of the last byte.
