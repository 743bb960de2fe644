------------------------------ MODULE Pipeline ------------------------------
(***************************************************************************)
(* The five-stage pipeline of rv32x5p (src/core/rv32x5p.nsl) together with *)
(* the part of rv32x_core that starts traps.  One step is one clock.       *)
(*                                                                         *)
(* A procedure of the NSL source (ifetch, decode, execute, memory,         *)
(* writeback, trap, trap_mret) is modelled by the bit that says whether    *)
(* it is active; calling a procedure sets its bit for the next clock and   *)
(* wins over finish() in the same clock.  The pipeline registers keep      *)
(* their contents after their procedure has finished, as in the source:    *)
(* several conditions read them then.                                      *)
(*                                                                         *)
(* Data.  A program counter or an instruction is a ROLE, its relation to   *)
(* the program order of what was issued to the memory stage before it:     *)
(*    "next"    it is the next instruction of the program,                 *)
(*    "again"   it has been issued already,                                *)
(*    "wrong"   it lies on a path the program does not take.               *)
(* A register value is "cur" when it is the value the program order        *)
(* gives the register after every instruction that left the memory stage,  *)
(* "old" when it is not; a forwarded result of the instruction now in the  *)
(* memory stage is "em".                                                   *)
(***************************************************************************)
EXTENDS Naturals

CONSTANTS
  Regs,     \* register numbers, with 0 the constant zero
  Instrs,   \* the instructions memory may hold, a set of Instr
  Events    \* which of these the environment raises: "irq"; "dfault", a page or access
            \* fault of data; "illegal", of a csr or sfence.vma in the memory stage;
            \* "ifault", a fetch fault on the program's path, "wildfault", one on any
            \* other, "strayfault", that of a fetch given up before

\* fencei stands for fence.i and sfence.vma, exc for what is illegal, misaligned for a
\* load, store or AMO whose address is: both raise their exception in execute.
Classes == {"alu", "mul", "load", "store", "amo", "csr", "jump", "branch",
            "fence", "fencei", "exc", "misaligned", "xret", "nop"}

\* turn: its prediction is wrong.  The branch target buffer is asked for every
\* instruction, a branch or not.
Instr == [cls : Classes, rd : Regs, rs1 : Regs, rs2 : Regs, turn : BOOLEAN]

Nop == [cls |-> "nop", rd |-> 0, rs1 |-> 0, rs2 |-> 0, turn |-> FALSE]

ASSUME PipelineAssumption ==
  /\ 0 \in Regs
  /\ Instrs \subseteq Instr
  /\ Events \subseteq {"irq", "dfault", "illegal", "ifault", "wildfault", "strayfault"}
  \* inst_dec gives stores and branches the destination x0
  \* (the destination of one that raises its exception in execute is never used)
  /\ \A i \in Instrs : i.cls \in {"store", "branch", "fence", "fencei", "exc", "misaligned",
                                   "xret", "nop"} => i.rd = 0

VARIABLES
  ifetch, PC,          \* fetch procedure, role of its address
  compare,             \* the instruction cache is in compare_tag
  decode, IDREG,
  execute, DEREG,
  memory, EMREG,
  writeback, MWREG,
  RF,                  \* register file
  munit,               \* multiplier or divider: running, operands it captured
  lsu,                 \* load store unit: request running, whose, store data
  trap, epc,           \* trap procedure and the role of the address it resumes
  xret                 \* trap_mret, trap_sret or trap_uret procedure

vars == <<ifetch, PC, compare, decode, IDREG, execute, DEREG, memory, EMREG,
          writeback, MWREG, RF, munit, lsu, trap, epc, xret>>

Roles == {"next", "again", "wrong"}
Kept == {"cur", "old"}       \* what a register can hold

IdType == [ins : Instr, role : Roles]
DeType == [ins : Instr, role : Roles, a : Kept, b : Kept, acted : BOOLEAN]
EmType == [cls : Classes, rd : Regs, rs2 : Regs, role : Roles, ready : BOOLEAN, d : Kept]
MwType == [cls : Classes, rd : Regs, v : Kept]

NopEM == [cls |-> "nop", rd |-> 0, rs2 |-> 0, role |-> "next", ready |-> TRUE, d |-> "cur"]

TypeOK ==
  /\ ifetch \in BOOLEAN /\ PC \in Roles /\ compare \in BOOLEAN
  /\ decode \in BOOLEAN /\ IDREG \in IdType
  /\ execute \in BOOLEAN /\ DEREG \in DeType
  /\ memory \in BOOLEAN /\ EMREG \in EmType
  /\ writeback \in BOOLEAN /\ MWREG \in MwType
  /\ RF \in [Regs -> Kept]
  /\ munit \in [busy : BOOLEAN, ready : BOOLEAN]
  /\ lsu \in [busy : BOOLEAN, own : BOOLEAN, data : BOOLEAN]
  /\ trap \in BOOLEAN /\ epc \in Roles \cup {"early"} /\ xret \in BOOLEAN

\* reset: ifetch(resetvector) and every pipeline register cleared.
Init ==
  /\ ifetch = TRUE /\ PC = "next" /\ compare = FALSE
  /\ decode = FALSE /\ IDREG = [ins |-> Nop, role |-> "next"]
  /\ execute = FALSE
  /\ DEREG = [ins |-> Nop, role |-> "next", a |-> "cur", b |-> "cur", acted |-> FALSE]
  /\ memory = FALSE /\ EMREG = NopEM
  /\ writeback = FALSE /\ MWREG = [cls |-> "nop", rd |-> 0, v |-> "cur"]
  /\ RF = [r \in Regs |-> "cur"]
  /\ munit = [busy |-> FALSE, ready |-> TRUE]
  /\ lsu = [busy |-> FALSE, own |-> FALSE, data |-> TRUE]
  /\ trap = FALSE /\ epc = "next" /\ xret = FALSE

-----------------------------------------------------------------------------
(***************************************************************************)
(* Inputs of a clock.  in.hit: the instruction cache answers (imem_ready); *)
(* in.dmem: what the load store unit does; in.synced: rv32x_core reports   *)
(* the caches and TLBs flushed; in.done: the multiplier or divider reaches *)
(* its last cycle; in.irq: an enabled interrupt is pending; in.illegal:    *)
(* the memory stage holds a csr access that is not mapped or not allowed,  *)
(* or an sfence.vma in supervisor mode with mstatus.tvm set (in any clock  *)
(* it waits: the mode may change); in.ifault: an instruction page or       *)
(* access fault.                                                           *)
(***************************************************************************)
DataOps == {"load", "store", "amo"}
Fences == {"fence", "fencei"}

Request == memory /\ EMREG.cls \in DataOps

DmemReplies ==
  IF lsu.busy
  THEN {"wait", "ready", "retry"} \cup (Events \cap {"dfault"})
  ELSE IF Request
       THEN {"wait"} \cup (IF EMREG.cls = "amo" THEN {"ready"} ELSE {})
                     \cup (Events \cap {"dfault"})
       ELSE {"wait"}

MulInE == execute /\ DEREG.ins.cls = "mul"

May(p) == IF p THEN BOOLEAN ELSE {FALSE}

\* The instruction cache goes idle -> compare_tag -> idle and answers only in
\* compare_tag, so never in two consecutive clocks.
Inputs ==
  [hit    : May(ifetch /\ compare),
   lookup : May(ifetch /\ ~compare),
   dmem   : DmemReplies,
   \* the flush handshakes take many clocks: the first one stops ifetch, and the
   \* second one may still be that of a fetch fault's trap
   synced : May(memory /\ EMREG.cls = "fencei" /\ ~ifetch /\ ~trap),
   done   : May(munit.busy \/ MulInE),
   irq    : May("irq" \in Events),
   illegal : May("illegal" \in Events /\ memory /\ EMREG.cls \in {"csr", "fencei"}),
   ifault : May(\/ /\ ifetch /\ ~compare
                   /\ (IF PC = "wrong" THEN "wildfault" ELSE "ifault") \in Events
                \* that of a walk whose fetch is gone: whatever ifetch does now
                \/ "strayfault" \in Events)]

-----------------------------------------------------------------------------
\* Variant: the interlock also obeys an EMREG whose instruction has left.
StaleFromE(r) == r # 0 /\ r = EMREG.rd

(***************************************************************************)
(* Forwarding unit.  The conditions test `memory` and `writeback` but not  *)
(* `execute`, so a DEREG left behind also raises load_interlock.           *)
(***************************************************************************)
FromE(r) == r # 0 /\ r = EMREG.rd /\ memory
FromM(r) == r # 0 /\ r = MWREG.rd /\ writeback

\* alu_b_forward_en: register-register operations, branches and AMOs
UsesB == DEREG.ins.cls \in {"alu", "mul", "branch", "amo"}

\* Producers whose result is not in EMREG.alu_q
Late == {"load", "amo", "csr"}

\* Variant: the interlock forgets the atomic operations.
LoadOnlyHazard(r) == FromE(r) /\ EMREG.cls = "load"

LoadHazard(r) == FromE(r) /\ EMREG.cls \in {"load", "amo"}
CsrHazard(r)  == FromE(r) /\ EMREG.cls = "csr"

LoadInterlock ==
  \/ LoadHazard(DEREG.ins.rs1) \/ CsrHazard(DEREG.ins.rs1)
  \/ UsesB /\ (LoadHazard(DEREG.ins.rs2) \/ CsrHazard(DEREG.ins.rs2))

\* MWREG.alu_q is the result except after a load or an AMO (the address)
MWAluQ == IF MWREG.cls \in {"load", "amo"} THEN "old" ELSE MWREG.v

ExecuteAluA ==
  LET r == DEREG.ins.rs1 IN
  CASE FromE(r) /\ EMREG.cls \notin Late                                 -> "em"
    [] ~FromE(r) /\ FromM(r) /\ (MWREG.cls = "load" \/ EMREG.cls = "amo") -> MWREG.v
    [] ~FromE(r) /\ FromM(r) /\ ~(MWREG.cls = "load" \/ EMREG.cls = "amo")
         /\ MWREG.cls # "amo"                                             -> MWAluQ
    [] OTHER                                                              -> DEREG.a

ExecuteAluB ==
  LET r == DEREG.ins.rs2 IN
  CASE UsesB /\ FromE(r) /\ EMREG.cls \notin Late                     -> "em"
    [] UsesB /\ ~FromE(r) /\ FromM(r) /\ MWREG.cls \in {"load", "amo"} -> MWREG.v
    [] UsesB /\ ~FromE(r) /\ FromM(r) /\ MWREG.cls \notin {"load", "amo"} -> MWAluQ
    [] OTHER                                                          -> DEREG.b

\* Is x the value program order gives register r for the instruction in execute?
Current(x, r) == r = 0 \/ x = (IF FromE(r) THEN "em" ELSE "cur")

OperandsCurrent ==
  /\ Current(ExecuteAluA, DEREG.ins.rs1)
  /\ UsesB => Current(ExecuteAluB, DEREG.ins.rs2)

\* rs2 of a store bypasses the forwarding unit: taken from MWREG when it
\* matches (whether or not writeback is active), else as decode read it.
StoreRs2 == IF DEREG.ins.rs2 # 0 /\ DEREG.ins.rs2 = MWREG.rd THEN MWREG.v ELSE DEREG.b

\* Variant: the memory stage does not look at MWREG.
MemDataAsIssued == EMREG.d

\* mem_data, the word handed to the load store unit
MemData == IF EMREG.rs2 # 0 /\ MWREG.rd = EMREG.rs2 THEN MWREG.v ELSE EMREG.d

-----------------------------------------------------------------------------
(***************************************************************************)
(* Trap priority encoder of rv32x_core: interrupts; illegal instructions   *)
(* found in the memory stage; misaligned addresses, which are found in     *)
(* execute; page and access faults of the memory stage; the execute stage; *)
(* the fetch stage.  What loses is forgotten, and comes again only if its  *)
(* instruction is still there.                                             *)
(***************************************************************************)
InMemoryOperation == memory /\ EMREG.cls \in DataOps \cup {"fencei"}

Irq(in) == in.irq /\ ~trap /\ ~InMemoryOperation
\* A csr is no memory operation: an interrupt in its clock lets an illegal one retire.
Missed(in) == Irq(in) /\ in.illegal

ExcOps == {"exc", "misaligned"}
InExecute(classes) == execute /\ ~LoadInterlock /\ DEREG.ins.cls \in classes

\* an exception of the memory stage
MFault(in) ==
  /\ ~Irq(in)
  /\ in.illegal \/ (in.dmem = "dfault" /\ ~InExecute({"misaligned"}))
Exc(in) == InExecute(ExcOps) /\ ~Irq(in) /\ ~MFault(in)
IFault(in) == in.ifault /\ ~Irq(in) /\ ~MFault(in) /\ ~Exc(in)

\* mret, sret and uret act whenever the instruction is in execute with its
\* operands ready, stalled or not.
Xret == InExecute({"xret"})

FlushM(in) == MFault(in)
\* Variant: a fault of the memory stage does not flush execute.
FlushENotOnMFault(in) == Irq(in) \/ Exc(in)

FlushE(in) == Irq(in) \/ MFault(in) \/ Exc(in)
\* Variants: an interrupt, an exception or a return leaves decode alone.
FlushDNotOnIrq(in) == MFault(in) \/ Exc(in) \/ Xret
FlushDNotOnExc(in) == Irq(in) \/ MFault(in) \/ Xret
FlushDNotOnXret(in) == FlushE(in)

FlushD(in) == FlushE(in) \/ Xret
FlushI(in) == FlushD(in) \/ IFault(in)

-----------------------------------------------------------------------------
(* Stage control: stalls, and which stage hands its instruction on.        *)

DmemReady(in) ==
  \/ in.dmem = "ready"
  \/ memory /\ EMREG.cls = "fence"
  \/ in.synced

\* memory calls writeback(mwreg)
Retire(in) ==
  /\ memory
  /\ ~FlushM(in)
  /\ EMREG.cls \in DataOps \cup Fences => DmemReady(in)

MemWait(in) == memory /\ ~Retire(in)

FenceIn == memory /\ EMREG.cls = "fencei"

MulExe    == MulInE /\ ~LoadInterlock
MulAccept == MulExe /\ ~munit.busy
MulWait(in) == MulExe /\ ~in.done

\* Variant: a waiting memory stage does not stall execute.
StallNotOnMemory(in) == LoadInterlock \/ MulWait(in) \/ FlushE(in)

StallExecute(in) == LoadInterlock \/ MulWait(in) \/ MemWait(in) \/ FlushE(in)

\* Jumps and mispredicted branches restart ifetch and drop the younger stages.
Redirect(in) ==
  /\ execute /\ ~StallExecute(in)
  /\ DEREG.ins.cls = "jump" \/ (DEREG.ins.cls = "branch" /\ DEREG.ins.turn)

\* A correctly predicted branch calls memory(emreg) without testing stall_execute.
CorrectPrediction == execute /\ ~LoadInterlock /\ DEREG.ins.cls = "branch" /\ ~DEREG.ins.turn

\* execute calls memory(emreg)
Issue(in) == CorrectPrediction \/ (execute /\ ~StallExecute(in))

StallDecode(in) == StallExecute(in) \/ Redirect(in) \/ FlushD(in)
\* Variant: the fetch stage is not stalled while a trap starts.
StallIfetchNotOnTrap(in) == StallDecode(in) \/ FlushI(in) \/ xret

StallIfetch(in) == StallDecode(in) \/ FlushI(in) \/ trap \/ xret

\* ifetch calls decode({PC, ...}) and ifetch(predicted_new_pc)
Deliver(in) == ifetch /\ in.hit /\ ~StallIfetch(in)

FenceDone(in) == Retire(in) /\ EMREG.cls \in Fences

-----------------------------------------------------------------------------
(* Next values of the pipeline registers.                                  *)

\* The instruction leaving the memory stage makes older copies of rd "old".
Aged(x, r, in) == IF Retire(in) /\ r # 0 /\ r = EMREG.rd THEN "old" ELSE x

\* Read port of reg32, with its write-through of the register being written
RegRead(r) == IF FromM(r) THEN MWREG.v ELSE RF[r]

NextRole(role, i) ==
  CASE role = "wrong"                                -> "wrong"
    [] i.turn \/ i.cls \in ExcOps \cup {"jump", "xret"} -> "wrong"
    [] OTHER                                         -> "next"

\* Variant: the trap procedure does not redirect the fetch stage.
FetchesNotOnTrap(in, ins) ==
       (IF Deliver(in)  THEN {[by |-> "ifetch", role |-> NextRole(PC, ins)]} ELSE {})
  \cup (IF Redirect(in) THEN {[by |-> "execute", role |-> "next"]} ELSE {})
  \cup (IF FenceDone(in) THEN {[by |-> "memory", role |-> "next"]} ELSE {})
  \cup (IF xret THEN {[by |-> "xret", role |-> "next"]} ELSE {})

\* A trap abandons the younger instructions: program order goes on in the handler
\* and then at epc.
Abandon(role, in) == IF FlushE(in) THEN "wrong" ELSE role

\* The ifetch(...) calls of this clock and the role of the address each passes.
Fetches(in, ins) ==
       (IF Deliver(in)  THEN {[by |-> "ifetch", role |-> NextRole(PC, ins)]} ELSE {})
  \cup (IF Redirect(in) THEN {[by |-> "execute",
                               role |-> IF DEREG.role = "wrong" THEN "wrong" ELSE "next"]} ELSE {})
       \* fence, unlike fencei, leaves the younger instructions in decode and execute
  \cup (IF FenceDone(in)
        THEN {[by |-> "memory",
               role |-> IF decode \/ execute \/ Deliver(in) \/ DEREG.acted
                        THEN "again" ELSE "next"]}
        ELSE {})
  \cup (IF trap THEN {[by |-> "trap", role |-> IF epc = "early" THEN "next" ELSE epc]} ELSE {})
  \cup (IF xret THEN {[by |-> "xret", role |-> "next"]} ELSE {})

\* Variant: the instruction cache stays in compare_tag after a hit.
IfetchEveryClock(in, ins) ==
  /\ ifetch' = (Fetches(in, ins) # {} \/ (ifetch /\ ~FlushI(in) /\ ~FenceIn))
  /\ PC' \in (IF Fetches(in, ins) = {} THEN {PC} ELSE {c.role : c \in Fetches(in, ins)})
  /\ compare' = (in.lookup \/ compare)

Ifetch(in, ins) ==
  LET calls == Fetches(in, ins) IN
  /\ ifetch' = \/ calls # {}
               \/ ifetch /\ ~FlushI(in) /\ ~Redirect(in) /\ ~FenceIn
  \* Two calls in one clock put an unspecified mix of both addresses into PC.
  /\ PC' \in IF calls = {} THEN {Abandon(PC, in)}
             ELSE {c.role : c \in calls}
                    \cup {"wrong" : p \in {q \in calls \X calls : q[1].by # q[2].by}}
  /\ compare' = (in.lookup /\ ~compare)

Decode(in, ins) ==
  /\ decode' = \/ Deliver(in)
               \/ decode /\ StallDecode(in) /\ ~FlushD(in) /\ ~Redirect(in) /\ ~FenceIn
  /\ IDREG' = IF Deliver(in) THEN [ins |-> ins, role |-> PC]
              ELSE [IDREG EXCEPT !.role = Abandon(@, in)]

\* Variant: while execute waits it latches the operands forwarded to it.
ExecuteLatchesForwarded(in) ==
  /\ execute' = ((decode /\ ~StallDecode(in)) \/ (execute /\ ~Issue(in) /\ ~FlushE(in) /\ ~FenceIn))
  /\ DEREG' = IF decode /\ ~StallDecode(in)
              THEN [ins |-> IDREG.ins, role |-> IDREG.role, acted |-> FALSE,
                    a |-> RegRead(IDREG.ins.rs1), b |-> RegRead(IDREG.ins.rs2)]
              ELSE [DEREG EXCEPT !.a = ExecuteAluA, !.b = ExecuteAluB]
  /\ munit' = IF MulAccept THEN [busy |-> ~in.done, ready |-> OperandsCurrent]
              ELSE [munit EXCEPT !.busy = @ /\ ~in.done]

Execute(in) ==
  /\ execute' = \/ decode /\ ~StallDecode(in)
                \/ execute /\ ~Issue(in) /\ ~FlushE(in) /\ ~FenceIn
  /\ DEREG' =
       IF decode /\ ~StallDecode(in)
       THEN LET i == IDREG.ins IN
            [ins |-> i, role |-> IDREG.role, acted |-> FALSE,
             a |-> Aged(RegRead(i.rs1), i.rs1, in),
             b |-> Aged(RegRead(i.rs2), i.rs2, in)]
       ELSE [DEREG EXCEPT !.role = Abandon(@, in),
                          !.a = Aged(@, DEREG.ins.rs1, in),
                          !.b = Aged(@, DEREG.ins.rs2, in),
                          !.acted = @ \/ ((Xret \/ Exc(in)) /\ ~Issue(in))]
  /\ munit' = IF FlushE(in)     THEN [munit EXCEPT !.busy = FALSE]
              ELSE IF MulAccept THEN [busy |-> ~in.done, ready |-> OperandsCurrent]
              ELSE [munit EXCEPT !.busy = @ /\ ~in.done]

Memory(in) ==
  /\ memory' = (Issue(in) \/ (memory /\ ~Retire(in) /\ ~FlushM(in)))
  /\ EMREG' =
       IF ~Issue(in) THEN [EMREG EXCEPT !.d = Aged(@, EMREG.rs2, in)]
       ELSE IF FlushE(in) THEN NopEM        \* execute_nop
       ELSE LET i == DEREG.ins IN
            [cls |-> i.cls, rd |-> i.rd, role |-> DEREG.role,
             rs2 |-> IF i.cls = "store" THEN i.rs2 ELSE 0,
             ready |-> IF MulExe /\ munit.busy THEN munit.ready ELSE OperandsCurrent,
             d |-> IF i.cls = "store" THEN Aged(StoreRs2, i.rs2, in) ELSE "cur"]
  /\ lsu' =
       CASE in.dmem \in {"ready", "dfault", "retry"} -> [lsu EXCEPT !.busy = FALSE, !.own = FALSE]
         [] in.dmem = "wait" /\ ~lsu.busy /\ Request ->
              [busy |-> TRUE, own |-> ~Issue(in),
               data |-> EMREG.cls = "store" => EMREG.rs2 = 0 \/ MemData = "cur"]
         [] OTHER -> [lsu EXCEPT !.own = @ /\ ~Issue(in)]

\* loaded_value is the answer to this instruction's own request, or not; a csr that
\* should have trapped reads 0.
Answer(in) ==
  IF Missed(in) \/ (EMREG.cls \in {"load", "amo"} /\ lsu.busy /\ ~lsu.own) THEN "old" ELSE "cur"

Writeback(in) ==
  /\ writeback' = Retire(in)
  /\ MWREG' = IF Retire(in) THEN [cls |-> EMREG.cls, rd |-> EMREG.rd, v |-> Answer(in)]
              ELSE MWREG
  /\ RF' = [r \in Regs |->
              Aged(IF FromM(r) THEN MWREG.v ELSE RF[r], r, in)]

\* A trap taken over the head of an instruction that waits in memory
Overtaking(role, in) == IF MemWait(in) /\ role = "next" THEN "early" ELSE role

\* Variant: a fetch fault starts no trap.
TrapNotOnIFault(in) ==
  /\ trap' = (Irq(in) \/ MFault(in) \/ Exc(in))
  /\ UNCHANGED epc
  /\ xret' = Xret

\* rv32x_core: interrupts resume at DEREG.pc whether or not execute is active;
\* what it left behind in DEREG has been issued.
Trap(in) ==
  /\ trap' = (Irq(in) \/ MFault(in) \/ Exc(in) \/ IFault(in))
  /\ epc' =
       CASE Missed(in) -> "wrong"      \* past an instruction that was to trap
         [] Irq(in)    -> Overtaking(IF execute THEN DEREG.role ELSE "again", in)
         [] MFault(in) -> EMREG.role
         [] Exc(in)    -> Overtaking(DEREG.role, in)
         [] IFault(in) -> IF (decode \/ execute) /\ PC = "next" THEN "early" ELSE Overtaking(PC, in)
         \* the overtaken instruction is done
         [] epc = "early" /\ Retire(in) /\ ~FlushE(in) /\ ~IFault(in) -> "next"
         [] OTHER      -> epc
  /\ xret' = Xret

Clock(in, ins) ==
  /\ Ifetch(in, ins)
  /\ Decode(in, ins)
  /\ Execute(in)
  /\ Memory(in)
  /\ Writeback(in)
  /\ Trap(in)

Next == \E in \in Inputs : \E ins \in (IF in.hit THEN Instrs ELSE {Nop}) : Clock(in, ins)

Spec == Init /\ [][Next]_vars

\* A clock in which a condition on the inputs holds
ClockWith(P(_)) ==
  \E in \in Inputs : P(in) /\ \E ins \in (IF in.hit THEN Instrs ELSE {Nop}) : Clock(in, ins)

(* The clock keeps running, and every unit that is asked again and again     *)
(* answers: memory, the instruction cache, multiplier and divider (both      *)
(* count down) and the flush handshakes.                                     *)
Looks(in) == in.lookup
Hits(in) == in.hit
Replies(in) == in.dmem \in {"ready", "dfault"}
Syncs(in) == in.synced
Finishes(in) == in.done

FairSpec ==
  /\ Spec
  /\ WF_vars(Next)
  /\ SF_vars(ClockWith(Looks))
  /\ SF_vars(ClockWith(Hits))
  /\ SF_vars(ClockWith(Replies))
  /\ SF_vars(ClockWith(Syncs))
  /\ SF_vars(ClockWith(Finishes))

-----------------------------------------------------------------------------
(* Properties.                                                             *)

(* The forwarding unit looks one and two stages ahead, and the two fetch     *)
(* clocks per instruction keep it from ever having to look further: no three *)
(* neighbouring stages hold instructions at once.  (A multiplication that    *)
(* waits in execute lets the stages behind it close up, see OperandsReady.)  *)
NoThreeInARow == ~(decode /\ execute /\ memory) /\ ~(execute /\ memory /\ writeback)

(* An instruction is handed to the memory stage with the operands program    *)
(* order gives it: whatever stalls came between, the interlock and the       *)
(* forwarding unit together never let it compute from an overwritten value.  *)
OperandsReady == memory => EMREG.ready

(* The word a store (or AMO) hands to the load store unit is the value of    *)
(* rs2 in program order, although stores bypass the forwarding unit and take *)
(* rs2 from MWREG without asking whether writeback is active.                *)
StoreDataReady == lsu.busy /\ lsu.own => lsu.data

(* What is written back to a register is the answer to the instruction's own *)
(* request and not to the request of another instruction, and was computed   *)
(* from nothing stale.                                                       *)
AnswersMatch == writeback => MWREG.v = "cur"

(* Instructions reach the memory stage in program order, none twice and none *)
(* left out, none from the path of a mispredicted branch, across stalls,     *)
(* redirections, fence.i, faults and returns.                                *)
IssuedInOrder == memory => EMREG.role = "next"

(* No instruction of a path the program does not take reaches the memory     *)
(* stage, where its effects become visible.                                  *)
NeverWrongPath == memory => EMREG.role # "wrong"

(* A trap saves the address of the next instruction the program is to issue: *)
(* everything before it has left the memory stage, nothing after it has been *)
(* issued.                                                                   *)
TrapPrecise == trap => epc = "next"

(* A trap never saves an address the program would not have reached, and     *)
(* leaves no instruction out.  An interrupt taken while execute is empty     *)
(* saves the address left in DEREG, that of an instruction already issued,   *)
(* which is then repeated: so TrapPrecise is too much to ask there.          *)
ResumeOnPath == trap => epc # "wrong"

(* The pipeline never dries up: unless fence.i or sfence.vma is flushing,    *)
(* the fetch stage is active or about to be restarted.                       *)
FetchAlive == ifetch \/ trap \/ xret \/ (memory /\ EMREG.cls = "fencei")

(* load_store_unit.h: "must be asserted until ready arrives".  Once a load,  *)
(* store or AMO is in the memory stage it stays there, undisturbed, until it *)
(* is answered or a trap takes it out.                                       *)
RequestHeld ==
  [][Request => \/ writeback'
                \/ trap'
                \/ /\ memory'
                   /\ <<EMREG'.cls, EMREG'.rd, EMREG'.role>> = <<EMREG.cls, EMREG.rd, EMREG.role>>]_vars

(* The processor keeps retiring instructions or taking traps: no stall that  *)
(* decode, execute and memory impose on each other lasts for ever.           *)
Progress == []<>(writeback \/ trap)
=============================================================================
