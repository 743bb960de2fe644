-------------------------- MODULE Pipeline_proofs ---------------------------
(* Theorems about Pipeline, for every set of registers, instructions and     *)
(* events.                                                                   *)
EXTENDS Pipeline, TLAPS

(* What the register file, the pipeline registers and the forwarding paths   *)
(* hand on is a register value, never the tag of a forwarded result.         *)
LEMMA ReadsAreKept ==
  ASSUME TypeOK, NEW r \in Regs
  PROVE  RegRead(r) \in Kept
BY DEF TypeOK, RegRead, MwType

LEMMA AgedIsKept ==
  ASSUME NEW x \in Kept, NEW r, NEW in
  PROVE  Aged(x, r, in) \in Kept
BY DEF Aged, Kept

LEMMA NopIsInstr == Nop \in Instr
BY PipelineAssumption DEF Nop, Instr, Classes

LEMMA InitTypeOK == Init => TypeOK
<1> SUFFICES ASSUME Init PROVE TypeOK
  OBVIOUS
<1>1. 0 \in Regs
  BY PipelineAssumption
<1>2. IDREG \in IdType /\ DEREG \in DeType
  BY NopIsInstr DEF Init, IdType, DeType, Roles, Kept
<1>3. EMREG \in EmType /\ MWREG \in MwType
  BY <1>1 DEF Init, EmType, MwType, NopEM, Roles, Kept, Classes
<1>4. RF \in [Regs -> Kept]
  BY DEF Init, Kept
<1> QED BY <1>2, <1>3, <1>4 DEF Init, TypeOK, Roles

(* The fetch stage is only ever given roles of the program order.            *)
LEMMA IfetchType ==
  ASSUME TypeOK, NEW in, NEW ins \in Instr, Ifetch(in, ins)
  PROVE  ifetch' \in BOOLEAN /\ PC' \in Roles /\ compare' \in BOOLEAN
<1>1. ifetch' \in BOOLEAN /\ compare' \in BOOLEAN
  BY DEF Ifetch
<1>2. \A c \in Fetches(in, ins) : c.role \in Roles
  <2>1. NextRole(PC, ins) \in Roles
    BY DEF NextRole, Roles
  <2>2. (IF epc = "early" THEN "next" ELSE epc) \in Roles
    BY DEF TypeOK, Roles
  <2> QED BY <2>1, <2>2 DEF Fetches, Roles
<1>3. Abandon(PC, in) \in Roles
  BY DEF TypeOK, Abandon, Roles
<1>4. PC' \in Roles
  <2>1. CASE Fetches(in, ins) = {}
    BY <1>3, <2>1 DEF Ifetch
  <2>2. CASE Fetches(in, ins) # {}
    <3>1. PC' \in {c.role : c \in Fetches(in, ins)}
                    \cup {"wrong" : p \in {q \in Fetches(in, ins) \X Fetches(in, ins) : q[1].by # q[2].by}}
      BY <2>2 DEF Ifetch
    <3> QED BY <1>2, <3>1 DEF Roles
  <2> QED BY <2>1, <2>2
<1> QED BY <1>1, <1>4

LEMMA DecodeType ==
  ASSUME TypeOK, NEW in, NEW ins \in Instr, Decode(in, ins)
  PROVE  decode' \in BOOLEAN /\ IDREG' \in IdType
BY DEF TypeOK, Decode, IdType, Abandon, Roles

LEMMA ExecuteType ==
  ASSUME TypeOK, NEW in, in.done \in BOOLEAN, Execute(in)
  PROVE  /\ execute' \in BOOLEAN
         /\ DEREG' \in DeType
         /\ munit' \in [busy : BOOLEAN, ready : BOOLEAN]
<1>1. execute' \in BOOLEAN
  BY DEF Execute
<1>2. DEREG' \in DeType
  <2>1. CASE decode /\ ~StallDecode(in)
    <3>1. /\ IDREG.ins \in Instr
          /\ IDREG.role \in Roles
          /\ IDREG.ins.rs1 \in Regs
          /\ IDREG.ins.rs2 \in Regs
      BY DEF TypeOK, IdType, Instr
    <3>2. /\ Aged(RegRead(IDREG.ins.rs1), IDREG.ins.rs1, in) \in Kept
          /\ Aged(RegRead(IDREG.ins.rs2), IDREG.ins.rs2, in) \in Kept
      BY <3>1, ReadsAreKept, AgedIsKept
    <3> QED BY <2>1, <3>1, <3>2 DEF Execute, DeType
  <2>2. CASE ~(decode /\ ~StallDecode(in))
    <3>1. DEREG \in DeType
      BY DEF TypeOK
    <3>2. /\ Aged(DEREG.a, DEREG.ins.rs1, in) \in Kept
          /\ Aged(DEREG.b, DEREG.ins.rs2, in) \in Kept
          /\ Abandon(DEREG.role, in) \in Roles
      BY <3>1, AgedIsKept DEF DeType, Abandon, Roles
    <3>3. (DEREG.acted \/ ((Xret \/ Exc(in)) /\ ~Issue(in))) \in BOOLEAN
      OBVIOUS
    <3>4. DEREG' = [DEREG EXCEPT !.role = Abandon(@, in),
                          !.a = Aged(@, DEREG.ins.rs1, in),
                          !.b = Aged(@, DEREG.ins.rs2, in),
                          !.acted = @ \/ ((Xret \/ Exc(in)) /\ ~Issue(in))]
      BY <2>2 DEF Execute
    <3> QED BY <3>1, <3>2, <3>3, <3>4 DEF DeType
  <2> QED BY <2>1, <2>2
<1>3. munit' \in [busy : BOOLEAN, ready : BOOLEAN]
  BY DEF TypeOK, Execute, OperandsCurrent
<1> QED BY <1>1, <1>2, <1>3

LEMMA MemoryType ==
  ASSUME TypeOK, NEW in, Memory(in)
  PROVE  /\ memory' \in BOOLEAN
         /\ EMREG' \in EmType
         /\ lsu' \in [busy : BOOLEAN, own : BOOLEAN, data : BOOLEAN]
<1>1. memory' \in BOOLEAN
  BY DEF Memory
<1>2. EMREG' \in EmType
  <2>1. CASE ~Issue(in)
    <3>1. EMREG \in EmType /\ Aged(EMREG.d, EMREG.rs2, in) \in Kept
      BY AgedIsKept DEF TypeOK, EmType
    <3>2. EMREG' = [EMREG EXCEPT !.d = Aged(@, EMREG.rs2, in)]
      BY <2>1 DEF Memory
    <3> QED BY <3>1, <3>2 DEF EmType
  <2>2. CASE Issue(in) /\ FlushE(in)
    <3>1. EMREG' = NopEM
      BY <2>2 DEF Memory
    <3> QED BY <3>1, PipelineAssumption DEF NopEM, EmType, Classes, Roles, Kept
  <2>3. CASE Issue(in) /\ ~FlushE(in)
    <3> DEFINE i == DEREG.ins
    <3>1. /\ i \in Instr
          /\ i.cls \in Classes /\ i.rd \in Regs /\ i.rs2 \in Regs
          /\ DEREG.role \in Roles
      BY DEF TypeOK, DeType, Instr
    <3>2. StoreRs2 \in Kept
      BY DEF TypeOK, DeType, MwType, StoreRs2
    <3>3. (IF i.cls = "store" THEN Aged(StoreRs2, i.rs2, in) ELSE "cur") \in Kept
      BY <3>2, AgedIsKept DEF Kept
    <3>4. (IF MulExe /\ munit.busy THEN munit.ready ELSE OperandsCurrent) \in BOOLEAN
      BY DEF TypeOK, OperandsCurrent
    <3>5. (IF i.cls = "store" THEN i.rs2 ELSE 0) \in Regs
      BY <3>1, PipelineAssumption
    <3>6. EMREG' = [cls |-> i.cls, rd |-> i.rd, role |-> DEREG.role,
                    rs2 |-> IF i.cls = "store" THEN i.rs2 ELSE 0,
                    ready |-> IF MulExe /\ munit.busy THEN munit.ready ELSE OperandsCurrent,
                    d |-> IF i.cls = "store" THEN Aged(StoreRs2, i.rs2, in) ELSE "cur"]
      BY <2>3 DEF Memory
    <3> HIDE DEF i
    <3> QED BY <3>1, <3>3, <3>4, <3>5, <3>6 DEF EmType
  <2> QED BY <2>1, <2>2, <2>3
<1>3. lsu' \in [busy : BOOLEAN, own : BOOLEAN, data : BOOLEAN]
  <2>1. lsu \in [busy : BOOLEAN, own : BOOLEAN, data : BOOLEAN]
    BY DEF TypeOK
  <2>2. (lsu.own /\ ~Issue(in)) \in BOOLEAN /\ (~Issue(in)) \in BOOLEAN
    OBVIOUS
  <2>3. (EMREG.cls = "store" => EMREG.rs2 = 0 \/ MemData = "cur") \in BOOLEAN
    OBVIOUS
  <2> QED BY <2>1, <2>2, <2>3 DEF Memory
<1> QED BY <1>1, <1>2, <1>3

LEMMA WritebackType ==
  ASSUME TypeOK, NEW in, Writeback(in)
  PROVE  writeback' \in BOOLEAN /\ MWREG' \in MwType /\ RF' \in [Regs -> Kept]
<1>1. writeback' \in BOOLEAN
  BY DEF Writeback, Retire
<1>2. MWREG' \in MwType
  <2>1. EMREG.cls \in Classes /\ EMREG.rd \in Regs
    BY DEF TypeOK, EmType
  <2>2. Answer(in) \in Kept
    BY DEF Answer, Kept
  <2>3. CASE Retire(in)
    <3>1. MWREG' = [cls |-> EMREG.cls, rd |-> EMREG.rd, v |-> Answer(in)]
      BY <2>3 DEF Writeback
    <3> QED BY <2>1, <2>2, <3>1 DEF MwType
  <2>4. CASE ~Retire(in)
    BY <2>4 DEF Writeback, TypeOK
  <2> QED BY <2>3, <2>4
<1>3. ASSUME NEW r \in Regs
      PROVE  Aged(IF FromM(r) THEN MWREG.v ELSE RF[r], r, in) \in Kept
  BY AgedIsKept DEF TypeOK, MwType
<1> QED BY <1>1, <1>2, <1>3 DEF Writeback

LEMMA TrapType ==
  ASSUME TypeOK, NEW in, Trap(in)
  PROVE  trap' \in BOOLEAN /\ epc' \in Roles \cup {"early"} /\ xret' \in BOOLEAN
<1>1. trap' \in BOOLEAN /\ xret' \in BOOLEAN
  BY DEF Trap, Xret, InExecute
<1>2. \A role \in Roles : Overtaking(role, in) \in Roles \cup {"early"}
  BY DEF Overtaking
<1>3. /\ DEREG.role \in Roles /\ EMREG.role \in Roles /\ PC \in Roles
      /\ {"again", "next", "wrong"} \subseteq Roles /\ epc \in Roles \cup {"early"}
  BY DEF TypeOK, DeType, EmType, Roles
<1>4. epc' \in Roles \cup {"early"}
  BY <1>2, <1>3 DEF Trap
<1> QED BY <1>1, <1>4

(* A clock leaves every register within its type, whatever memory, caches    *)
(* and interrupts do in it.                                                  *)
LEMMA NextTypeOK == TypeOK /\ [Next]_vars => TypeOK'
<1> SUFFICES ASSUME TypeOK, [Next]_vars PROVE TypeOK'
  OBVIOUS
<1>1. ASSUME NEW in \in Inputs, NEW ins \in (IF in.hit THEN Instrs ELSE {Nop}), Clock(in, ins)
      PROVE  TypeOK'
  <2>1. ins \in Instr
    BY <1>1, NopIsInstr, PipelineAssumption
  <2>2. in.done \in BOOLEAN
    BY DEF Inputs, May
  <2>3. ifetch' \in BOOLEAN /\ PC' \in Roles /\ compare' \in BOOLEAN
    BY <1>1, <2>1, IfetchType DEF Clock
  <2>4. decode' \in BOOLEAN /\ IDREG' \in IdType
    BY <1>1, <2>1, DecodeType DEF Clock
  <2>5. /\ execute' \in BOOLEAN /\ DEREG' \in DeType
        /\ munit' \in [busy : BOOLEAN, ready : BOOLEAN]
    BY <1>1, <2>2, ExecuteType DEF Clock
  <2>6. /\ memory' \in BOOLEAN /\ EMREG' \in EmType
        /\ lsu' \in [busy : BOOLEAN, own : BOOLEAN, data : BOOLEAN]
    BY <1>1, MemoryType DEF Clock
  <2>7. writeback' \in BOOLEAN /\ MWREG' \in MwType /\ RF' \in [Regs -> Kept]
    BY <1>1, WritebackType DEF Clock
  <2>8. trap' \in BOOLEAN /\ epc' \in Roles \cup {"early"} /\ xret' \in BOOLEAN
    BY <1>1, TrapType DEF Clock
  <2> QED BY <2>3, <2>4, <2>5, <2>6, <2>7, <2>8 DEF TypeOK
<1>2. CASE UNCHANGED vars
  BY <1>2 DEF vars, TypeOK
<1> QED BY <1>1, <1>2 DEF Next

(* The pipeline registers, the register file and the saved program counter   *)
(* stay within their types for every program, interrupt and memory timing.   *)
THEOREM TypeCorrect == Spec => []TypeOK
BY InitTypeOK, NextTypeOK, PTL DEF Spec

-----------------------------------------------------------------------------
(* Programs without the M extension.                                         *)
NoMul == \A i \in Instrs : i.cls # "mul"

(* The instruction cache answers at most every second clock.  Decode and     *)
(* execute are therefore occupied together only in the clock after an        *)
(* answer, and only after memory has just been left.                         *)
Spaced ==
  /\ IDREG.ins.cls # "mul" /\ DEREG.ins.cls # "mul"
  /\ decode /\ execute => ~compare /\ ~memory
  /\ ~(execute /\ memory /\ writeback)

LEMMA SpacedInit == Init => Spaced
BY DEF Init, Spaced, Nop

(* Without multiplications a stalled execute stage waits for memory, or is   *)
(* being flushed.                                                            *)
LEMMA WaitsForMemory ==
  ASSUME NEW in, DEREG.ins.cls # "mul", StallExecute(in), ~FlushE(in)
  PROVE  memory
BY DEF StallExecute, LoadInterlock, LoadHazard, CsrHazard, FromE, MulWait, MulExe, MulInE, MemWait

LEMMA SpacedStep ==
  ASSUME NoMul, Spaced, NEW in \in Inputs, NEW ins \in (IF in.hit THEN Instrs ELSE {Nop}),
         Clock(in, ins)
  PROVE  Spaced'
<1>1. in.hit => compare
  BY DEF Inputs, May
<1>2. Deliver(in) => compare /\ ~compare' /\ ~StallDecode(in)
  BY <1>1 DEF Deliver, StallIfetch, Clock, Ifetch
<1>3. ~StallDecode(in) => ~StallExecute(in)
  BY DEF StallDecode
<1>4. ~StallExecute(in) => ~FlushE(in) /\ ~MemWait(in) /\ (execute => Issue(in))
  BY DEF StallExecute, Issue
<1>5. IDREG'.ins.cls # "mul" /\ DEREG'.ins.cls # "mul"
  <2>1. ins.cls # "mul"
    BY DEF NoMul, Nop
  <2>2. IDREG'.ins = ins \/ IDREG'.ins = IDREG.ins
    BY DEF Clock, Decode
  <2>3. DEREG'.ins = IDREG.ins \/ DEREG'.ins = DEREG.ins
    BY DEF Clock, Execute
  <2> QED BY <2>1, <2>2, <2>3 DEF Spaced
<1>6. execute' => (decode /\ ~StallDecode(in)) \/ (execute /\ ~Issue(in) /\ StallExecute(in) /\ ~FlushE(in))
  BY <1>4 DEF Clock, Execute
<1>7. decode' => Deliver(in) \/ (decode /\ StallDecode(in))
  BY DEF Clock, Decode
<1>8. memory' => Issue(in) \/ MemWait(in)
  BY DEF Clock, Memory, MemWait
<1>9. Issue(in) => execute
  BY DEF Issue, CorrectPrediction
<1>10. ASSUME decode', execute' PROVE ~compare' /\ ~memory'
  <2>1. CASE decode /\ ~StallDecode(in)
    <3>1. Deliver(in)
      BY <1>7, <1>10, <2>1
    <3>2. ~execute /\ ~MemWait(in)
      BY <1>2, <1>3, <1>4, <2>1, <3>1 DEF Spaced
    <3> QED BY <1>2, <1>8, <1>9, <3>1, <3>2
  <2>2. CASE execute /\ ~Issue(in) /\ StallExecute(in) /\ ~FlushE(in)
    <3>1. memory
      BY <2>2, WaitsForMemory DEF Spaced
    <3>2. ~Deliver(in)
      BY <1>2, <1>3, <2>2
    <3>3. decode
      BY <1>7, <1>10, <3>2
    <3> QED BY <2>2, <3>1, <3>3 DEF Spaced
  <2> QED BY <1>6, <1>10, <2>1, <2>2
<1>11. ASSUME execute', memory', writeback' PROVE FALSE
  <2>1. Retire(in) /\ memory
    BY <1>11 DEF Clock, Writeback, Retire
  <2>2. execute
    BY <1>8, <1>9, <1>11, <2>1 DEF MemWait
  <2>3. ~decode
    BY <2>1, <2>2 DEF Spaced
  <2>4. execute /\ ~Issue(in)
    BY <1>6, <1>11, <2>3
  <2> QED BY <1>8, <1>11, <2>1, <2>4 DEF MemWait
<1> QED BY <1>5, <1>10, <1>11 DEF Spaced

(* Without multiplications, no three neighbouring stages are ever occupied   *)
(* at once: two clocks of fetching per instruction keep the pipeline so thin *)
(* that the forwarding paths, which reach back two stages, are enough.       *)
THEOREM NeverThreeInARow == NoMul => (Spec => []NoThreeInARow)
<1> SUFFICES ASSUME NoMul PROVE Spec => []NoThreeInARow
  OBVIOUS
<1>1. Spaced /\ [Next]_vars => Spaced'
  <2> SUFFICES ASSUME Spaced, [Next]_vars PROVE Spaced'
    OBVIOUS
  <2>1. CASE Next
    BY <2>1, SpacedStep DEF Next
  <2>2. CASE UNCHANGED vars
    BY <2>2 DEF vars, Spaced
  <2> QED BY <2>1, <2>2
<1>2. Spaced => NoThreeInARow
  BY DEF Spaced, NoThreeInARow
<1> QED BY <1>1, <1>2, SpacedInit, PTL DEF Spec

-----------------------------------------------------------------------------
(* Programs all of whose branches are mispredicted: what remains when the    *)
(* one path that ignores stall_execute is never taken.                       *)
NoCorrectPrediction == \A i \in Instrs : i.cls = "branch" => i.turn

Turning ==
  /\ IDREG.ins.cls = "branch" => IDREG.ins.turn
  /\ DEREG.ins.cls = "branch" => DEREG.ins.turn

LEMMA TurningStep ==
  ASSUME NoCorrectPrediction, Turning,
         NEW in \in Inputs, NEW ins \in (IF in.hit THEN Instrs ELSE {Nop}), Clock(in, ins)
  PROVE  Turning'
<1>1. ins.cls = "branch" => ins.turn
  BY DEF NoCorrectPrediction, Nop
<1>2. IDREG'.ins = ins \/ IDREG'.ins = IDREG.ins
  BY DEF Clock, Decode
<1>3. DEREG'.ins = IDREG.ins \/ DEREG'.ins = DEREG.ins
  BY DEF Clock, Execute
<1> QED BY <1>1, <1>2, <1>3 DEF Turning

(* An occupied and waiting memory stage is not given another instruction.    *)
LEMMA NotOverwritten ==
  ASSUME Turning, NEW in, MemWait(in)
  PROVE  ~Issue(in)
BY DEF Turning, Issue, CorrectPrediction, StallExecute

LEMMA RequestStep ==
  ASSUME TypeOK, Turning, Request, NEW in \in Inputs,
         NEW ins \in (IF in.hit THEN Instrs ELSE {Nop}), Clock(in, ins)
  PROVE  \/ writeback'
         \/ trap'
         \/ /\ memory'
            /\ <<EMREG'.cls, EMREG'.rd, EMREG'.role>> = <<EMREG.cls, EMREG.rd, EMREG.role>>
<1>1. CASE Retire(in)
  BY <1>1 DEF Clock, Writeback
<1>2. CASE FlushM(in)
  BY <1>2 DEF Clock, Trap, FlushM
<1>3. CASE ~Retire(in) /\ ~FlushM(in)
  <2>1. memory' /\ ~Issue(in)
    BY <1>3, NotOverwritten DEF Clock, Memory, Request, MemWait
  <2>2. EMREG' = [EMREG EXCEPT !.d = Aged(@, EMREG.rs2, in)]
    BY <2>1 DEF Clock, Memory
  <2> QED BY <2>1, <2>2 DEF TypeOK, EmType
<1> QED BY <1>1, <1>2, <1>3

(* Unless a correctly predicted branch follows it, a load, store or AMO      *)
(* keeps its place in the memory stage until it is answered or traps.        *)
THEOREM RequestsAreHeld == NoCorrectPrediction => (Spec => RequestHeld)
<1> SUFFICES ASSUME NoCorrectPrediction PROVE Spec => RequestHeld
  OBVIOUS
<1>1. Init => Turning
  BY DEF Init, Turning, Nop
<1>2. Turning /\ [Next]_vars => Turning'
  <2> SUFFICES ASSUME Turning, [Next]_vars PROVE Turning'
    OBVIOUS
  <2>1. CASE Next
    BY <2>1, TurningStep DEF Next
  <2>2. CASE UNCHANGED vars
    BY <2>2 DEF vars, Turning
  <2> QED BY <2>1, <2>2
<1>3. TypeOK /\ Turning /\ [Next]_vars
        => [Request => \/ writeback'
                       \/ trap'
                       \/ /\ memory'
                          /\ <<EMREG'.cls, EMREG'.rd, EMREG'.role>>
                                = <<EMREG.cls, EMREG.rd, EMREG.role>>]_vars
  BY RequestStep DEF Next
<1> QED BY <1>1, <1>2, <1>3, TypeCorrect, PTL DEF Spec, RequestHeld

-----------------------------------------------------------------------------
(* What one clock writes into the pipeline registers and asks of the load    *)
(* store unit, field by field.                                               *)
LEMMA IdregMoves ==
  ASSUME TypeOK, NEW in, NEW ins, Decode(in, ins)
  PROVE  /\ Deliver(in) => IDREG'.ins = ins /\ IDREG'.role = PC
         /\ ~Deliver(in) => IDREG'.ins = IDREG.ins /\ IDREG'.role = Abandon(IDREG.role, in)
BY DEF TypeOK, IdType, Decode

LEMMA DeregMoves ==
  ASSUME TypeOK, NEW in, Execute(in)
  PROVE  /\ decode /\ ~StallDecode(in) =>
              /\ DEREG'.ins = IDREG.ins /\ DEREG'.role = IDREG.role
              /\ DEREG'.a = Aged(RegRead(IDREG.ins.rs1), IDREG.ins.rs1, in)
              /\ DEREG'.b = Aged(RegRead(IDREG.ins.rs2), IDREG.ins.rs2, in)
         /\ ~(decode /\ ~StallDecode(in)) =>
              /\ DEREG'.ins = DEREG.ins /\ DEREG'.role = Abandon(DEREG.role, in)
              /\ DEREG'.a = Aged(DEREG.a, DEREG.ins.rs1, in)
              /\ DEREG'.b = Aged(DEREG.b, DEREG.ins.rs2, in)
<1>1. CASE decode /\ ~StallDecode(in)
  BY <1>1 DEF Execute
<1>2. CASE ~(decode /\ ~StallDecode(in))
  <2>1. DEREG' = [DEREG EXCEPT !.role = Abandon(@, in),
                          !.a = Aged(@, DEREG.ins.rs1, in),
                          !.b = Aged(@, DEREG.ins.rs2, in),
                          !.acted = @ \/ ((Xret \/ Exc(in)) /\ ~Issue(in))]
    BY <1>2 DEF Execute
  <2> QED BY <1>2, <2>1 DEF TypeOK, DeType
<1> QED BY <1>1, <1>2

LEMMA EmregMoves ==
  ASSUME TypeOK, NEW in, Memory(in)
  PROVE  /\ ~Issue(in) =>
              /\ EMREG'.cls = EMREG.cls /\ EMREG'.rd = EMREG.rd /\ EMREG'.rs2 = EMREG.rs2
              /\ EMREG'.role = EMREG.role /\ EMREG'.ready = EMREG.ready
              /\ EMREG'.d = Aged(EMREG.d, EMREG.rs2, in)
         /\ Issue(in) /\ FlushE(in) => EMREG' = NopEM
         /\ Issue(in) /\ ~FlushE(in) =>
              /\ EMREG'.cls = DEREG.ins.cls /\ EMREG'.rd = DEREG.ins.rd
              /\ EMREG'.rs2 = (IF DEREG.ins.cls = "store" THEN DEREG.ins.rs2 ELSE 0)
              /\ EMREG'.role = DEREG.role
              /\ EMREG'.ready = (IF MulExe /\ munit.busy THEN munit.ready ELSE OperandsCurrent)
              /\ EMREG'.d = (IF DEREG.ins.cls = "store"
                              THEN Aged(StoreRs2, DEREG.ins.rs2, in) ELSE "cur")
<1>1. CASE ~Issue(in)
  <2>1. EMREG' = [EMREG EXCEPT !.d = Aged(@, EMREG.rs2, in)]
    BY <1>1 DEF Memory
  <2> QED BY <1>1, <2>1 DEF TypeOK, EmType
<1>2. CASE Issue(in)
  BY <1>2 DEF Memory
<1> QED BY <1>1, <1>2

LEMMA LsuMoves ==
  ASSUME TypeOK, NEW in, Memory(in)
  PROVE  /\ in.dmem \in {"ready", "dfault", "retry"} => ~lsu'.busy
         /\ in.dmem = "wait" /\ ~lsu.busy /\ Request =>
              /\ lsu'.own = ~Issue(in)
              /\ lsu'.data = (EMREG.cls = "store" => EMREG.rs2 = 0 \/ MemData = "cur")
         /\ in.dmem = "wait" /\ ~(~lsu.busy /\ Request) =>
              /\ lsu'.busy = lsu.busy
              /\ lsu'.own = (lsu.own /\ ~Issue(in))
              /\ lsu'.data = lsu.data
BY DEF TypeOK, Memory

LEMMA RepliesOfMemory ==
  ASSUME NEW in \in Inputs
  PROVE  /\ in.dmem \in {"wait", "ready", "retry", "dfault"}
         /\ ~lsu.busy /\ ~Request => in.dmem = "wait"
         /\ in.dmem = "dfault" => "dfault" \in Events
BY DEF Inputs, DmemReplies

-----------------------------------------------------------------------------
(* Programs in which the memory stage never waits.                           *)
NoWaiting == \A i \in Instrs : i.cls \notin DataOps \cup Fences

(* What waits in the memory stage is not overwritten: either no branch is    *)
(* predicted correctly, or nothing waits.  A correctly predicted branch      *)
(* behind a waiting load is the case that is left out: execute hands it on   *)
(* without looking at stall_execute, and the load is lost.                   *)
Undisturbed == NoCorrectPrediction \/ NoWaiting

Quiet ==
  /\ ~lsu.busy
  /\ IDREG.ins.cls \notin DataOps \cup Fences
  /\ DEREG.ins.cls \notin DataOps \cup Fences
  /\ EMREG.cls \notin DataOps \cup Fences

Calm ==
  /\ NoCorrectPrediction => Turning
  /\ NoWaiting => Quiet

LEMMA CalmInit == Init => Calm
BY DEF Init, Calm, Turning, Quiet, Nop, NopEM, DataOps, Fences

LEMMA CalmStep ==
  ASSUME TypeOK, Calm,
         NEW in \in Inputs, NEW ins \in (IF in.hit THEN Instrs ELSE {Nop}), Clock(in, ins)
  PROVE  Calm'
<1>1. NoCorrectPrediction => Turning'
  BY TurningStep DEF Calm
<1>2. ASSUME NoWaiting PROVE Quiet'
  <2>1. Quiet
    BY <1>2 DEF Calm
  <2>2. ins.cls \notin DataOps \cup Fences
    BY <1>2 DEF NoWaiting, Nop, DataOps, Fences
  <2>3. /\ IDREG'.ins = ins \/ IDREG'.ins = IDREG.ins
        /\ DEREG'.ins = IDREG.ins \/ DEREG'.ins = DEREG.ins
    BY IdregMoves, DeregMoves DEF Clock
  <2>4. EMREG'.cls \in {EMREG.cls, "nop", DEREG.ins.cls}
    BY EmregMoves DEF Clock, NopEM
  <2>5. ~lsu'.busy
    BY <2>1, RepliesOfMemory, LsuMoves DEF Clock, Quiet, Request
  <2> QED BY <2>1, <2>2, <2>3, <2>4, <2>5 DEF Quiet, DataOps, Fences
<1> QED BY <1>1, <1>2 DEF Calm

(* With this, a waiting memory stage is never given another instruction,     *)
(* unless its own is flushed.                                                *)
LEMMA Waits ==
  ASSUME Undisturbed, Calm, NEW in \in Inputs, MemWait(in), ~FlushM(in)
  PROVE  ~Issue(in)
<1>1. CASE NoCorrectPrediction
  BY <1>1, NotOverwritten DEF Calm
<1>2. CASE NoWaiting
  <2>1. Quiet
    BY <1>2 DEF Calm
  <2> QED BY <2>1 DEF MemWait, Retire, Quiet
<1> QED BY <1>1, <1>2 DEF Undisturbed

-----------------------------------------------------------------------------
(* A request is running only for the instruction in the memory stage.        *)
OwnRequest == lsu.busy => lsu.own /\ Request

LEMMA OwnRequestStep ==
  ASSUME TypeOK, Undisturbed, Calm, OwnRequest,
         NEW in \in Inputs, NEW ins \in (IF in.hit THEN Instrs ELSE {Nop}), Clock(in, ins)
  PROVE  OwnRequest'
<1> SUFFICES ASSUME lsu'.busy PROVE lsu'.own /\ Request'
  BY DEF OwnRequest
<1>1. in.dmem = "wait"
  BY RepliesOfMemory, LsuMoves DEF Clock
<1>2. Request
  BY <1>1, LsuMoves DEF Clock, OwnRequest
<1>3. MemWait(in) /\ ~FlushM(in)
  BY <1>1, <1>2 DEF MemWait, Retire, DmemReady, FlushM, MFault, Request, DataOps, Inputs, May
<1>4. ~Issue(in)
  BY <1>3, Waits
<1>5. Request'
  BY <1>2, <1>3, <1>4, EmregMoves DEF Clock, Memory, MemWait, Request
<1>6. lsu'.own
  BY <1>1, <1>2, <1>4, LsuMoves DEF Clock, OwnRequest
<1> QED BY <1>5, <1>6

(* Only the program's instructions travel through the pipeline, and bubbles. *)
Programmed ==
  /\ IDREG.ins \in Instrs \cup {Nop}
  /\ DEREG.ins \in Instrs \cup {Nop}
  /\ EMREG.cls \in {i.cls : i \in Instrs \cup {Nop}}

LEMMA ProgrammedAlways == Spec => []Programmed
<1>1. Init => Programmed
  BY DEF Init, Programmed, Nop, NopEM
<1>2. TypeOK /\ Programmed /\ [Next]_vars => Programmed'
  <2>1. ASSUME TypeOK, Programmed, NEW in \in Inputs,
               NEW ins \in (IF in.hit THEN Instrs ELSE {Nop}), Clock(in, ins)
        PROVE  Programmed'
    <3>1. IDREG'.ins \in Instrs \cup {Nop} /\ DEREG'.ins \in Instrs \cup {Nop}
      BY <2>1, IdregMoves, DeregMoves DEF Clock, Programmed
    <3>2. EMREG'.cls \in {EMREG.cls, Nop.cls, DEREG.ins.cls}
      BY <2>1, EmregMoves DEF Clock, NopEM, Nop
    <3> QED BY <2>1, <3>1, <3>2 DEF Programmed
  <2>2. CASE UNCHANGED vars
    BY <2>2 DEF vars, Programmed
  <2> QED BY <2>1, <2>2 DEF Next
<1> QED BY <1>1, <1>2, TypeCorrect, PTL DEF Spec

(* Interrupts or illegal csr accesses, not both: an interrupt in the clock   *)
(* of a csr that is to trap lets it retire with the value 0.                 *)
Unmixed == \/ "irq" \notin Events \/ "illegal" \notin Events
           \/ \A i \in Instrs : i.cls # "csr"

LEMMA NeverMissed ==
  ASSUME Unmixed, Programmed, NEW in \in Inputs
  PROVE  ~Missed(in)
<1>1. in.illegal /\ in.irq => {"irq", "illegal"} \subseteq Events
  BY DEF Inputs, May
<1>2. in.illegal /\ ~InMemoryOperation => EMREG.cls = "csr"
  BY DEF Inputs, May, InMemoryOperation
<1> QED BY <1>1, <1>2 DEF Unmixed, Programmed, Nop, Missed, Irq

(* What leaves the memory stage is the answer to its own request.            *)
LEMMA AnswerStep ==
  ASSUME TypeOK, Unmixed, Programmed, OwnRequest, MWREG.v = "cur",
         NEW in \in Inputs, NEW ins \in (IF in.hit THEN Instrs ELSE {Nop}), Clock(in, ins)
  PROVE  MWREG'.v = "cur"
BY NeverMissed DEF OwnRequest, Clock, Writeback, Answer

Answered ==
  /\ Calm
  /\ OwnRequest
  /\ Unmixed => MWREG.v = "cur"

LEMMA AnsweredInit == Init => Answered
BY CalmInit DEF Init, Answered, OwnRequest

LEMMA AnsweredStep ==
  ASSUME TypeOK, Undisturbed, Programmed, Answered, [Next]_vars
  PROVE  Answered'
<1>1. CASE Next
  BY <1>1, CalmStep, OwnRequestStep, AnswerStep DEF Next, Answered
<1>2. CASE UNCHANGED vars
  BY <1>2 DEF vars, Answered, Calm, Turning, Quiet, OwnRequest, Request
<1> QED BY <1>1, <1>2

LEMMA AnsweredAlways == Undisturbed => (Spec => []Answered)
<1> SUFFICES ASSUME Undisturbed PROVE Spec => []Answered
  OBVIOUS
<1>1. TypeOK /\ Programmed /\ Answered /\ [Next]_vars => Answered'
  BY AnsweredStep
<1> QED BY <1>1, AnsweredInit, TypeCorrect, ProgrammedAlways, PTL DEF Spec

(* As long as what waits in the memory stage is left alone, the value every  *)
(* instruction writes back is the answer to its own request.                 *)
THEOREM AnswersAreOwn == Undisturbed /\ Unmixed => (Spec => []AnswersMatch)
<1> SUFFICES ASSUME Undisturbed, Unmixed PROVE Spec => []AnswersMatch
  OBVIOUS
<1>1. Answered => AnswersMatch
  BY DEF Answered, AnswersMatch
<1> QED BY <1>1, AnsweredAlways, PTL

-----------------------------------------------------------------------------
(* The fetch stage is given up only to a trap, to a return, or to a fence.i  *)
(* that will restart it.                                                     *)
LEMMA FetchAliveStep ==
  ASSUME TypeOK, Undisturbed, Calm, FetchAlive,
         NEW in \in Inputs, NEW ins \in (IF in.hit THEN Instrs ELSE {Nop}), Clock(in, ins)
  PROVE  FetchAlive'
<1>1. FlushI(in) => trap' \/ xret'
  BY DEF FlushI, FlushD, FlushE, Clock, Trap
<1>2. Fetches(in, ins) # {} => ifetch'
  BY DEF Clock, Ifetch
<1>3. trap \/ xret \/ Redirect(in) \/ FenceDone(in) => Fetches(in, ins) # {}
  BY DEF Fetches
<1>4. FenceIn => trap' \/ FenceDone(in) \/ (memory' /\ EMREG'.cls = "fencei")
  <2> SUFFICES ASSUME FenceIn, ~FlushM(in), ~Retire(in) PROVE memory' /\ EMREG'.cls = "fencei"
    BY DEF FlushM, FenceDone, FenceIn, Fences, Clock, Trap
  <2>1. ~Issue(in)
    BY Waits DEF FenceIn, MemWait
  <2> QED BY <2>1, EmregMoves DEF FenceIn, Clock, Memory
<1>5. CASE ifetch /\ ~FlushI(in) /\ ~Redirect(in) /\ ~FenceIn
  BY <1>5 DEF Clock, Ifetch, FetchAlive
<1>6. CASE ~(ifetch /\ ~FlushI(in) /\ ~Redirect(in) /\ ~FenceIn)
  BY <1>1, <1>2, <1>3, <1>4, <1>6 DEF FetchAlive, FenceIn
<1> QED BY <1>5, <1>6

LEMMA FetchAliveAlways == Undisturbed => (Spec => []FetchAlive)
<1> SUFFICES ASSUME Undisturbed PROVE Spec => []FetchAlive
  OBVIOUS
<1>1. Init => FetchAlive
  BY DEF Init, FetchAlive
<1>2. TypeOK /\ Answered /\ FetchAlive /\ [Next]_vars => FetchAlive'
  <2>1. CASE Next
    BY <2>1, FetchAliveStep DEF Next, Answered
  <2>2. CASE UNCHANGED vars
    BY <2>2 DEF vars, FetchAlive
  <2> QED BY <2>1, <2>2
<1> QED BY <1>1, <1>2, TypeCorrect, AnsweredAlways, PTL DEF Spec

(* Whatever is flushed and by whatever stage, fetching goes on or is about   *)
(* to: the pipeline never dries up.                                          *)
THEOREM FetchNeverDies == Undisturbed => (Spec => []FetchAlive)
BY FetchAliveAlways

-----------------------------------------------------------------------------
(* Where a value that is no longer that of program order may lie: in a       *)
(* register whose new value is being written back, in an operand that the    *)
(* forwarding unit is about to replace, in the rs2 of a store that will be   *)
(* taken from MWREG.  Everything else is current.                            *)
ToBeWritten(r) == r # 0 /\ writeback /\ MWREG.rd = r

DataCurrent ==
  /\ \A r \in Regs : RF[r] = "cur" \/ ToBeWritten(r)
  /\ execute => /\ DEREG.a = "cur" \/ ToBeWritten(DEREG.ins.rs1)
                /\ DEREG.b = "cur" \/ ToBeWritten(DEREG.ins.rs2)
  /\ execute /\ writeback => EMREG.cls = MWREG.cls
  /\ EMREG.ready
  /\ memory => /\ EMREG.d = "cur" \/ MWREG.rd = EMREG.rs2
               /\ EMREG.rs2 # 0 => EMREG.rd = 0
  /\ lsu.busy => lsu.data

LEMMA DataInit == Init => DataCurrent
BY DEF Init, DataCurrent, NopEM

(* The register file's read port sees the register being written.            *)
LEMMA ReadsAreCurrent ==
  ASSUME DataCurrent, MWREG.v = "cur", NEW r \in Regs
  PROVE  RegRead(r) = "cur"
BY DEF DataCurrent, RegRead, FromM, ToBeWritten

(* A value the retiring instruction overtakes is one that will be written.   *)
LEMMA AgedIsToBeWritten ==
  ASSUME NEW in, Writeback(in), NEW r
  PROVE  Aged("cur", r, in) = "cur" \/ (r # 0 /\ writeback' /\ MWREG'.rd = r)
BY DEF Aged, Writeback

(* The interlock and the forwarding unit between them hand execute the       *)
(* operands of program order.                                                *)
LEMMA Forwarding ==
  ASSUME TypeOK, DataCurrent, MWREG.v = "cur", execute, ~LoadInterlock
  PROVE  OperandsCurrent
<1> DEFINE r1 == DEREG.ins.rs1
           r2 == DEREG.ins.rs2
<1>1. /\ FromE(r1) => EMREG.cls \notin Late
      /\ UsesB /\ FromE(r2) => EMREG.cls \notin Late
  BY DEF LoadInterlock, LoadHazard, CsrHazard, Late
<1>2. FromM(r1) \/ FromM(r2) => EMREG.cls = MWREG.cls
  BY DEF DataCurrent, FromM
<1>3. /\ ~FromM(r1) => DEREG.a = "cur"
      /\ ~FromM(r2) => DEREG.b = "cur"
  BY DEF DataCurrent, FromM, ToBeWritten
<1>4. MWREG.cls \notin {"load", "amo"} => MWAluQ = "cur"
  BY DEF MWAluQ
<1>5. Current(ExecuteAluA, r1)
  <2>1. CASE FromE(r1)
    BY <1>1, <2>1 DEF ExecuteAluA, Current
  <2>2. CASE ~FromE(r1) /\ FromM(r1)
    BY <1>2, <1>4, <2>2 DEF ExecuteAluA, Current
  <2>3. CASE ~FromE(r1) /\ ~FromM(r1)
    BY <1>3, <2>3 DEF ExecuteAluA, Current
  <2> QED BY <2>1, <2>2, <2>3
<1>6. ASSUME UsesB PROVE Current(ExecuteAluB, r2)
  <2>1. CASE FromE(r2)
    BY <1>1, <1>6, <2>1 DEF ExecuteAluB, Current
  <2>2. CASE ~FromE(r2) /\ FromM(r2)
    BY <1>4, <1>6, <2>2 DEF ExecuteAluB, Current
  <2>3. CASE ~FromE(r2) /\ ~FromM(r2)
    BY <1>3, <2>3 DEF ExecuteAluB, Current
  <2> QED BY <2>1, <2>2, <2>3
<1> QED BY <1>5, <1>6 DEF OperandsCurrent

LEMMA OperandStep ==
  ASSUME NoMul, TypeOK, Spaced, DataCurrent, MWREG.v = "cur",
         NEW in \in Inputs, NEW ins \in (IF in.hit THEN Instrs ELSE {Nop}), Clock(in, ins),
         execute'
  PROVE  /\ DEREG'.a = "cur" \/ ToBeWritten(DEREG.ins.rs1)'
         /\ DEREG'.b = "cur" \/ ToBeWritten(DEREG.ins.rs2)'
<1>1. \A r : Aged("cur", r, in) = "cur" \/ (r # 0 /\ writeback' /\ MWREG'.rd = r)
  BY AgedIsToBeWritten DEF Clock
<1>2. CASE decode /\ ~StallDecode(in)
  <2>1. IDREG.ins.rs1 \in Regs /\ IDREG.ins.rs2 \in Regs
    BY DEF TypeOK, IdType, Instr
  <2>2. RegRead(IDREG.ins.rs1) = "cur" /\ RegRead(IDREG.ins.rs2) = "cur"
    BY <2>1, ReadsAreCurrent
  <2>3. /\ DEREG'.ins = IDREG.ins
        /\ DEREG'.a = Aged("cur", IDREG.ins.rs1, in)
        /\ DEREG'.b = Aged("cur", IDREG.ins.rs2, in)
    BY <1>2, <2>2, DeregMoves DEF Clock
  <2> QED BY <1>1, <2>3 DEF ToBeWritten
<1>3. CASE ~(decode /\ ~StallDecode(in))
  <2>1. execute /\ ~Issue(in) /\ ~FlushE(in)
    BY <1>3 DEF Clock, Execute
  <2>2. StallExecute(in)
    BY <2>1 DEF Issue
  <2>3. memory
    BY <2>1, <2>2, WaitsForMemory DEF Spaced
  <2>4. DEREG.a = "cur" /\ DEREG.b = "cur"
    BY <2>1, <2>3 DEF Spaced, DataCurrent, ToBeWritten
  <2>5. /\ DEREG'.ins = DEREG.ins
        /\ DEREG'.a = Aged("cur", DEREG.ins.rs1, in)
        /\ DEREG'.b = Aged("cur", DEREG.ins.rs2, in)
    BY <1>3, <2>4, DeregMoves DEF Clock
  <2> QED BY <1>1, <2>5 DEF ToBeWritten
<1> QED BY <1>2, <1>3

LEMMA StoreDataStep ==
  ASSUME TypeOK, Programmed, DataCurrent, MWREG.v = "cur",
         NEW in \in Inputs, NEW ins \in (IF in.hit THEN Instrs ELSE {Nop}), Clock(in, ins),
         memory'
  PROVE  /\ EMREG'.d = "cur" \/ MWREG'.rd = EMREG'.rs2
         /\ EMREG'.rs2 # 0 => EMREG'.rd = 0
<1>1. CASE Issue(in) /\ FlushE(in)
  BY <1>1, EmregMoves DEF Clock, NopEM
<1>2. CASE Issue(in) /\ ~FlushE(in)
  <2>1. execute
    BY <1>2 DEF Issue, CorrectPrediction
  <2>2. StoreRs2 = "cur"
    BY <2>1 DEF StoreRs2, DataCurrent, ToBeWritten
  <2>3. \/ Aged("cur", DEREG.ins.rs2, in) = "cur"
        \/ DEREG.ins.rs2 # 0 /\ MWREG'.rd = DEREG.ins.rs2
    BY AgedIsToBeWritten DEF Clock
  <2>4. DEREG.ins.cls = "store" => DEREG.ins.rd = 0
    BY PipelineAssumption DEF Programmed, Nop
  <2> QED BY <1>2, <2>2, <2>3, <2>4, EmregMoves DEF Clock
<1>3. CASE ~Issue(in)
  <2>1. memory /\ ~Retire(in)
    BY <1>3 DEF Clock, Memory
  <2>2. MWREG' = MWREG /\ Aged(EMREG.d, EMREG.rs2, in) = EMREG.d
    BY <2>1 DEF Clock, Writeback, Aged
  <2> QED BY <1>3, <2>1, <2>2, EmregMoves DEF Clock, DataCurrent
<1> QED BY <1>1, <1>2, <1>3

LEMMA DataStep ==
  ASSUME NoMul, TypeOK, Spaced, Programmed, DataCurrent, MWREG.v = "cur",
         NEW in \in Inputs, NEW ins \in (IF in.hit THEN Instrs ELSE {Nop}), Clock(in, ins)
  PROVE  DataCurrent'
<1>1. ASSUME NEW r \in Regs PROVE RF'[r] = "cur" \/ ToBeWritten(r)'
  <2>1. (IF FromM(r) THEN MWREG.v ELSE RF[r]) = "cur"
    BY DEF DataCurrent, FromM, ToBeWritten
  <2>2. RF'[r] = Aged("cur", r, in)
    BY <2>1 DEF Clock, Writeback
  <2> QED BY <2>2, AgedIsToBeWritten DEF Clock, ToBeWritten
<1>2. execute' => /\ DEREG'.a = "cur" \/ ToBeWritten(DEREG.ins.rs1)'
                  /\ DEREG'.b = "cur" \/ ToBeWritten(DEREG.ins.rs2)'
  BY OperandStep
<1>3. execute' /\ writeback' => EMREG'.cls = MWREG'.cls
  <2> SUFFICES ASSUME execute', writeback' PROVE EMREG'.cls = MWREG'.cls
    OBVIOUS
  <2>1. ~memory'
    BY SpacedStep DEF Spaced
  <2>2. ~Issue(in) /\ Retire(in)
    BY <2>1 DEF Clock, Memory, Writeback
  <2>3. MWREG'.cls = EMREG.cls
    BY <2>2 DEF Clock, Writeback
  <2> QED BY <2>2, <2>3, EmregMoves DEF Clock
<1>4. EMREG'.ready
  <2>1. CASE Issue(in) /\ ~FlushE(in)
    <3>1. execute /\ ~LoadInterlock /\ ~MulExe
      BY <2>1 DEF Issue, CorrectPrediction, StallExecute, MulExe, MulInE, Spaced
    <3> QED BY <2>1, <3>1, Forwarding, EmregMoves DEF Clock
  <2>2. CASE Issue(in) /\ FlushE(in)
    <3>1. EMREG' = NopEM
      BY <2>2, EmregMoves DEF Clock
    <3> QED BY <3>1 DEF NopEM
  <2>3. CASE ~Issue(in)
    <3>1. EMREG'.ready = EMREG.ready
      BY <2>3, EmregMoves DEF Clock
    <3> QED BY <3>1 DEF DataCurrent
  <2> QED BY <2>1, <2>2, <2>3
<1>5. memory' => /\ EMREG'.d = "cur" \/ MWREG'.rd = EMREG'.rs2
                 /\ EMREG'.rs2 # 0 => EMREG'.rd = 0
  BY StoreDataStep
<1>6. lsu'.busy => lsu'.data
  <2> SUFFICES ASSUME lsu'.busy PROVE lsu'.data
    OBVIOUS
  <2>1. in.dmem = "wait"
    BY RepliesOfMemory, LsuMoves DEF Clock
  <2>2. CASE ~lsu.busy /\ Request
    <3>1. EMREG.rs2 # 0 => MemData = "cur"
      BY <2>2 DEF MemData, Request, DataCurrent
    <3> QED BY <2>1, <2>2, <3>1, LsuMoves DEF Clock
  <2>3. CASE ~(~lsu.busy /\ Request)
    BY <2>1, <2>3, LsuMoves DEF Clock, DataCurrent
  <2> QED BY <2>2, <2>3
<1> QED BY <1>1, <1>2, <1>3, <1>4, <1>5, <1>6 DEF DataCurrent

LEMMA DataAlways == NoMul /\ Undisturbed /\ Unmixed => (Spec => []DataCurrent)
<1> SUFFICES ASSUME NoMul, Undisturbed, Unmixed PROVE Spec => []DataCurrent
  OBVIOUS
<1>1. Spaced /\ [Next]_vars => Spaced'
  BY SpacedStep DEF Next, vars, Spaced
<1>2. TypeOK /\ Spaced /\ Programmed /\ Answered /\ DataCurrent /\ [Next]_vars => DataCurrent'
  <2>1. CASE Next
    BY <2>1, DataStep DEF Next, Answered
  <2>2. CASE UNCHANGED vars
    BY <2>2 DEF vars, DataCurrent, ToBeWritten
  <2> QED BY <2>1, <2>2
<1> QED BY <1>1, <1>2, SpacedInit, DataInit, TypeCorrect, ProgrammedAlways, AnsweredAlways, PTL DEF Spec

(* Without multiplications, every instruction is handed to the memory stage  *)
(* with the operands program order gives it: interlock, forwarding unit,     *)
(* register file and the distance between the stages are enough together.    *)
THEOREM OperandsAreReady == NoMul /\ Undisturbed /\ Unmixed => (Spec => []OperandsReady)
<1>1. DataCurrent => OperandsReady
  BY DEF DataCurrent, OperandsReady
<1> QED BY <1>1, DataAlways, PTL

(* Stores, which bypass the forwarding unit, hand the load store unit the    *)
(* value of rs2 in program order.                                            *)
THEOREM StoreDataIsReady == NoMul /\ Undisturbed /\ Unmixed => (Spec => []StoreDataReady)
<1>1. DataCurrent => StoreDataReady
  BY DEF DataCurrent, StoreDataReady
<1> QED BY <1>1, DataAlways, PTL

-----------------------------------------------------------------------------
(* Where the program's path is.  An instruction that turns away from the     *)
(* addresses fetched behind it (a jump, a mispredicted branch, an exception, *)
(* a return) is still in decode or execute as long as the fetch stage or     *)
(* decode holds anything from the wrong path.                                *)
Turns(i) == (i.cls = "branch" /\ i.turn) \/ i.cls \in ExcOps \cup {"jump", "xret"}
TurnsInD == decode /\ Turns(IDREG.ins)
TurnsInE == execute /\ Turns(DEREG.ins)

NoFence      == \A i \in Instrs : i.cls # "fence"
NoFenceI     == \A i \in Instrs : i.cls # "fencei"
NoReturns    == \A i \in Instrs : i.cls # "xret"
NoExceptions == \A i \in Instrs : i.cls \notin ExcOps

(* Only branches are predicted wrongly: no entry of the branch target buffer *)
(* belongs to an instruction that is not a branch.                           *)
NoStalePrediction == \A i \in Instrs : i.turn => i.cls = "branch"

(* No csr access waits for itself: the interlock, which does not ask whether *)
(* execute is active, holds decode up for a clock when a csr in the memory   *)
(* stage is still in DEREG and writes the register it reads.                 *)
NoSelfInterlock == \A i \in Instrs : i.cls = "csr" => i.rd # i.rs1 \/ i.rd = 0

(* A return never meets a trap in the same clock, after which both would     *)
(* redirect the fetch stage: nothing waits in memory and nothing interrupts; *)
(* and the illegal csr is gone before the return behind it is in execute,    *)
(* because nothing holds up what is between them.                            *)
ReturnsApart ==
  \/ NoReturns
  \/ NoWaiting /\ Events \subseteq {"dfault"}
  \/ NoWaiting /\ Events \subseteq {"dfault", "illegal"} /\ NoMul /\ NoSelfInterlock

(* What is left out besides returns that are not apart: fence, which unlike  *)
(* fence.i leaves younger instructions behind; fetch faults on a path the    *)
(* program does not take, or of a fetch that was given up; an illegal access *)
(* whose exception an interrupt takes away; a stale prediction.              *)
OnProgram ==
  /\ Undisturbed
  /\ Unmixed
  /\ NoFence
  /\ NoStalePrediction
  /\ "wildfault" \notin Events /\ "strayfault" \notin Events
  /\ ReturnsApart

(* The roles of what is in the pipeline come from G, those of the program.   *)
Follows(G) ==
  /\ execute => DEREG.role \in G
  /\ decode  => IDREG.role \in G \/ (IDREG.role = "wrong" /\ TurnsInE)
  /\ ifetch  => PC \in G \/ (PC = "wrong" /\ (TurnsInD \/ TurnsInE))
  /\ memory  => EMREG.role \in G
  /\ trap    => epc \in G \cup {"early"}

(* Behind a turning instruction only the wrong path is fetched, and the two  *)
(* procedures that redirect the fetch stage from outside run alone.          *)
Turned ==
  /\ ifetch /\ (TurnsInD \/ TurnsInE) => PC = "wrong"
  /\ trap => ~TurnsInD /\ ~TurnsInE
  /\ xret => ~trap /\ ~decode /\ ~execute /\ NoWaiting

(* Once a fence.i has stopped the fetch stage, nothing is behind it.         *)
FenceAlone == FenceIn /\ ~ifetch /\ ~trap => ~decode /\ ~execute

(* Without waits, two clocks of fetching per instruction leave a stage empty *)
(* in front of every other.                                                  *)
Thin ==
  /\ ~(decode /\ execute) /\ ~(execute /\ memory)
  /\ decode => ~compare
  /\ memory => EMREG.cls = "nop"
               \/ <<EMREG.cls, EMREG.rd>> = <<DEREG.ins.cls, DEREG.ins.rd>>

Apart == NoWaiting /\ NoMul /\ NoSelfInterlock => Thin

Flow == Programmed /\ Answered /\ FetchAlive /\ FenceAlone /\ Turned /\ Apart

(* A turning instruction leaves execute only by redirecting or flushing, and *)
(* until then it holds up decode.                                            *)
LEMMA TurnsLeave ==
  ASSUME TurnsInE, NEW in
  PROVE  /\ StallDecode(in)
         /\ Issue(in) => Redirect(in) \/ FlushD(in)
<1>1. ~StallExecute(in) => Redirect(in) \/ FlushD(in)
  BY DEF TurnsInE, Turns, StallExecute, Redirect, FlushD, FlushE, Xret, Exc, InExecute, ExcOps
<1>2. ~CorrectPrediction
  BY DEF TurnsInE, Turns, ExcOps, CorrectPrediction
<1> QED BY <1>1, <1>2 DEF StallDecode, Issue

(* A fence.i is done only when the fetch stage stands still and decode and   *)
(* execute are empty.                                                        *)
LEMMA FenceDoneAlone ==
  ASSUME NoFence, Programmed, Answered, FenceAlone, NEW in \in Inputs, FenceDone(in)
  PROVE  ~ifetch /\ ~trap /\ ~decode /\ ~execute
<1>1. memory /\ EMREG.cls = "fencei" /\ DmemReady(in)
  BY DEF FenceDone, Retire, Fences, Programmed, NoFence, Nop
<1>2. in.dmem # "ready"
  BY <1>1, RepliesOfMemory DEF Answered, OwnRequest, Request, DataOps
<1>3. in.synced
  BY <1>1, <1>2 DEF DmemReady
<1>4. ~ifetch /\ ~trap
  BY <1>3 DEF Inputs, May
<1> QED BY <1>1, <1>4 DEF FenceAlone, FenceIn

(* What a flush of execute leaves.                                           *)
LEMMA Flushed ==
  ASSUME NEW in, NEW ins, Clock(in, ins), FlushE(in)
  PROVE  ~decode' /\ ~execute'
BY DEF Clock, Decode, Execute, Deliver, StallIfetch, StallDecode, StallExecute, FlushD

(* Where the contents of decode and execute come from.                       *)
LEMMA DecodeMoves ==
  ASSUME TypeOK, NEW in, NEW ins, Clock(in, ins), decode', ~Deliver(in)
  PROVE  /\ decode /\ StallDecode(in) /\ ~FlushD(in) /\ ~Redirect(in) /\ ~FenceIn
         /\ IDREG'.ins = IDREG.ins /\ IDREG'.role = IDREG.role
BY IdregMoves DEF Clock, Decode, Abandon, FlushD

LEMMA ExecuteMoves ==
  ASSUME TypeOK, NEW in, NEW ins, Clock(in, ins), execute'
  PROVE  \/ /\ decode /\ ~StallDecode(in)
            /\ DEREG'.ins = IDREG.ins /\ DEREG'.role = IDREG.role
         \/ /\ execute /\ ~Issue(in) /\ ~FlushE(in) /\ ~FenceIn
            /\ DEREG'.ins = DEREG.ins /\ DEREG'.role = DEREG.role
<1>1. CASE decode /\ ~StallDecode(in)
  BY <1>1, DeregMoves DEF Clock
<1>2. CASE ~(decode /\ ~StallDecode(in))
  BY <1>2, DeregMoves DEF Clock, Execute, Abandon
<1> QED BY <1>1, <1>2

(* An instruction in decode that is not dropped stays or goes on.            *)
LEMMA DecodeStays ==
  ASSUME TypeOK, NEW in, NEW ins, Clock(in, ins), TurnsInD,
         ~FlushD(in), ~Redirect(in), ~FenceIn \/ ~StallDecode(in)
  PROVE  TurnsInD' \/ TurnsInE'
<1>1. CASE StallDecode(in)
  <2>1. ~Deliver(in)
    BY <1>1 DEF Deliver, StallIfetch
  <2> QED BY <1>1, <2>1, IdregMoves DEF Clock, Decode, TurnsInD, Turns
<1>2. CASE ~StallDecode(in)
  BY <1>2, DeregMoves DEF Clock, Execute, TurnsInD, TurnsInE, Turns
<1> QED BY <1>1, <1>2

LEMMA ExecuteStays ==
  ASSUME TypeOK, NEW in, NEW ins, Clock(in, ins), TurnsInE,
         ~FlushD(in), ~Redirect(in), ~FenceIn
  PROVE  TurnsInE'
<1>1. ~Issue(in) /\ StallDecode(in) /\ ~FlushE(in)
  BY TurnsLeave DEF FlushD
<1> QED BY <1>1, DeregMoves DEF Clock, Execute, TurnsInE, Turns

LEMMA FenceAloneStep ==
  ASSUME TypeOK, Undisturbed, Programmed, Answered, FetchAlive, FenceAlone,
         NEW in \in Inputs, NEW ins \in (IF in.hit THEN Instrs ELSE {Nop}), Clock(in, ins)
  PROVE  FenceAlone'
<1> SUFFICES ASSUME memory', EMREG'.cls = "fencei", ~ifetch', ~trap'
             PROVE  ~decode' /\ ~execute'
  BY DEF FenceAlone, FenceIn
<1>1. CASE FenceIn /\ ~Issue(in)
  <2>1. StallDecode(in)
    BY <1>1 DEF FenceIn, Clock, Memory, MemWait, StallExecute, StallDecode
  <2> QED BY <1>1, <2>1 DEF Clock, Decode, Execute, Deliver, StallIfetch
<1>2. CASE FenceIn /\ Issue(in)
  <2>1. Retire(in) /\ execute
    <3>1. ~FlushM(in)
      BY DEF FlushM, Clock, Trap
    <3> QED BY <1>2, <3>1, Waits DEF Answered, MemWait, FenceIn, Issue, CorrectPrediction
  <2>2. in.dmem # "ready"
    BY <1>2, RepliesOfMemory DEF FenceIn, Answered, OwnRequest, Request, DataOps
  <2>3. in.synced
    BY <1>2, <2>1, <2>2 DEF Retire, DmemReady, FenceIn, Fences
  <2>4. ~ifetch /\ ~trap
    BY <2>3 DEF Inputs, May
  <2> QED BY <1>2, <2>1, <2>4 DEF FenceAlone
<1>3. CASE ~FenceIn
  <2>1. Issue(in) /\ ~FlushE(in)
    BY <1>3, EmregMoves DEF FenceIn, Clock, Memory, NopEM
  <2>2. DEREG.ins.cls = "fencei"
    BY <2>1, EmregMoves DEF Clock
  <2>3. ~Redirect(in) /\ ~Xret
    BY <2>2, PipelineAssumption DEF Redirect, Xret, InExecute, Programmed, Nop
  <2>4. Fetches(in, ins) = {}
    BY DEF Clock, Ifetch
  <2>5. ~trap /\ ~xret
    BY <2>4 DEF Fetches
  <2>6. ifetch
    BY <1>3, <2>5 DEF FetchAlive, FenceIn
  <2>7. ~FlushI(in)
    BY <2>3 DEF FlushI, FlushD, FlushE, Clock, Trap
  <2> QED BY <1>3, <2>3, <2>6, <2>7 DEF Clock, Ifetch
<1> QED BY <1>1, <1>2, <1>3

(* Where the fetch stage goes: on, when nothing redirects it; else to the    *)
(* one address it is given.                                                  *)
LEMMA OneCall ==
  ASSUME NEW in, NEW ins, Ifetch(in, ins), NEW b, NEW r, Fetches(in, ins) = {[by |-> b, role |-> r]}
  PROVE  PC' = r
<1> DEFINE c == [by |-> b, role |-> r]
<1>1. PC' \in {d.role : d \in {c}} \cup {"wrong" : p \in {q \in {c} \X {c} : q[1].by # q[2].by}}
  BY DEF Ifetch
<1>2. \A q \in {c} \X {c} : q[1].by = q[2].by
  OBVIOUS
<1>3. c.role = r
  OBVIOUS
<1> HIDE DEF c
<1> QED BY <1>1, <1>2, <1>3

(* No two of the calls that restart the fetch stage come in one clock.       *)
LEMMA FetchTarget ==
  ASSUME OnProgram, Flow,
         NEW in \in Inputs, NEW ins \in (IF in.hit THEN Instrs ELSE {Nop}), Clock(in, ins),
         ifetch'
  PROVE  \/ /\ ~Deliver(in) /\ ~Redirect(in) /\ ~FenceDone(in) /\ ~trap /\ ~xret
            /\ ifetch /\ ~FlushI(in) /\ ~FenceIn
            /\ PC' = PC
         \/ /\ Deliver(in) /\ ifetch /\ ~StallDecode(in)
            /\ PC' = NextRole(PC, ins)
         \/ /\ Redirect(in) /\ ~decode' /\ ~execute'
            /\ PC' = (IF DEREG.role = "wrong" THEN "wrong" ELSE "next")
         \/ /\ FenceDone(in) /\ ~decode' /\ ~execute' /\ ~Deliver(in)
            /\ PC' = (IF decode \/ execute \/ Deliver(in) \/ DEREG.acted THEN "again" ELSE "next")
         \/ /\ trap /\ ~Deliver(in) /\ ~TurnsInD /\ ~TurnsInE
            /\ PC' = (IF epc = "early" THEN "next" ELSE epc)
         \/ /\ xret /\ ~decode' /\ ~execute'
            /\ PC' = "next"
<1>1. FenceDone(in) => ~ifetch /\ ~trap /\ ~decode /\ ~execute /\ ~xret
  <2>1. FenceDone(in) => ~NoWaiting
    BY DEF FenceDone, Retire, Flow, Answered, Calm, Quiet
  <2> QED BY <2>1, FenceDoneAlone DEF OnProgram, Flow, Turned
<1>2. Deliver(in) => ifetch /\ ~StallDecode(in) /\ ~Redirect(in) /\ ~trap /\ ~xret
  BY DEF Deliver, StallIfetch, StallDecode
<1>3. Redirect(in) => TurnsInE
  BY DEF Redirect, TurnsInE, Turns
<1>4. Redirect(in) => ~trap /\ ~xret
  BY <1>3 DEF Flow, Turned, TurnsInE
<1>5. trap => ~xret /\ ~TurnsInD /\ ~TurnsInE
  BY DEF Flow, Turned
<1>6. CASE Deliver(in)
  <2>1. Fetches(in, ins) = {[by |-> "ifetch", role |-> NextRole(PC, ins)]}
    BY <1>1, <1>2, <1>6 DEF Fetches
  <2> QED BY <1>2, <1>6, <2>1, OneCall DEF Clock
<1>7. CASE Redirect(in)
  <2>1. Fetches(in, ins)
          = {[by |-> "execute", role |-> IF DEREG.role = "wrong" THEN "wrong" ELSE "next"]}
    BY <1>1, <1>2, <1>4, <1>7 DEF Fetches, Redirect
  <2>2. PC' = (IF DEREG.role = "wrong" THEN "wrong" ELSE "next")
    BY <2>1, OneCall DEF Clock
  <2>3. ~decode' /\ ~execute'
    BY <1>2, <1>7 DEF Redirect, Clock, Decode, Execute, StallDecode, Issue
  <2> QED BY <1>7, <2>2, <2>3
<1>8. CASE FenceDone(in)
  <2>1. Fetches(in, ins)
          = {[by |-> "memory",
              role |-> IF decode \/ execute \/ Deliver(in) \/ DEREG.acted THEN "again" ELSE "next"]}
    BY <1>1, <1>2, <1>8 DEF Fetches, Redirect
  <2>2. PC' = (IF decode \/ execute \/ Deliver(in) \/ DEREG.acted THEN "again" ELSE "next")
    BY <2>1, OneCall DEF Clock
  <2>3. ~decode' /\ ~execute' /\ ~Deliver(in)
    BY <1>1, <1>2, <1>8 DEF Clock, Decode, Execute
  <2> QED BY <1>8, <2>2, <2>3
<1>9. CASE trap
  <2>1. Fetches(in, ins) = {[by |-> "trap", role |-> IF epc = "early" THEN "next" ELSE epc]}
    BY <1>1, <1>2, <1>4, <1>5, <1>9 DEF Fetches
  <2> QED BY <1>2, <1>5, <1>9, <2>1, OneCall DEF Clock
<1>10. CASE xret
  <2>1. Fetches(in, ins) = {[by |-> "xret", role |-> "next"]}
    BY <1>1, <1>2, <1>4, <1>5, <1>10 DEF Fetches
  <2>2. ~decode' /\ ~execute'
    BY <1>2, <1>10 DEF Flow, Turned, Clock, Decode, Execute
  <2> QED BY <1>10, <2>1, <2>2, OneCall DEF Clock
<1>11. CASE ~Deliver(in) /\ ~Redirect(in) /\ ~FenceDone(in) /\ ~trap /\ ~xret
  <2>1. Fetches(in, ins) = {}
    BY <1>11 DEF Fetches
  <2>2. ifetch /\ ~FlushI(in) /\ ~FenceIn /\ PC' = Abandon(PC, in)
    BY <2>1 DEF Clock, Ifetch
  <2>3. PC' = PC
    BY <2>2 DEF Abandon, FlushI, FlushD
  <2> QED BY <1>11, <2>2, <2>3
<1> QED BY <1>6, <1>7, <1>8, <1>9, <1>10, <1>11

LEMMA FaultOffFetch ==
  ASSUME OnProgram, Flow,
         NEW in \in Inputs, NEW ins \in (IF in.hit THEN Instrs ELSE {Nop}), Clock(in, ins),
         IFault(in)
  PROVE  ifetch /\ PC # "wrong" /\ ~TurnsInD /\ ~TurnsInE /\ ~Deliver(in)
<1>1. in.ifault
  BY DEF IFault
<1>2. ifetch /\ ~compare /\ (IF PC = "wrong" THEN "wildfault" ELSE "ifault") \in Events
  BY <1>1 DEF Inputs, May, OnProgram
<1>3. PC # "wrong"
  BY <1>2 DEF OnProgram
<1>4. ~in.hit
  BY <1>2 DEF Inputs, May
<1> QED BY <1>2, <1>3, <1>4 DEF Flow, Turned, Deliver

LEMMA ReturnAlone ==
  ASSUME OnProgram, Flow,
         NEW in \in Inputs, NEW ins \in (IF in.hit THEN Instrs ELSE {Nop}), Clock(in, ins),
         xret'
  PROVE  ~trap' /\ ~decode' /\ ~execute' /\ NoWaiting
<1>1. Xret
  BY DEF Clock, Trap
<1>2. /\ NoWaiting
      /\ \/ Events \subseteq {"dfault"}
         \/ Events \subseteq {"dfault", "illegal"} /\ NoMul /\ NoSelfInterlock
  BY <1>1 DEF Xret, InExecute, OnProgram, ReturnsApart, NoReturns, Flow, Programmed, Nop
<1>3. Quiet
  BY <1>2 DEF Flow, Answered, Calm
<1>4. in.dmem = "wait"
  BY <1>3, RepliesOfMemory DEF Quiet, Request
<1>5. ~Irq(in) /\ ~in.ifault
  BY <1>2 DEF Inputs, May, Irq
<1>6. ~MFault(in) /\ ~Exc(in) /\ ~IFault(in)
  <2>1. ~in.illegal
    <3>1. CASE "illegal" \notin Events
      BY <3>1 DEF Inputs, May
    <3>2. CASE NoMul /\ NoSelfInterlock
      BY <1>1, <1>2, <3>2 DEF Flow, Apart, Thin, Xret, InExecute, Inputs, May
    <3> QED BY <1>2, <3>1, <3>2
  <2> QED BY <1>1, <1>4, <1>5, <2>1 DEF MFault, Exc, IFault, Xret, InExecute, ExcOps
<1>7. ~MemWait(in)
  BY <1>3, <1>6 DEF MemWait, Retire, FlushM, Quiet
<1>8. ~StallExecute(in) /\ ~FlushE(in)
  BY <1>1, <1>5, <1>6, <1>7 DEF StallExecute, FlushE, MulWait, MulExe, MulInE, Xret, InExecute
<1>9. Issue(in) /\ FlushD(in)
  BY <1>1, <1>8 DEF Issue, Xret, InExecute, FlushD
<1>10. ~decode' /\ ~execute'
  BY <1>9 DEF Clock, Decode, Execute, Deliver, StallIfetch, StallDecode
<1> QED BY <1>2, <1>5, <1>6, <1>10 DEF Clock, Trap

LEMMA ApartStep ==
  ASSUME TypeOK, Programmed, Answered, Apart,
         NEW in \in Inputs, NEW ins \in (IF in.hit THEN Instrs ELSE {Nop}), Clock(in, ins)
  PROVE  Apart'
<1> SUFFICES ASSUME NoWaiting, NoMul, NoSelfInterlock PROVE Thin'
  BY DEF Apart
<1>1. Thin /\ Quiet
  BY DEF Apart, Answered, Calm
<1>2. DEREG.ins.cls # "mul"
  BY DEF Programmed, NoMul, Nop
<1>3. ~LoadInterlock
  <2>1. CASE ~memory
    BY <2>1 DEF LoadInterlock, LoadHazard, CsrHazard, FromE
  <2>2. CASE memory
    <3>1. EMREG.cls \notin {"load", "amo"}
      BY <1>1 DEF Quiet, DataOps
    <3>2. EMREG.cls = "csr" => DEREG.ins.cls = "csr" /\ DEREG.ins.rd = EMREG.rd
      BY <1>1, <2>2 DEF Thin
    <3>3. DEREG.ins.cls = "csr" => DEREG.ins.rd # DEREG.ins.rs1 \/ DEREG.ins.rd = 0
      BY DEF Programmed, NoSelfInterlock, Nop
    <3>4. DEREG.ins.cls = "csr" => ~UsesB
      BY DEF UsesB
    <3> QED BY <3>1, <3>2, <3>3, <3>4 DEF LoadInterlock, LoadHazard, CsrHazard, FromE
  <2> QED BY <2>1, <2>2
<1>4. MemWait(in) => FlushE(in)
  BY <1>1 DEF MemWait, Retire, Quiet, FlushM, FlushE
<1>5. StallExecute(in) <=> FlushE(in)
  BY <1>2, <1>3, <1>4 DEF StallExecute, MulWait, MulExe, MulInE
<1>6. Deliver(in) => compare /\ ~compare' /\ ~decode
  BY <1>1 DEF Thin, Deliver, Inputs, May, Clock, Ifetch
<1>7. decode => ~execute /\ ~Redirect(in) /\ ~Xret
  BY <1>1 DEF Thin, Redirect, Xret, InExecute
<1>8. decode' => Deliver(in)
  BY <1>5, <1>7 DEF Clock, Decode, StallDecode, FlushD
<1>9. execute' => decode /\ ~StallDecode(in)
  BY <1>5 DEF Clock, Execute, Issue
<1>10. memory' => Issue(in) /\ execute
  <2>1. memory' => Issue(in)
    BY <1>1 DEF Clock, Memory, Retire, Quiet
  <2> QED BY <2>1 DEF Issue, CorrectPrediction
<1>11. memory' => EMREG'.cls = "nop"
                  \/ <<EMREG'.cls, EMREG'.rd>> = <<DEREG'.ins.cls, DEREG'.ins.rd>>
  <2> SUFFICES ASSUME memory'
               PROVE  EMREG'.cls = "nop"
                      \/ (EMREG'.cls = DEREG'.ins.cls /\ EMREG'.rd = DEREG'.ins.rd)
    OBVIOUS
  <2>1. DEREG'.ins = DEREG.ins
    BY <1>7, <1>10, DeregMoves DEF Clock
  <2>2. CASE FlushE(in)
    <3>1. EMREG' = NopEM
      BY <1>10, <2>2, EmregMoves DEF Clock
    <3> QED BY <3>1 DEF NopEM
  <2>3. CASE ~FlushE(in)
    BY <1>10, <2>1, <2>3, EmregMoves DEF Clock
  <2> QED BY <2>2, <2>3
<1> QED BY <1>6, <1>7, <1>8, <1>9, <1>10, <1>11 DEF Thin

LEMMA TurnedStep ==
  ASSUME TypeOK, OnProgram, Flow,
         NEW in \in Inputs, NEW ins \in (IF in.hit THEN Instrs ELSE {Nop}), Clock(in, ins)
  PROVE  Turned'
<1>1. TurnsInE => StallDecode(in)
  BY TurnsLeave
<1>2. TurnsInD' => (Deliver(in) /\ Turns(ins)) \/ TurnsInD
  BY DecodeMoves, IdregMoves DEF Clock, TurnsInD, Turns
<1>3. TurnsInE' => (TurnsInD /\ ~StallDecode(in)) \/ TurnsInE
  BY ExecuteMoves DEF TurnsInE, TurnsInD, Turns
<1>4. ASSUME ifetch', TurnsInD' \/ TurnsInE' PROVE PC' = "wrong"
  <2>1. CASE PC' = PC /\ ~Deliver(in) /\ ifetch
    BY <1>2, <1>3, <1>4, <2>1 DEF Flow, Turned
  <2>2. CASE Deliver(in) /\ ifetch /\ ~StallDecode(in) /\ PC' = NextRole(PC, ins)
    BY <1>1, <1>2, <1>3, <1>4, <2>2 DEF Flow, Turned, NextRole, Turns
  <2>3. CASE ~decode' /\ ~execute'
    BY <1>4, <2>3 DEF TurnsInD, TurnsInE
  <2>4. CASE ~Deliver(in) /\ ~TurnsInD /\ ~TurnsInE
    BY <1>2, <1>3, <1>4, <2>4
  <2> QED BY <1>4, <2>1, <2>2, <2>3, <2>4, FetchTarget
<1>5. ASSUME trap' PROVE ~TurnsInD' /\ ~TurnsInE'
  <2>1. CASE FlushE(in)
    BY <2>1, Flushed DEF TurnsInD, TurnsInE
  <2>2. CASE IFault(in)
    BY <1>2, <1>3, <2>2, FaultOffFetch
  <2> QED BY <1>5, <2>1, <2>2 DEF Clock, Trap, FlushE
<1>6. xret' => ~trap' /\ ~decode' /\ ~execute' /\ NoWaiting
  BY ReturnAlone
<1> QED BY <1>4, <1>5, <1>6 DEF Turned

(* G holds the roles a program's instruction may have when it is issued:     *)
(* "next" alone, or "again" too where an interrupt or a fence.i behind an    *)
(* exception makes the program repeat what it has issued.                    *)
NeverTwice == NoFenceI \/ (NoReturns /\ NoExceptions)

RolesOf(G) ==
  /\ "next" \in G /\ "wrong" \notin G
  /\ "again" \in G \/ ("irq" \notin Events /\ NeverTwice)

(* Only an exception or a return that waits in execute is marked as acted.   *)
Unacted == NoReturns /\ NoExceptions => ~DEREG.acted

LEMMA UnactedAlways == Spec => []Unacted
<1>1. Init => Unacted
  BY DEF Init, Unacted
<1>2. TypeOK /\ Programmed /\ Unacted /\ [Next]_vars => Unacted'
  <2>1. ASSUME TypeOK, Programmed, Unacted, NoReturns, NoExceptions,
               NEW in \in Inputs, NEW ins \in (IF in.hit THEN Instrs ELSE {Nop}), Clock(in, ins)
        PROVE  ~DEREG'.acted
    <3>1. ~Xret /\ ~Exc(in)
      BY <2>1 DEF Xret, Exc, InExecute, ExcOps, NoReturns, NoExceptions, Programmed, Nop
    <3>2. CASE decode /\ ~StallDecode(in)
      BY <3>2, <2>1 DEF Clock, Execute
    <3>3. CASE ~(decode /\ ~StallDecode(in))
      <4>1. DEREG' = [DEREG EXCEPT !.role = Abandon(@, in),
                                   !.a = Aged(@, DEREG.ins.rs1, in),
                                   !.b = Aged(@, DEREG.ins.rs2, in),
                                   !.acted = @ \/ ((Xret \/ Exc(in)) /\ ~Issue(in))]
        BY <3>3, <2>1 DEF Clock, Execute
      <4>2. DEREG'.acted = (DEREG.acted \/ ((Xret \/ Exc(in)) /\ ~Issue(in)))
        BY <4>1, <2>1 DEF TypeOK, DeType
      <4> QED BY <2>1, <3>1, <4>2 DEF Unacted
    <3> QED BY <3>2, <3>3
  <2>2. CASE UNCHANGED vars
    BY <2>2 DEF vars, Unacted
  <2> QED BY <2>1, <2>2 DEF Next, Unacted
<1> QED BY <1>1, <1>2, TypeCorrect, ProgrammedAlways, PTL DEF Spec

(* The exceptions of the memory stage are raised while it holds something.   *)
LEMMA FaultsInMemory ==
  ASSUME Answered, NEW in \in Inputs, MFault(in)
  PROVE  memory
<1>1. CASE in.illegal
  BY <1>1 DEF Inputs, May
<1>2. CASE ~in.illegal
  <2>1. Request
    BY <1>2, RepliesOfMemory DEF MFault, Answered, OwnRequest
  <2> QED BY <2>1 DEF Request
<1> QED BY <1>1, <1>2

(* A trap saves the address of an instruction on the program's path.         *)
LEMMA SavedOnPath ==
  ASSUME NEW G, RolesOf(G), Follows(G), TypeOK, OnProgram, Flow,
         NEW in \in Inputs, NEW ins \in (IF in.hit THEN Instrs ELSE {Nop}), Clock(in, ins),
         trap'
  PROVE  epc' \in G \cup {"early"}
<1>1. \A role \in G : Overtaking(role, in) \in G \cup {"early"}
  BY DEF Overtaking
<1>2. CASE Irq(in)
  <2>1. "again" \in G
    BY <1>2 DEF Irq, Inputs, May, RolesOf
  <2>2. (IF execute THEN DEREG.role ELSE "again") \in G
    BY <2>1 DEF Follows
  <2>3. epc' = Overtaking(IF execute THEN DEREG.role ELSE "again", in)
    BY <1>2, NeverMissed DEF OnProgram, Flow, Clock, Trap, MFault, Exc, IFault, FlushE
  <2> QED BY <1>1, <2>2, <2>3
<1>3. CASE MFault(in)
  <2>1. memory
    BY <1>3, FaultsInMemory DEF Flow
  <2>2. epc' = EMREG.role
    BY <1>3 DEF Clock, Trap, MFault, Exc, IFault, FlushE, Missed
  <2> QED BY <2>1, <2>2 DEF Follows
<1>4. CASE Exc(in)
  <2>1. DEREG.role \in G
    BY <1>4 DEF Exc, InExecute, Follows
  <2>2. epc' = Overtaking(DEREG.role, in)
    BY <1>4 DEF Clock, Trap, MFault, Exc, IFault, FlushE, Missed
  <2> QED BY <1>1, <2>1, <2>2
<1>5. CASE IFault(in)
  <2>1. PC \in G
    BY <1>5, FaultOffFetch DEF Follows
  <2>2. epc' = (IF (decode \/ execute) /\ PC = "next" THEN "early" ELSE Overtaking(PC, in))
    BY <1>5 DEF Clock, Trap, MFault, Exc, IFault, FlushE, Missed
  <2> QED BY <1>1, <2>1, <2>2
<1> QED BY <1>2, <1>3, <1>4, <1>5 DEF Clock, Trap

(* The addresses given to the fetch stage are on the program's path.         *)
LEMMA FetchOnPath ==
  ASSUME NEW G, RolesOf(G), Follows(G), TypeOK, OnProgram, Flow, Unacted,
         NEW in \in Inputs, NEW ins \in (IF in.hit THEN Instrs ELSE {Nop}), Clock(in, ins),
         ifetch'
  PROVE  PC' \in G \/ (PC' = "wrong" /\ (TurnsInD' \/ TurnsInE'))
<1>1. CASE /\ ~Deliver(in) /\ ~Redirect(in) /\ ifetch /\ ~FlushI(in) /\ ~FenceIn /\ PC' = PC
  <2>1. ~FlushD(in)
    BY <1>1 DEF FlushI
  <2> QED BY <1>1, <2>1, DecodeStays, ExecuteStays DEF Follows
<1>2. CASE Deliver(in) /\ ifetch /\ ~StallDecode(in) /\ PC' = NextRole(PC, ins)
  <2>1. CASE PC \in G /\ ~Turns(ins)
    <3>1. ins.turn => ins.cls = "branch"
      BY DEF OnProgram, NoStalePrediction, Nop
    <3> QED BY <1>2, <2>1, <3>1 DEF NextRole, Turns, RolesOf
  <2>2. CASE PC \in G /\ Turns(ins)
    <3>1. TurnsInD'
      BY <1>2, <2>2, IdregMoves DEF Clock, Decode, TurnsInD, Turns
    <3> QED BY <1>2, <2>2, <3>1 DEF NextRole, Turns
  <2>3. CASE PC = "wrong" /\ TurnsInD
    <3>1. ~FlushD(in) /\ ~Redirect(in)
      BY <1>2 DEF StallDecode
    <3> QED BY <1>2, <2>3, <3>1, DecodeStays DEF NextRole
  <2>4. ~TurnsInE
    BY <1>2, TurnsLeave
  <2> QED BY <1>2, <2>1, <2>2, <2>3, <2>4 DEF Follows
<1>3. CASE Redirect(in) /\ PC' = (IF DEREG.role = "wrong" THEN "wrong" ELSE "next")
  BY <1>3 DEF Redirect, Follows, RolesOf
<1>4. CASE /\ FenceDone(in) /\ ~Deliver(in)
           /\ PC' = (IF decode \/ execute \/ Deliver(in) \/ DEREG.acted THEN "again" ELSE "next")
  <2>1. CASE "again" \in G
    BY <1>4, <2>1 DEF RolesOf
  <2>2. CASE "again" \notin G
    <3>1. ~decode /\ ~execute
      BY <1>4, FenceDoneAlone DEF OnProgram, Flow
    <3>2. ~NoFenceI
      BY <1>4 DEF FenceDone, Fences, NoFenceI, OnProgram, NoFence, Flow, Programmed, Nop
    <3>3. ~DEREG.acted
      BY <2>2, <3>2 DEF RolesOf, NeverTwice, Unacted
    <3> QED BY <1>4, <3>1, <3>3 DEF RolesOf
  <2> QED BY <2>1, <2>2
<1>5. CASE trap /\ PC' = (IF epc = "early" THEN "next" ELSE epc)
  BY <1>5 DEF Follows, RolesOf
<1>6. CASE PC' = "next"
  BY <1>6 DEF RolesOf
<1> QED BY <1>1, <1>2, <1>3, <1>4, <1>5, <1>6, FetchTarget

LEMMA FollowsStep ==
  ASSUME NEW G, RolesOf(G), Follows(G), TypeOK, OnProgram, Flow, Unacted,
         NEW in \in Inputs, NEW ins \in (IF in.hit THEN Instrs ELSE {Nop}), Clock(in, ins)
  PROVE  Follows(G)'
<1>1. TurnsInE => StallDecode(in)
  BY TurnsLeave
<1>2. execute' => DEREG'.role \in G
  BY <1>1, ExecuteMoves DEF Follows
<1>3. ASSUME decode' PROVE IDREG'.role \in G \/ (IDREG'.role = "wrong" /\ TurnsInE')
  <2>1. CASE Deliver(in)
    <3>1. IDREG'.role = PC /\ ifetch /\ ~StallDecode(in)
      BY <2>1, IdregMoves DEF Clock, Deliver, StallIfetch
    <3>2. CASE PC \in G
      BY <3>1, <3>2
    <3>3. CASE PC = "wrong" /\ TurnsInD
      <4>1. TurnsInE'
        BY <3>1, <3>3, DeregMoves DEF Clock, Execute, TurnsInD, TurnsInE, Turns
      <4> QED BY <3>1, <3>3, <4>1
    <3> QED BY <1>1, <3>1, <3>2, <3>3 DEF Follows
  <2>2. CASE ~Deliver(in)
    <3>1. /\ decode /\ ~FlushD(in) /\ ~Redirect(in) /\ ~FenceIn
          /\ IDREG'.role = IDREG.role
      BY <1>3, <2>2, DecodeMoves
    <3>2. TurnsInE => TurnsInE'
      BY <3>1, ExecuteStays
    <3> QED BY <3>1, <3>2 DEF Follows
  <2> QED BY <2>1, <2>2
<1>4. ifetch' => PC' \in G \/ (PC' = "wrong" /\ (TurnsInD' \/ TurnsInE'))
  BY FetchOnPath
<1>5. ASSUME memory' PROVE EMREG'.role \in G
  <2>1. CASE Issue(in) /\ FlushE(in)
    BY <2>1, EmregMoves DEF Clock, NopEM, RolesOf
  <2>2. CASE Issue(in) /\ ~FlushE(in)
    <3>1. execute
      BY <2>2 DEF Issue, CorrectPrediction
    <3> QED BY <2>2, <3>1, EmregMoves DEF Clock, Follows
  <2>3. CASE ~Issue(in)
    BY <1>5, <2>3, EmregMoves DEF Clock, Memory, Follows
  <2> QED BY <2>1, <2>2, <2>3
<1>6. trap' => epc' \in G \cup {"early"}
  BY SavedOnPath
<1> QED BY <1>2, <1>3, <1>4, <1>5, <1>6 DEF Follows

-----------------------------------------------------------------------------
LEMMA FlowAlways == OnProgram => (Spec => []Flow)
<1> SUFFICES ASSUME OnProgram PROVE Spec => []Flow
  OBVIOUS
<1>1. Undisturbed
  BY DEF OnProgram
<1>2. Init => FenceAlone /\ Turned /\ Apart
  BY DEF Init, FenceAlone, FenceIn, Turned, TurnsInD, TurnsInE, Apart, Thin
<1>3. /\ TypeOK /\ Programmed /\ Answered /\ FetchAlive /\ FenceAlone /\ Turned /\ Apart
      /\ [Next]_vars
      => FenceAlone' /\ Turned' /\ Apart'
  <2>1. CASE Next
    BY <1>1, <2>1, FenceAloneStep, TurnedStep, ApartStep DEF Next, Flow
  <2>2. CASE UNCHANGED vars
    BY <2>2 DEF vars, FenceAlone, FenceIn, Turned, TurnsInD, TurnsInE, Apart, Thin
  <2> QED BY <2>1, <2>2
<1>4. Spec => [](FenceAlone /\ Turned /\ Apart)
  BY <1>1, <1>2, <1>3, TypeCorrect, ProgrammedAlways, AnsweredAlways, FetchAliveAlways, PTL DEF Spec
<1> QED BY <1>1, <1>4, ProgrammedAlways, AnsweredAlways, FetchAliveAlways, PTL DEF Flow

LEMMA FollowsNext ==
  ASSUME NEW G, RolesOf(G), OnProgram, TypeOK, Flow, Unacted, Follows(G), [Next]_vars
  PROVE  Follows(G)'
<1>1. CASE Next
  BY <1>1, FollowsStep DEF Next
<1>2. CASE UNCHANGED vars
  BY <1>2 DEF vars, Follows, TurnsInD, TurnsInE
<1> QED BY <1>1, <1>2

OnPath   == Follows({"next", "again"})
OnlyNext == Follows({"next"})

LEMMA OnPathAlways == OnProgram => (Spec => []OnPath)
<1> SUFFICES ASSUME OnProgram PROVE Spec => []OnPath
  OBVIOUS
<1>1. RolesOf({"next", "again"})
  BY DEF RolesOf
<1>2. Init => OnPath
  BY DEF Init, OnPath, Follows
<1>3. TypeOK /\ Flow /\ Unacted /\ OnPath /\ [Next]_vars => OnPath'
  BY <1>1, FollowsNext DEF OnPath
<1> QED BY <1>2, <1>3, TypeCorrect, FlowAlways, UnactedAlways, PTL DEF Spec

(* Interrupts, faults of data and of fetches on the program's path,          *)
(* exceptions, fence.i and mispredictions together never let an instruction  *)
(* of a path the program does not take reach the memory stage.               *)
THEOREM WrongPathIsDropped == OnProgram => (Spec => []NeverWrongPath)
<1>1. OnPath => NeverWrongPath
  BY DEF OnPath, Follows, NeverWrongPath
<1> QED BY <1>1, OnPathAlways, PTL

(* Nor does a trap ever save an address the program would not have reached.  *)
THEOREM TrapsResumeOnPath == OnProgram => (Spec => []ResumeOnPath)
<1>1. OnPath => ResumeOnPath
  BY DEF OnPath, Follows, ResumeOnPath
<1> QED BY <1>1, OnPathAlways, PTL

(* What repeats an instruction is left out as well: interrupts, which resume *)
(* at an address left in DEREG, and exceptions or returns that act while a   *)
(* fence.i ahead of them is not done.                                        *)
InOrder ==
  /\ OnProgram
  /\ "irq" \notin Events
  /\ NeverTwice

LEMMA OnlyNextAlways == InOrder => (Spec => []OnlyNext)
<1> SUFFICES ASSUME InOrder PROVE Spec => []OnlyNext
  OBVIOUS
<1>1. RolesOf({"next"}) /\ OnProgram
  BY DEF RolesOf, InOrder
<1>2. Init => OnlyNext
  BY DEF Init, OnlyNext, Follows
<1>3. TypeOK /\ Flow /\ Unacted /\ OnlyNext /\ [Next]_vars => OnlyNext'
  BY <1>1, FollowsNext DEF OnlyNext
<1> QED BY <1>1, <1>2, <1>3, TypeCorrect, FlowAlways, UnactedAlways, PTL DEF Spec

(* Instructions reach the memory stage in program order, each of them once.  *)
THEOREM IssuesInOrder == InOrder => (Spec => []IssuedInOrder)
<1>1. OnlyNext => IssuedInOrder
  BY DEF OnlyNext, Follows, IssuedInOrder
<1> QED BY <1>1, OnlyNextAlways, PTL

(* And the traps that are taken ahead of an older instruction still waiting: *)
(* fetch faults, and exceptions behind a load, store or fence.i.             *)
NoneAhead ==
  /\ InOrder
  /\ Events \subseteq {"dfault", "illegal"}
  /\ NoExceptions \/ NoWaiting

LEMMA PreciseStep ==
  ASSUME NoneAhead, TypeOK, Flow, OnlyNext,
         NEW in \in Inputs, NEW ins \in (IF in.hit THEN Instrs ELSE {Nop}), Clock(in, ins),
         trap'
  PROVE  epc' = "next"
<1>1. ~Irq(in) /\ ~IFault(in)
  BY DEF NoneAhead, Irq, IFault, Inputs, May
<1>2. CASE MFault(in)
  <2>1. memory
    BY <1>2, FaultsInMemory DEF Flow
  <2>2. epc' = EMREG.role
    BY <1>2 DEF Clock, Trap, MFault, Exc, IFault, FlushE, Missed
  <2> QED BY <2>1, <2>2 DEF OnlyNext, Follows
<1>3. CASE Exc(in)
  <2>1. NoWaiting
    BY <1>3 DEF NoneAhead, Exc, InExecute, ExcOps, NoExceptions, Flow, Programmed, Nop
  <2>2. ~MemWait(in)
    BY <1>3, <2>1 DEF MemWait, Retire, FlushM, Exc, Flow, Answered, Calm, Quiet
  <2>3. DEREG.role = "next" /\ epc' = Overtaking(DEREG.role, in)
    BY <1>3 DEF Clock, Trap, MFault, Exc, InExecute, IFault, FlushE, Missed, OnlyNext, Follows
  <2> QED BY <2>2, <2>3 DEF Overtaking
<1> QED BY <1>1, <1>2, <1>3 DEF Clock, Trap

(* A trap saves the address of the very instruction the program has reached. *)
THEOREM TrapsArePrecise == NoneAhead => (Spec => []TrapPrecise)
<1> SUFFICES ASSUME NoneAhead PROVE Spec => []TrapPrecise
  OBVIOUS
<1>1. InOrder /\ OnProgram
  BY DEF NoneAhead, InOrder
<1>2. Init => TrapPrecise
  BY DEF Init, TrapPrecise
<1>3. TypeOK /\ Flow /\ OnlyNext /\ TrapPrecise /\ [Next]_vars => TrapPrecise'
  <2>1. CASE Next
    BY <2>1, PreciseStep DEF Next, TrapPrecise
  <2>2. CASE UNCHANGED vars
    BY <2>2 DEF vars, TrapPrecise
  <2> QED BY <2>1, <2>2
<1> QED BY <1>1, <1>2, <1>3, OnlyNextAlways, TypeCorrect, FlowAlways, PTL DEF Spec
=============================================================================
