------------------------------ MODULE TrapUnit ------------------------------
(***************************************************************************)
(* Traps, returns from traps and the status registers: the part of         *)
(* src/core/rv32x_core.nsl that decides which trap is taken, and the       *)
(* procedures trap, trap_mret, trap_sret and trap_uret.  One step is one   *)
(* clock.                                                                  *)
(*                                                                         *)
(* mstatus, sstatus and ustatus are registers of their own, as are mie,    *)
(* sie and uie, and mip, sip and uip; whoever writes one has to write the  *)
(* others.  Of the status the interrupt-enable stack and tsr are modelled; *)
(* mprv, mxr and sum concern the load store unit only, tvm and tw make     *)
(* instructions illegal that are here by that name, and the addresses,     *)
(* causes and values that a trap saves nobody reads here.                  *)
(***************************************************************************)
EXTENDS Naturals

CONSTANTS
  Ints,          \* interrupts in use
  Excs,          \* exceptions in use
  StatusWrites,  \* what software writes to the status registers
  IntWrites,     \* ... to the interrupt enable, pending and delegation registers
  ExcWrites      \* ... to medeleg

USER == 0
SUPERVISOR == 1
HYPERVISOR == 2
MACHINE == 3
Modes == {USER, SUPERVISOR, MACHINE}

\* Level of an interrupt: mei, mti, msi; sei, sti, ssi; uei, uti, usi
MInts == {"mei", "mti", "msi"}
SInts == {"sei", "sti", "ssi"}
UInts == {"uei", "uti", "usi"}

MemoryExcs  == {"illegal_csr", "illegal_fence", "data_fault"}
ExecuteExcs == {"misaligned", "illegal", "target_misaligned", "ebreak", "ecall"}
FetchExcs   == {"page_fault", "access_fault"}
\* medeleg holds a bit for access_fault too, which is not looked at
Delegable   == {"data_fault", "target_misaligned", "ebreak", "ecall_s", "ecall_u", "page_fault"}

Status  == [mie : BOOLEAN, mpie : BOOLEAN, mpp : Modes, sie : BOOLEAN, spie : BOOLEAN,
            spp : BOOLEAN, uie : BOOLEAN, upie : BOOLEAN, tsr : BOOLEAN]
SStatus == [sie : BOOLEAN, spie : BOOLEAN, spp : BOOLEAN, uie : BOOLEAN, upie : BOOLEAN]
UStatus == [uie : BOOLEAN, upie : BOOLEAN]
\* A word written to a status register may also name HYPERVISOR.
StatusWord == [mie : BOOLEAN, mpie : BOOLEAN, mpp : Modes \cup {HYPERVISOR}, sie : BOOLEAN,
               spie : BOOLEAN, spp : BOOLEAN, uie : BOOLEAN, upie : BOOLEAN, tsr : BOOLEAN]

ASSUME TrapUnitAssumption ==
  /\ Ints \subseteq MInts \cup SInts \cup UInts
  /\ Excs \subseteq MemoryExcs \cup ExecuteExcs \cup FetchExcs
  /\ StatusWrites \subseteq StatusWord
  /\ IntWrites \subseteq SUBSET Ints
  /\ ExcWrites \subseteq SUBSET Delegable

VARIABLES
  priv_mode,
  mstatus, sstatus, ustatus,
  mie, sie, uie,       \* enabled interrupts
  mip, sip, uip,       \* interrupts software has made pending
  mideleg, medeleg,
  trap,                \* the procedure trap: active, target mode, what for
  xret,                \* the return procedure that is active
  mframe, sframe       \* what was interrupted by the last trap to M and S

status == <<mstatus, sstatus, ustatus>>
config == <<mie, sie, uie, mip, sip, uip, mideleg, medeleg>>
vars   == <<priv_mode, status, config, trap, xret, mframe, sframe>>

NoFrame == [mode |-> MACHINE, ie |-> FALSE, kept |-> FALSE]
Frames  == [mode : Modes, ie : BOOLEAN, kept : BOOLEAN]
Returns == {"mret", "sret", "uret"}

TypeOK ==
  /\ priv_mode \in Modes
  /\ mstatus \in Status /\ sstatus \in SStatus /\ ustatus \in UStatus
  /\ mie \subseteq Ints /\ sie \subseteq Ints /\ uie \subseteq Ints
  /\ mip \subseteq Ints /\ sip \subseteq Ints /\ uip \subseteq Ints
  /\ mideleg \subseteq Ints \cap SInts /\ medeleg \subseteq Delegable
  /\ trap \in [on : BOOLEAN, to : {SUPERVISOR, MACHINE}, why : {"int", "exc", "fetch"}]
  /\ xret \in Returns \cup {"none"}
  /\ mframe \in Frames /\ sframe \in Frames

NoTrap == [on |-> FALSE, to |-> MACHINE, why |-> "exc"]

\* func reset
Init ==
  /\ priv_mode = MACHINE
  /\ mstatus = [mie |-> FALSE, mpie |-> FALSE, mpp |-> MACHINE, sie |-> FALSE, spie |-> FALSE,
                spp |-> FALSE, uie |-> FALSE, upie |-> FALSE, tsr |-> FALSE]
  /\ sstatus = [sie |-> FALSE, spie |-> FALSE, spp |-> FALSE, uie |-> FALSE, upie |-> FALSE]
  /\ ustatus = [uie |-> FALSE, upie |-> FALSE]
  /\ mie = {} /\ sie = {} /\ uie = {} /\ mip = {} /\ sip = {} /\ uip = {}
  /\ mideleg = {} /\ medeleg = {}
  /\ trap = NoTrap /\ xret = "none"
  /\ mframe = NoFrame /\ sframe = NoFrame

-----------------------------------------------------------------------------
(***************************************************************************)
(* The trap priority encoder.  In a clock the interrupt lines are raised,  *)
(* memory is idle, in a memory operation ("busy"), accesses a CSR, or has  *)
(* an exception; execute holds a return or an exception; the fetch unit    *)
(* reports a fault.                                                        *)
(***************************************************************************)
InMemoryOperation(memory) ==
  memory \in {"busy", "data_fault", "illegal_fence"}

\* Variant: the encoder does not wait for a trap that is being entered.
EnabledDuringTraps(memory) ==
  /\ priv_mode < MACHINE \/ mstatus.mie
  /\ ~InMemoryOperation(memory)

MachineInterruptEnabled(memory) ==
  /\ priv_mode < MACHINE \/ mstatus.mie
  /\ ~trap.on /\ ~InMemoryOperation(memory)

SupervisorInterruptEnabled(memory) ==
  /\ priv_mode < SUPERVISOR \/ (priv_mode = SUPERVISOR /\ mstatus.sie)
  /\ ~trap.on /\ ~InMemoryOperation(memory)

\* meip, mtip and msip follow the lines; seip, stip and ssip also mip
Pending(lines) == mie \cap ((lines \cap MInts) \cup ((lines \cup mip) \cap SInts))

ToMachine(lines, memory) ==
  MachineInterruptEnabled(memory) /\ Pending(lines) \ mideleg # {}
ToSupervisor(lines, memory) ==
  /\ SupervisorInterruptEnabled(memory) /\ ~MachineInterruptEnabled(memory)
  /\ Pending(lines) \cap mideleg # {}

Cause(exc) ==
  IF exc # "ecall" THEN exc
  ELSE CASE priv_mode = USER -> "ecall_u" [] priv_mode = SUPERVISOR -> "ecall_s" [] OTHER -> "ecall_m"

Target(exc) == IF Cause(exc) \in medeleg THEN SUPERVISOR ELSE MACHINE

\* mret and uret only in their own mode; tsr traps sret
Illegal(execute) ==
  \/ execute = "mret" /\ priv_mode # MACHINE
  \/ execute = "sret" /\ priv_mode = SUPERVISOR /\ mstatus.tsr
  \/ execute = "uret" /\ priv_mode # USER

\* A misaligned load or store is found in execute, and yet before a data fault.
Exception(memory, execute, fetch) ==
  IF memory \in MemoryExcs \ {"data_fault"} THEN memory
  ELSE IF execute = "misaligned"             THEN execute
  ELSE IF memory = "data_fault"              THEN memory
  ELSE IF Illegal(execute)                   THEN "illegal"
  ELSE IF execute \in ExecuteExcs            THEN execute
  ELSE fetch

Raise(lines, memory, execute, fetch) ==
  LET exc == Exception(memory, execute, fetch) IN
  IF ToMachine(lines, memory)         THEN [on |-> TRUE, to |-> MACHINE, why |-> "int"]
  ELSE IF ToSupervisor(lines, memory) THEN [on |-> TRUE, to |-> SUPERVISOR, why |-> "int"]
  ELSE IF exc = "none"                THEN NoTrap
  ELSE [on |-> TRUE, to |-> Target(exc), why |-> IF exc \in FetchExcs THEN "fetch" ELSE "exc"]

(***************************************************************************)
(* What the stages can hold.  A trap has flushed decode and execute, but   *)
(* one for a fetch fault only the fetch stage.  A return has flushed what  *)
(* is behind it, but stays in execute, and acts again, while memory waits. *)
(* A page table walk whose fetch has been flushed still raises its fault.  *)
(***************************************************************************)
Executing ==
  { e \in {"none"} \cup Returns \cup (Excs \cap ExecuteExcs) :
      /\ trap.on /\ trap.why # "fetch" => e = "none"
      /\ xret # "none" => e \in {"none", xret} }

Outcomes(memories) ==
  { [trap |-> Raise(lines, memory, e, fetch),
     xret |-> IF e \in Returns /\ ~Illegal(e) THEN e ELSE "none"] :
    lines \in SUBSET (Ints \ UInts), memory \in memories, e \in Executing,
    fetch \in {"none"} \cup (Excs \cap FetchExcs) }

Encode(memories) ==
  \E outcome \in Outcomes(memories) : trap' = outcome.trap /\ xret' = outcome.xret

NoCsr == {"none", "busy"} \cup (Excs \cap MemoryExcs)

-----------------------------------------------------------------------------
(***************************************************************************)
(* What the procedures and a CSR instruction transfer to mode and status:  *)
(* the new values and the fields written.                                  *)
(***************************************************************************)
MFields == {"mie", "mpie", "mpp"}
SFields == {"sie", "spie", "spp"}
UFields == {"uie", "upie"}

\* Variant: the supervisor's view of spp is forgotten.
EnteredSppOnce(to) ==
  IF to = MACHINE
  THEN [mode |-> MACHINE, s |-> sstatus,
        m |-> [mstatus EXCEPT !.mpie = mstatus.mie, !.mie = FALSE, !.mpp = priv_mode]]
  ELSE [mode |-> SUPERVISOR, s |-> [sstatus EXCEPT !.spie = sstatus.sie, !.sie = FALSE],
        m |-> [mstatus EXCEPT !.spp = priv_mode # USER, !.spie = sstatus.sie, !.sie = FALSE]]

\* proc trap; spp takes bit 0 of the mode
Entered(to) ==
  IF to = MACHINE
  THEN [mode |-> MACHINE, s |-> sstatus,
        m |-> [mstatus EXCEPT !.mpie = mstatus.mie, !.mie = FALSE, !.mpp = priv_mode]]
  ELSE [mode |-> SUPERVISOR,
        s |-> [sstatus EXCEPT !.spp = priv_mode # USER, !.spie = sstatus.sie, !.sie = FALSE],
        m |-> [mstatus EXCEPT !.spp = priv_mode # USER, !.spie = sstatus.sie, !.sie = FALSE]]

TrapWrites ==
  IF ~trap.on THEN {} ELSE {"mode"} \cup (IF trap.to = MACHINE THEN MFields ELSE SFields)

Unwritten == [mode |-> priv_mode, m |-> mstatus, s |-> sstatus, u |-> ustatus]

\* Variant: mret does not restore the enable bit of the trap.
ReturnedEnabled(ret) ==
  IF ret = "mret" THEN [Unwritten EXCEPT !.mode = mstatus.mpp, !.m.mie = TRUE] ELSE Unwritten

\* procs trap_mret, trap_sret, trap_uret
Returned(ret) ==
  CASE ret = "mret" ->
         [mode |-> mstatus.mpp, s |-> sstatus, u |-> ustatus,
          m |-> [mstatus EXCEPT !.mie = mstatus.mpie, !.mpie = TRUE, !.mpp = MACHINE]]
    [] ret = "sret" ->
         [mode |-> IF sstatus.spp THEN SUPERVISOR ELSE USER, u |-> ustatus,
          s |-> [sstatus EXCEPT !.sie = sstatus.spie, !.spie = TRUE],
          m |-> [mstatus EXCEPT !.sie = sstatus.spie, !.spie = TRUE]]
    [] OTHER ->
         [mode |-> USER,
          u |-> [ustatus EXCEPT !.uie = ustatus.upie, !.upie = TRUE],
          s |-> [sstatus EXCEPT !.uie = ustatus.upie, !.upie = TRUE],
          m |-> [mstatus EXCEPT !.uie = ustatus.upie, !.upie = TRUE]]

ReturnWrites(ret) ==
  {"mode"} \cup CASE ret = "mret" -> MFields
                  [] ret = "sret" -> SFields \ {"spp"}
                  [] OTHER        -> UFields

\* The clock in which `other` transfers to the fields `written`, and trap, if it is
\* active, to its own.  Where both do, either may win, in a register and its shadow alike.
Transfer(other, written) ==
  \E lost \in SUBSET (TrapWrites \cap written) :
    LET entered   == Entered(trap.to)
        mix(x, y) == [f \in DOMAIN y |-> IF f \in TrapWrites \ lost THEN x[f] ELSE y[f]]
    IN /\ priv_mode' = IF "mode" \in TrapWrites \ lost THEN entered.mode ELSE other.mode
       /\ mstatus' = mix(entered.m, other.m)
       /\ sstatus' = mix(entered.s, other.s)
       /\ ustatus' = other.u

\* A frame lasts from its trap to the first write to its level of the status;
\* spp has no room for MACHINE.
Remember(written) ==
  /\ mframe' = IF written \cap MFields # {} THEN NoFrame
               ELSE IF trap.on /\ trap.to = MACHINE
               THEN [mode |-> priv_mode, ie |-> mstatus.mie, kept |-> TRUE] ELSE mframe
  /\ sframe' = IF written \cap SFields # {} THEN NoFrame
               ELSE IF trap.on /\ trap.to = SUPERVISOR
               THEN IF priv_mode = MACHINE THEN NoFrame
                    ELSE [mode |-> priv_mode, ie |-> sstatus.sie, kept |-> TRUE]
               ELSE sframe

Write(other, written) == Transfer(other, written) /\ Remember(written)

\* No procedure is active.
Idle ==
  /\ ~trap.on /\ xret = "none"
  /\ Encode(NoCsr)
  /\ Write(Unwritten, {})
  /\ UNCHANGED config

Trap ==
  /\ trap.on /\ xret = "none"
  /\ Encode(NoCsr)
  /\ Write(Unwritten, {})
  /\ UNCHANGED config

\* With trap.on: a trap taken in the clock in which the return was in execute.
Return ==
  /\ xret # "none"
  /\ Encode(NoCsr)
  /\ Write(Returned(xret), ReturnWrites(xret))
  /\ UNCHANGED config

-----------------------------------------------------------------------------
(* A CSR instruction in the memory stage, which no return and of the traps    *)
(* only one for a fetch fault has left there.  An access from too low a mode  *)
(* is "illegal_csr".                                                         *)

Csr(mode) ==
  /\ trap.on => trap.why = "fetch"
  /\ xret = "none" /\ priv_mode >= mode
  /\ Encode({"csr"})

\* Variant: any word is good for the mode to return to.
WriteMstatusAnyMode(w) ==
  /\ Csr(MACHINE)
  /\ Write([Unwritten EXCEPT !.m = w,
                             !.s = [sstatus EXCEPT !.sie = w.sie, !.spie = w.spie, !.spp = w.spp],
                             !.u = [uie |-> w.uie, upie |-> w.upie]],
           MFields \cup SFields \cup UFields)
  /\ UNCHANGED config

\* The s fields of a write to mstatus reach sstatus, the u fields do not.
WriteMstatus(w) ==
  /\ Csr(MACHINE)
  /\ Write([Unwritten EXCEPT !.m = [w EXCEPT !.mpp = IF @ = HYPERVISOR THEN mstatus.mpp ELSE @],
                             !.s = [sstatus EXCEPT !.sie = w.sie, !.spie = w.spie, !.spp = w.spp],
                             !.u = [uie |-> w.uie, upie |-> w.upie]],
           MFields \cup SFields \cup UFields)
  /\ UNCHANGED config

\* Variant: sstatus keeps the previous mode.
WriteSstatusNotSpp(w) ==
  /\ Csr(SUPERVISOR)
  /\ Write([Unwritten EXCEPT !.m = [mstatus EXCEPT !.sie = w.sie, !.spie = w.spie, !.spp = w.spp],
                             !.s = [sstatus EXCEPT !.sie = w.sie, !.spie = w.spie]], SFields)
  /\ UNCHANGED config

WriteSstatus(w) ==
  /\ Csr(SUPERVISOR)
  /\ Write([Unwritten EXCEPT !.m = [mstatus EXCEPT !.sie = w.sie, !.spie = w.spie, !.spp = w.spp],
                             !.s = [sstatus EXCEPT !.sie = w.sie, !.spie = w.spie, !.spp = w.spp]],
           SFields)
  /\ UNCHANGED config

WriteUstatus(w) ==
  /\ Csr(USER)
  /\ Write([Unwritten EXCEPT !.m = [mstatus EXCEPT !.uie = w.uie, !.upie = w.upie],
                             !.s = [sstatus EXCEPT !.uie = w.uie, !.upie = w.upie],
                             !.u = [uie |-> w.uie, upie |-> w.upie]], UFields)
  /\ UNCHANGED config

\* The bits of `level` of a register become those of S.
Put(register, level, S) == (register \ level) \cup (S \cap level)

KeepsStatus == Write(Unwritten, {})

WriteMie(S) ==
  /\ Csr(MACHINE) /\ KeepsStatus
  /\ mie' = S
  /\ sie' = Put(sie, SInts \cup UInts, S) /\ uie' = Put(uie, UInts, S)
  /\ UNCHANGED <<mip, sip, uip, mideleg, medeleg>>

\* Writing sie leaves its u bits alone and copies an undriven wire to those of xip.
WriteSie(S, undriven) ==
  /\ Csr(SUPERVISOR) /\ KeepsStatus
  /\ mie' = Put(mie, SInts, S) /\ sie' = Put(sie, SInts, S)
  /\ mip' = Put(mip, UInts, undriven) /\ sip' = Put(sip, UInts, undriven)
  /\ uip' = Put(uip, UInts, undriven)
  /\ UNCHANGED <<uie, mideleg, medeleg>>

WriteUie(S) ==
  /\ Csr(USER) /\ KeepsStatus
  /\ mie' = Put(mie, UInts, S) /\ sie' = Put(sie, UInts, S) /\ uie' = Put(uie, UInts, S)
  /\ UNCHANGED <<mip, sip, uip, mideleg, medeleg>>

WriteMip(S) ==
  /\ Csr(MACHINE) /\ KeepsStatus
  /\ mip' = Put(mip, SInts \cup UInts, S) /\ sip' = Put(sip, SInts \cup UInts, S)
  /\ uip' = Put(uip, UInts, S)
  /\ UNCHANGED <<mie, sie, uie, mideleg, medeleg>>

WriteSip(S) ==
  /\ Csr(SUPERVISOR) /\ KeepsStatus
  /\ mip' = Put(mip, {"ssi", "usi"}, S) /\ sip' = Put(sip, {"ssi", "usi"}, S)
  /\ uip' = Put(uip, {"usi"}, S)
  /\ UNCHANGED <<mie, sie, uie, mideleg, medeleg>>

WriteUip(S) ==
  /\ Csr(USER) /\ KeepsStatus
  /\ mip' = Put(mip, {"usi"}, S) /\ sip' = Put(sip, {"usi"}, S) /\ uip' = Put(uip, {"usi"}, S)
  /\ UNCHANGED <<mie, sie, uie, mideleg, medeleg>>

WriteMideleg(S) ==
  /\ Csr(MACHINE) /\ KeepsStatus
  /\ mideleg' = S \cap SInts
  /\ UNCHANGED <<mie, sie, uie, mip, sip, uip, medeleg>>

WriteMedeleg(E) ==
  /\ Csr(MACHINE) /\ KeepsStatus
  /\ medeleg' = E
  /\ UNCHANGED <<mie, sie, uie, mip, sip, uip, mideleg>>

Next ==
  \/ Idle
  \/ Trap
  \/ Return
  \/ \E w \in StatusWrites : WriteMstatus(w) \/ WriteSstatus(w) \/ WriteUstatus(w)
  \/ \E S \in IntWrites :
       \/ WriteMie(S) \/ WriteUie(S) \/ WriteMip(S) \/ WriteSip(S) \/ WriteUip(S) \/ WriteMideleg(S)
       \/ \E undriven \in SUBSET (Ints \cap UInts) : WriteSie(S, undriven)
  \/ \E E \in ExcWrites : WriteMedeleg(E)

Spec == Init /\ [][Next]_vars

-----------------------------------------------------------------------------
(* Properties.                                                               *)

(* sstatus and ustatus, sie and uie, sip and uip show the fields of mstatus, *)
(* mie and mip they stand for, although each is a register of its own that   *)
(* every trap, return and CSR write has to keep up.  (Not so the u fields of *)
(* sstatus, which a write to mstatus leaves behind.)                         *)
ShadowsAgree ==
  /\ \A f \in {"sie", "spie", "spp"} : sstatus[f] = mstatus[f]
  /\ \A f \in {"uie", "upie"} : ustatus[f] = mstatus[f]
  /\ sie = mie \cap (SInts \cup UInts) /\ uie = mie \cap UInts
  /\ sip = mip /\ uip = mip \cap UInts

(* "until disabling xstatus.mie, interrupts pendings are handled many times. *)
(* So check if currently handling interrupts": a machine-mode handler that   *)
(* has not touched mstatus is not interrupted by the request it handles, nor *)
(* by another, from the clock the trap is taken to the return.               *)
HandledOnce == trap.on /\ trap.why = "int" /\ priv_mode = MACHINE => ~mframe.kept

(* A return puts back the mode and the interrupt enable bit of the trap it   *)
(* returns from, whatever traps to and returns from other modes, and writes  *)
(* to the registers of other modes, came between.                            *)
ReturnUndoesTrap ==
  [][~trap.on =>
       /\ xret = "mret" /\ mframe.kept =>
            priv_mode' = mframe.mode /\ mstatus'.mie = mframe.ie
       /\ xret = "sret" /\ sframe.kept =>
            priv_mode' = sframe.mode /\ sstatus'.sie = sframe.ie]_vars
=============================================================================
