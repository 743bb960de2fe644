--------------------------- MODULE TrapUnit_proofs ---------------------------
(***************************************************************************)
(* Proofs about TrapUnit, for any interrupts and exceptions and any words  *)
(* software writes: its types, the agreement of the status registers with  *)
(* their shadows, and that the frame a trap saves survives until its       *)
(* return.                                                                 *)
(*                                                                         *)
(* Every action is Write(other, written) for some `other`; what it has to  *)
(* fulfil is Proper, and the invariants follow from Proper alone.          *)
(***************************************************************************)
EXTENDS TrapUnit, TLAPS

\* What a trap saved is still there, and the interrupts it turned off are off.
MFrame ==
  mframe.kept => mstatus.mpp = mframe.mode /\ mstatus.mpie = mframe.ie /\ ~mstatus.mie
SFrame ==
  sframe.kept => /\ sframe.mode # MACHINE /\ sstatus.spp = (sframe.mode # USER)
                 /\ sstatus.spie = sframe.ie

\* The status part of ShadowsAgree, for the registers m, s and u
Agree(m, s, u) ==
  /\ \A f \in SFields : s[f] = m[f]
  /\ \A f \in UFields : u[f] = m[f]

IntShadows ==
  /\ sie = mie \cap (SInts \cup UInts) /\ uie = mie \cap UInts
  /\ sip = mip /\ uip = mip \cap UInts

StatusTypes(mode, m, s, u) ==
  mode \in Modes /\ m \in Status /\ s \in SStatus /\ u \in UStatus

\* What a writer of the status has to fulfil: its values are of their types and
\* agree, and what it does not claim to have written it leaves alone.
Proper(other, written) ==
  /\ StatusTypes(other.mode, other.m, other.s, other.u)
  /\ Agree(other.m, other.s, other.u)
  /\ written \cap MFields = {} => /\ \A f \in MFields : other.m[f] = mstatus[f]
                                  /\ other.mode = MACHINE => priv_mode = MACHINE
  /\ written \cap SFields = {} => \A f \in SFields : other.s[f] = sstatus[f]

StatusOK == StatusTypes(priv_mode, mstatus, sstatus, ustatus) /\ Agree(mstatus, sstatus, ustatus)

TrapType == [on : BOOLEAN, to : {SUPERVISOR, MACHINE}, why : {"int", "exc", "fetch"}]

IInv == TypeOK /\ ShadowsAgree /\ MFrame /\ SFrame /\ HandledOnce

-----------------------------------------------------------------------------
(* What the encoder finds in a clock decides trap and return procedure.      *)
LEMMA Encoded ==
  ASSUME NEW memories, Encode(memories)
  PROVE  \E lines, memory, e, fetch :
           /\ trap' = Raise(lines, memory, e, fetch)
           /\ xret' = IF e \in Returns /\ ~Illegal(e) THEN e ELSE "none"
<1>1. PICK outcome \in Outcomes(memories) : trap' = outcome.trap /\ xret' = outcome.xret
  BY DEF Encode
<1>2. PICK lines \in SUBSET (Ints \ UInts), memory \in memories, e \in Executing,
           fetch \in {"none"} \cup (Excs \cap FetchExcs) :
        outcome = [trap |-> Raise(lines, memory, e, fetch),
                   xret |-> IF e \in Returns /\ ~Illegal(e) THEN e ELSE "none"]
  BY DEF Outcomes
<1> QED
  BY <1>1, <1>2

(* The encoder raises traps of their type.                                   *)
LEMMA EncodeTyped ==
  ASSUME NEW memories, Encode(memories)
  PROVE  trap' \in TrapType /\ xret' \in Returns \cup {"none"}
<1>1. \A exc : Target(exc) \in {SUPERVISOR, MACHINE}
  BY DEF Target
<1>2. \A lines, memory, e, fetch : Raise(lines, memory, e, fetch) \in TrapType
  BY <1>1 DEF Raise, TrapType, NoTrap
<1> QED
  BY <1>2, Encoded

(* No interrupt is raised while a trap is entered, nor in machine mode with  *)
(* its interrupts disabled.                                                  *)
LEMMA NoInterrupt ==
  ASSUME NEW memories, Encode(memories),
         trap.on \/ (priv_mode = MACHINE /\ ~mstatus.mie)
  PROVE  trap'.why # "int"
<1>1. \A lines, memory : ~ToMachine(lines, memory) /\ ~ToSupervisor(lines, memory)
  BY DEF ToMachine, ToSupervisor, MachineInterruptEnabled, SupervisorInterruptEnabled,
         MACHINE, SUPERVISOR
<1>2. \A lines, memory, e, fetch : Raise(lines, memory, e, fetch).why # "int"
  BY <1>1 DEF Raise, NoTrap
<1> QED
  BY <1>2, Encoded

-----------------------------------------------------------------------------
(* What proc trap transfers is of its type, and its shadows agree.           *)
LEMMA EnteredOK ==
  ASSUME StatusOK, NEW to \in {SUPERVISOR, MACHINE}
  PROVE  /\ Entered(to).mode \in Modes
         /\ Entered(to).m \in Status /\ Entered(to).s \in SStatus
         /\ Agree(Entered(to).m, Entered(to).s, ustatus)
<1> USE DEF StatusOK, StatusTypes, Modes, USER, SUPERVISOR, MACHINE, Status, SStatus, UStatus
<1>1. CASE to = MACHINE
  BY <1>1 DEF Entered, Agree, SFields, UFields
<1>2. CASE to = SUPERVISOR
  BY <1>2 DEF Entered, Agree, SFields, UFields
<1> QED
  BY <1>1, <1>2

\* Fields in T from x, the others from y: what Transfer does with each register
Mix(x, y, T) == [f \in DOMAIN y |-> IF f \in T THEN x[f] ELSE y[f]]

LEMMA MixStatus ==
  ASSUME NEW x \in Status, NEW y \in Status, NEW T
  PROVE  Mix(x, y, T) \in Status /\ \A f \in DOMAIN y : Mix(x, y, T)[f] = IF f \in T THEN x[f] ELSE y[f]
BY DEF Mix, Status

LEMMA MixSStatus ==
  ASSUME NEW x \in SStatus, NEW y \in SStatus, NEW T
  PROVE  Mix(x, y, T) \in SStatus
BY DEF Mix, SStatus

(* The status after a clock is of its type and the shadows agree, whoever    *)
(* wins where trap and another writer meet.                                  *)
LEMMA TransferOK ==
  ASSUME StatusOK, trap \in TrapType, NEW other, NEW written,
         Proper(other, written), Transfer(other, written)
  PROVE  StatusOK'
<1> DEFINE entered == Entered(trap.to)
<1>1. PICK lost \in SUBSET (TrapWrites \cap written) :
        /\ priv_mode' = IF "mode" \in TrapWrites \ lost THEN entered.mode ELSE other.mode
        /\ mstatus' = Mix(entered.m, other.m, TrapWrites \ lost)
        /\ sstatus' = Mix(entered.s, other.s, TrapWrites \ lost)
        /\ ustatus' = other.u
  BY DEF Transfer, Mix
<1>2. /\ entered.mode \in Modes /\ entered.m \in Status /\ entered.s \in SStatus
      /\ Agree(entered.m, entered.s, ustatus)
  BY EnteredOK DEF TrapType
<1>3. StatusTypes(other.mode, other.m, other.s, other.u) /\ Agree(other.m, other.s, other.u)
  BY DEF Proper
<1>4. StatusTypes(priv_mode', mstatus', sstatus', ustatus')
  BY <1>1, <1>2, <1>3, MixStatus, MixSStatus DEF StatusTypes
<1>5. TrapWrites \cap UFields = {}
  BY DEF TrapWrites, MFields, SFields, UFields
<1>6. Agree(mstatus', sstatus', ustatus')
  BY <1>1, <1>2, <1>3, <1>5 DEF Agree, Mix, SFields, UFields, StatusTypes, Status, SStatus
<1> QED
  BY <1>4, <1>6 DEF StatusOK, StatusTypes, Agree

-----------------------------------------------------------------------------
(* A clock keeps what the frames promise.                                    *)
LEMMA FramesOK ==
  ASSUME StatusOK, trap \in TrapType, MFrame, SFrame, mframe \in Frames, sframe \in Frames,
         NEW other, NEW written, Proper(other, written), Write(other, written)
  PROVE  mframe' \in Frames /\ sframe' \in Frames /\ MFrame' /\ SFrame'
<1> DEFINE entered == Entered(trap.to)
<1>1. PICK lost \in SUBSET (TrapWrites \cap written) :
        /\ mstatus' = Mix(entered.m, other.m, TrapWrites \ lost)
        /\ sstatus' = Mix(entered.s, other.s, TrapWrites \ lost)
  BY DEF Write, Transfer, Mix
<1>2. DOMAIN other.m = MFields \cup SFields \cup UFields \cup {"tsr"} /\ DOMAIN other.s = SFields \cup UFields
  BY DEF Proper, StatusTypes, Status, SStatus, MFields, SFields, UFields
<1>3. mframe' \in Frames /\ sframe' \in Frames
  BY DEF Write, Remember, Frames, NoFrame, StatusOK, StatusTypes, Status, SStatus, Modes
<1>4. MFrame'
  <2>1. CASE written \cap MFields # {}
    BY <2>1 DEF Write, Remember, MFrame, NoFrame
  <2>2. CASE written \cap MFields = {} /\ trap.on /\ trap.to = MACHINE
    <3>1. \A f \in MFields : mstatus'[f] = entered.m[f]
      BY <1>1, <1>2, <2>2 DEF Mix, TrapWrites
    <3>2. mframe' = [mode |-> priv_mode, ie |-> mstatus.mie, kept |-> TRUE]
      BY <2>2 DEF Write, Remember
    <3> QED
      BY <3>1, <3>2, <2>2 DEF MFrame, MFields, Entered, StatusOK, StatusTypes, Status
  <2>3. CASE written \cap MFields = {} /\ ~(trap.on /\ trap.to = MACHINE)
    <3>1. \A f \in MFields : mstatus'[f] = mstatus[f]
      <4>1. TrapWrites \cap MFields = {}
        BY <2>3 DEF TrapWrites, MFields, SFields
      <4> QED
        BY <1>1, <1>2, <2>3, <4>1 DEF Mix, Proper
    <3>2. mframe' = mframe
      BY <2>3 DEF Write, Remember
    <3> QED
      BY <3>1, <3>2 DEF MFrame, MFields
  <2> QED
    BY <2>1, <2>2, <2>3
<1>5. SFrame'
  <2>1. CASE written \cap SFields # {} \/ (trap.on /\ trap.to = SUPERVISOR /\ priv_mode = MACHINE)
    BY <2>1 DEF Write, Remember, SFrame, NoFrame
  <2>2. CASE written \cap SFields = {} /\ trap.on /\ trap.to = SUPERVISOR /\ priv_mode # MACHINE
    <3>1. \A f \in SFields : sstatus'[f] = entered.s[f]
      <4>1. SFields \subseteq TrapWrites \ lost
        BY <2>2 DEF TrapWrites, SUPERVISOR, MACHINE
      <4> QED
        BY <1>1, <1>2, <4>1 DEF Mix
    <3>2. sframe' = [mode |-> priv_mode, ie |-> sstatus.sie, kept |-> TRUE]
      BY <2>2 DEF Write, Remember
    <3>3. entered.s.spp = (priv_mode # USER) /\ entered.s.spie = sstatus.sie
      <4>1. sstatus \in SStatus
        BY DEF StatusOK, StatusTypes
      <4>2. entered.s = [sstatus EXCEPT !.spp = priv_mode # USER, !.spie = sstatus.sie,
                                        !.sie = FALSE]
        BY <2>2 DEF Entered, SUPERVISOR, MACHINE
      <4> HIDE DEF entered
      <4> QED
        BY <4>1, <4>2 DEF SStatus
    <3>4. sstatus'.spp = entered.s.spp /\ sstatus'.spie = entered.s.spie
      BY <3>1 DEF SFields
    <3>5. sframe'.mode = priv_mode /\ sframe'.ie = sstatus.sie
      BY <3>2
    <3> QED
      BY <3>3, <3>4, <3>5, <2>2 DEF SFrame
  <2>3. CASE written \cap SFields = {} /\ ~(trap.on /\ trap.to = SUPERVISOR)
    <3>1. \A f \in SFields : sstatus'[f] = sstatus[f]
      <4>1. TrapWrites \cap SFields = {}
        BY <2>3 DEF TrapWrites, MFields, SFields, TrapType
      <4> QED
        BY <1>1, <1>2, <2>3, <4>1 DEF Mix, Proper
    <3>2. sframe' = sframe
      BY <2>3 DEF Write, Remember
    <3> QED
      BY <3>1, <3>2 DEF SFrame, SFields
  <2> QED
    BY <2>1, <2>2, <2>3
<1> QED
  BY <1>3, <1>4, <1>5

(* A clock in which the handler of machine mode has not touched mstatus      *)
(* raises no interrupt.                                                      *)
LEMMA OnceOK ==
  ASSUME MFrame, NEW memories, Encode(memories),
         NEW other, NEW written, Proper(other, written), Write(other, written)
  PROVE  HandledOnce'
<1> SUFFICES ASSUME trap'.why = "int", priv_mode' = MACHINE, mframe'.kept
             PROVE  FALSE
  BY DEF HandledOnce
<1>1. ~trap.on
  BY NoInterrupt
<1>2. written \cap MFields = {} /\ mframe' = mframe
  BY <1>1 DEF Write, Remember, NoFrame
<1>3. priv_mode = MACHINE
  BY <1>1, <1>2 DEF Write, Transfer, TrapWrites, Proper
<1>4. ~mstatus.mie
  BY <1>2 DEF MFrame
<1> QED
  BY <1>3, <1>4, NoInterrupt

-----------------------------------------------------------------------------
(* Every writer of the status is proper.                                     *)
LEMMA UnwrittenProper ==
  ASSUME StatusOK
  PROVE  Proper(Unwritten, {})
BY DEF Unwritten, Proper, StatusOK

LEMMA ReturnedProper ==
  ASSUME StatusOK, xret \in Returns
  PROVE  Proper(Returned(xret), ReturnWrites(xret))
<1> USE DEF StatusOK, StatusTypes, Agree, Returned, ReturnWrites, MFields, SFields,
            UFields, Status, SStatus, UStatus, Modes, USER, SUPERVISOR, MACHINE
<1>1. CASE xret = "mret"
  BY <1>1 DEF Proper
<1>2. CASE xret = "sret"
  <2>1. StatusTypes(Returned(xret).mode, Returned(xret).m, Returned(xret).s, Returned(xret).u)
    BY <1>2
  <2>2. Agree(Returned(xret).m, Returned(xret).s, Returned(xret).u)
    BY <1>2
  <2>3. Returned(xret).mode # MACHINE /\ \A f \in MFields : Returned(xret).m[f] = mstatus[f]
    <3>1. Returned(xret).mode # MACHINE
      BY <1>2
    <3>2. /\ Returned(xret).m.mie = mstatus.mie /\ Returned(xret).m.mpie = mstatus.mpie
          /\ Returned(xret).m.mpp = mstatus.mpp
      BY <1>2
    <3> QED
      BY <3>1, <3>2
  <2>4. ReturnWrites(xret) \cap SFields # {} \/ \A f \in SFields : Returned(xret).s[f] = sstatus[f]
    BY <1>2
  <2> QED
    BY <2>1, <2>2, <2>3, <2>4 DEF Proper
<1>3. CASE xret = "uret"
  <2>1. StatusTypes(Returned(xret).mode, Returned(xret).m, Returned(xret).s, Returned(xret).u)
    BY <1>3
  <2>2. Agree(Returned(xret).m, Returned(xret).s, Returned(xret).u)
    BY <1>3
  <2>3. Returned(xret).mode # MACHINE /\ \A f \in MFields : Returned(xret).m[f] = mstatus[f]
    <3>1. Returned(xret).mode # MACHINE
      BY <1>3
    <3>2. /\ Returned(xret).m.mie = mstatus.mie /\ Returned(xret).m.mpie = mstatus.mpie
          /\ Returned(xret).m.mpp = mstatus.mpp
      BY <1>3
    <3> QED
      BY <3>1, <3>2
  <2>4. ReturnWrites(xret) \cap SFields # {} \/ \A f \in SFields : Returned(xret).s[f] = sstatus[f]
    BY <1>3
  <2> QED
    BY <2>1, <2>2, <2>3, <2>4 DEF Proper
<1> QED
  BY <1>1, <1>2, <1>3 DEF Returns

(* In every clock that is not a stutter the encoder runs and the status is   *)
(* written by a proper writer.                                               *)
LEMMA Clocked ==
  ASSUME StatusOK, xret \in Returns \cup {"none"}, Next
  PROVE  \E memories, other, written :
           Encode(memories) /\ Proper(other, written) /\ Write(other, written)
<1>1. CASE Idle
  BY <1>1, UnwrittenProper DEF Idle
<1>2. CASE Trap
  BY <1>2, UnwrittenProper DEF Trap
<1>3. CASE Return
  BY <1>3, ReturnedProper DEF Return
<1>4. ASSUME NEW w \in StatusWrites, WriteMstatus(w)
      PROVE  \E memories, other, written :
               Encode(memories) /\ Proper(other, written) /\ Write(other, written)
  <2> DEFINE other == [Unwritten EXCEPT
                         !.m = [w EXCEPT !.mpp = IF @ = HYPERVISOR THEN mstatus.mpp ELSE @],
                         !.s = [sstatus EXCEPT !.sie = w.sie, !.spie = w.spie, !.spp = w.spp],
                         !.u = [uie |-> w.uie, upie |-> w.upie]]
             written == MFields \cup SFields \cup UFields
  <2>1. w \in StatusWord
    BY TrapUnitAssumption
  <2>2. Proper(other, written)
    <3> USE <2>1 DEF StatusOK, StatusTypes, Status, SStatus, UStatus, StatusWord, Unwritten
    <3>1. other.m \in Status
      BY DEF Modes, USER, SUPERVISOR, HYPERVISOR, MACHINE
    <3>2. other.mode \in Modes /\ other.s \in SStatus /\ other.u \in UStatus
      OBVIOUS
    <3>3. Agree(other.m, other.s, other.u)
      <4>1. /\ other.s.sie = w.sie /\ other.s.spie = w.spie /\ other.s.spp = w.spp
            /\ other.u.uie = w.uie /\ other.u.upie = w.upie
        OBVIOUS
      <4>2. /\ other.m.sie = w.sie /\ other.m.spie = w.spie /\ other.m.spp = w.spp
            /\ other.m.uie = w.uie /\ other.m.upie = w.upie
        OBVIOUS
      <4> QED
        BY <4>1, <4>2 DEF Agree, SFields, UFields
    <3> QED
      BY <3>1, <3>2, <3>3 DEF Proper, MFields, SFields
  <2>3. Encode({"csr"}) /\ Write(other, written)
    BY <1>4 DEF WriteMstatus, Csr
  <2> QED
    BY <2>2, <2>3
<1>5. ASSUME NEW w \in StatusWrites, WriteSstatus(w)
      PROVE  \E memories, other, written :
               Encode(memories) /\ Proper(other, written) /\ Write(other, written)
  <2> DEFINE other == [Unwritten EXCEPT
                         !.m = [mstatus EXCEPT !.sie = w.sie, !.spie = w.spie, !.spp = w.spp],
                         !.s = [sstatus EXCEPT !.sie = w.sie, !.spie = w.spie, !.spp = w.spp]]
  <2>1. w \in StatusWord
    BY TrapUnitAssumption
  <2>2. Proper(other, SFields)
    BY <1>5, <2>1 DEF Proper, StatusOK, StatusTypes, Agree, Unwritten, Csr, MFields, SFields,
       UFields, Status, SStatus, UStatus, StatusWord
  <2>3. Encode({"csr"}) /\ Write(other, SFields)
    BY <1>5 DEF WriteSstatus, Csr
  <2> QED
    BY <2>2, <2>3
<1>6. ASSUME NEW w \in StatusWrites, WriteUstatus(w)
      PROVE  \E memories, other, written :
               Encode(memories) /\ Proper(other, written) /\ Write(other, written)
  <2> DEFINE other == [Unwritten EXCEPT
                         !.m = [mstatus EXCEPT !.uie = w.uie, !.upie = w.upie],
                         !.s = [sstatus EXCEPT !.uie = w.uie, !.upie = w.upie],
                         !.u = [uie |-> w.uie, upie |-> w.upie]]
  <2>1. w \in StatusWord
    BY TrapUnitAssumption
  <2>2. Proper(other, UFields)
    <3> USE <2>1 DEF StatusOK, StatusTypes, Status, SStatus, UStatus, StatusWord, Unwritten
    <3>1. StatusTypes(other.mode, other.m, other.s, other.u)
      OBVIOUS
    <3>2. Agree(other.m, other.s, other.u)
      <4>1. /\ other.m.uie = w.uie /\ other.m.upie = w.upie
            /\ other.u.uie = w.uie /\ other.u.upie = w.upie
        OBVIOUS
      <4>2. /\ other.s.sie = sstatus.sie /\ other.s.spie = sstatus.spie /\ other.s.spp = sstatus.spp
        OBVIOUS
      <4>3. /\ other.m.sie = mstatus.sie /\ other.m.spie = mstatus.spie /\ other.m.spp = mstatus.spp
        OBVIOUS
      <4> QED
        BY <4>1, <4>2, <4>3 DEF Agree, SFields, UFields
    <3>3. /\ \A f \in MFields : other.m[f] = mstatus[f]
          /\ \A f \in SFields : other.s[f] = sstatus[f]
      BY DEF MFields, SFields
    <3> QED
      BY <3>1, <3>2, <3>3 DEF Proper
  <2>3. Encode({"csr"}) /\ Write(other, UFields)
    BY <1>6 DEF WriteUstatus, Csr
  <2> QED
    BY <2>2, <2>3
<1>7. ASSUME Csr(MACHINE) \/ Csr(SUPERVISOR) \/ Csr(USER), KeepsStatus
      PROVE  \E memories, other, written :
               Encode(memories) /\ Proper(other, written) /\ Write(other, written)
  BY <1>7, UnwrittenProper DEF Csr, KeepsStatus
<1> QED
  BY <1>1, <1>2, <1>3, <1>4, <1>5, <1>6, <1>7
     DEF Next, WriteMie, WriteSie, WriteUie, WriteMip, WriteSip, WriteUip, WriteMideleg,
         WriteMedeleg

-----------------------------------------------------------------------------
(* The interrupt and delegation registers.                                   *)
IntTypes ==
  /\ mie \subseteq Ints /\ sie \subseteq Ints /\ uie \subseteq Ints
  /\ mip \subseteq Ints /\ sip \subseteq Ints /\ uip \subseteq Ints
  /\ mideleg \subseteq Ints \cap SInts /\ medeleg \subseteq Delegable

LEMMA IntsOK ==
  ASSUME IntTypes, IntShadows, Next
  PROVE  IntTypes' /\ IntShadows'
<1> DEFINE Goal == IntTypes' /\ IntShadows'
<1>1. SInts \cap UInts = {} /\ "ssi" \notin UInts /\ "usi" \in UInts
  BY DEF SInts, UInts
<1>2. CASE UNCHANGED config
  BY <1>2 DEF config, IntTypes, IntShadows
<1>3. ASSUME NEW S \in IntWrites, WriteMie(S)    PROVE Goal
  BY <1>3, TrapUnitAssumption DEF WriteMie, Put, IntTypes, IntShadows
<1>4. ASSUME NEW S \in IntWrites, NEW undriven \in SUBSET (Ints \cap UInts), WriteSie(S, undriven)
      PROVE Goal
  BY <1>1, <1>4, TrapUnitAssumption DEF WriteSie, Put, IntTypes, IntShadows
<1>5. ASSUME NEW S \in IntWrites, WriteUie(S)    PROVE Goal
  BY <1>1, <1>5, TrapUnitAssumption DEF WriteUie, Put, IntTypes, IntShadows
<1>6. ASSUME NEW S \in IntWrites, WriteMip(S)    PROVE Goal
  BY <1>1, <1>6, TrapUnitAssumption DEF WriteMip, Put, IntTypes, IntShadows
<1>7. ASSUME NEW S \in IntWrites, WriteSip(S)    PROVE Goal
  BY <1>1, <1>7, TrapUnitAssumption DEF WriteSip, Put, IntTypes, IntShadows
<1>8. ASSUME NEW S \in IntWrites, WriteUip(S)    PROVE Goal
  BY <1>1, <1>8, TrapUnitAssumption DEF WriteUip, Put, IntTypes, IntShadows
<1>9. ASSUME NEW S \in IntWrites, WriteMideleg(S) PROVE Goal
  BY <1>9, TrapUnitAssumption DEF WriteMideleg, IntTypes, IntShadows
<1>10. ASSUME NEW E \in ExcWrites, WriteMedeleg(E) PROVE Goal
  BY <1>10, TrapUnitAssumption DEF WriteMedeleg, IntTypes, IntShadows
<1> QED
  BY <1>2, <1>3, <1>4, <1>5, <1>6, <1>7, <1>8, <1>9, <1>10
     DEF Next, Idle, Trap, Return, WriteMstatus, WriteSstatus, WriteUstatus

-----------------------------------------------------------------------------
(* The invariant, in terms of the parts the lemmas are about.                *)
LEMMA Parts ==
  TypeOK /\ ShadowsAgree
    <=> /\ StatusOK /\ IntTypes /\ IntShadows
        /\ trap \in TrapType /\ xret \in Returns \cup {"none"}
        /\ mframe \in Frames /\ sframe \in Frames
BY DEF TypeOK, ShadowsAgree, StatusOK, StatusTypes, Agree, IntTypes, IntShadows, TrapType,
       SFields, UFields

LEMMA InitInv == Init => IInv
<1> SUFFICES ASSUME Init PROVE IInv
  OBVIOUS
<1>1. StatusOK
  BY DEF Init, StatusOK, StatusTypes, Agree, Status, SStatus, UStatus, Modes, USER, SUPERVISOR,
         MACHINE, SFields, UFields
<1>2. IntTypes /\ IntShadows
  BY DEF Init, IntTypes, IntShadows
<1>3. trap \in TrapType /\ xret \in Returns \cup {"none"}
  BY DEF Init, NoTrap, TrapType
<1>4. mframe \in Frames /\ sframe \in Frames /\ MFrame /\ SFrame /\ HandledOnce
  BY DEF Init, NoFrame, Frames, Modes, MFrame, SFrame, HandledOnce
<1> QED
  BY <1>1, <1>2, <1>3, <1>4, Parts DEF IInv

LEMMA NextInv == IInv /\ [Next]_vars => IInv'
<1> SUFFICES ASSUME IInv, [Next]_vars PROVE IInv'
  OBVIOUS
<1>1. CASE UNCHANGED vars
  BY <1>1 DEF vars, status, config, IInv, TypeOK, ShadowsAgree, MFrame, SFrame, HandledOnce
<1>2. CASE Next
  <2>1. /\ StatusOK /\ IntTypes /\ IntShadows
        /\ trap \in TrapType /\ xret \in Returns \cup {"none"}
        /\ mframe \in Frames /\ sframe \in Frames /\ MFrame /\ SFrame
    BY Parts DEF IInv
  <2>2. PICK memories, other, written :
          Encode(memories) /\ Proper(other, written) /\ Write(other, written)
    BY <1>2, <2>1, Clocked
  <2>3. StatusOK'
    BY <2>1, <2>2, TransferOK DEF Write
  <2>4. mframe' \in Frames /\ sframe' \in Frames /\ MFrame' /\ SFrame'
    BY <2>1, <2>2, FramesOK
  <2>5. trap' \in TrapType /\ xret' \in Returns \cup {"none"}
    BY <2>2, EncodeTyped
  <2>6. HandledOnce'
    BY <2>1, <2>2, OnceOK
  <2>7. IntTypes' /\ IntShadows'
    BY <1>2, <2>1, IntsOK
  <2>8. (TypeOK /\ ShadowsAgree)'
    BY <2>3, <2>4, <2>5, <2>7
       DEF TypeOK, ShadowsAgree, StatusOK, StatusTypes, Agree, IntTypes, IntShadows, TrapType,
           SFields, UFields
  <2> QED
    BY <2>4, <2>6, <2>8 DEF IInv
<1> QED
  BY <1>1, <1>2

LEMMA Invariant == Spec => []IInv
BY InitInv, NextInv, PTL DEF Spec

(* Every register stays in its type: whatever traps, returns and CSR writes  *)
(* meet in a clock, the modes to return to are modes there are, and only     *)
(* supervisor interrupts are delegated.                                      *)
THEOREM TypeCorrect == Spec => []TypeOK
<1>1. IInv => TypeOK
  BY DEF IInv
<1> QED
  BY <1>1, Invariant, PTL

(* The supervisor's and the user's views of status, enabled and pending      *)
(* interrupts are those of the machine's registers, for any interrupts and   *)
(* exceptions and any words software writes.                                 *)
THEOREM ShadowsCorrect == Spec => []ShadowsAgree
<1>1. IInv => ShadowsAgree
  BY DEF IInv
<1> QED
  BY <1>1, Invariant, PTL

(* A machine-mode handler that has not touched mstatus is not interrupted.   *)
THEOREM HandlesOnce == Spec => []HandledOnce
<1>1. IInv => HandledOnce
  BY DEF IInv
<1> QED
  BY <1>1, Invariant, PTL

(* A return puts back mode and enable bit of the trap it returns from.       *)
THEOREM ReturnsRestore == Spec => ReturnUndoesTrap
<1> DEFINE Restores ==
      ~trap.on =>
        /\ xret = "mret" /\ mframe.kept =>
             priv_mode' = mframe.mode /\ mstatus'.mie = mframe.ie
        /\ xret = "sret" /\ sframe.kept =>
             priv_mode' = sframe.mode /\ sstatus'.sie = sframe.ie
<1>1. ASSUME IInv, [Next]_vars PROVE [Restores]_vars
  <2> SUFFICES ASSUME Next, ~trap.on, xret \in {"mret", "sret"} PROVE Restores
    BY <1>1
  <2>1. StatusOK
    BY <1>1, Parts DEF IInv
  <2>2. Return
    BY DEF Next, Idle, Trap, WriteMstatus, WriteSstatus, WriteUstatus, WriteMie, WriteSie,
           WriteUie, WriteMip, WriteSip, WriteUip, WriteMideleg, WriteMedeleg, Csr
  <2>3. /\ priv_mode' = Returned(xret).mode
        /\ mstatus' = Mix(Entered(trap.to).m, Returned(xret).m, {})
        /\ sstatus' = Mix(Entered(trap.to).s, Returned(xret).s, {})
    BY <2>2 DEF Return, Write, Transfer, TrapWrites, Mix
  <2>4. Proper(Returned(xret), ReturnWrites(xret))
    BY <2>1, ReturnedProper DEF Returns
  <2>5. mstatus'.mie = Returned(xret).m.mie /\ sstatus'.sie = Returned(xret).s.sie
    BY <2>3, <2>4 DEF Mix, Proper, StatusTypes, Status, SStatus
  <2>6. CASE xret = "mret" /\ mframe.kept
    BY <1>1, <2>1, <2>3, <2>5, <2>6 DEF IInv, MFrame, Returned, StatusOK, StatusTypes, Status
  <2>7. CASE xret = "sret" /\ sframe.kept
    BY <1>1, <2>1, <2>3, <2>5, <2>7
       DEF IInv, TypeOK, SFrame, Frames, Modes, USER, SUPERVISOR, MACHINE, Returned, StatusOK,
           StatusTypes, SStatus
  <2> QED
    BY <2>6, <2>7
<1> QED
  BY <1>1, Invariant, PTL DEF Spec, ReturnUndoesTrap
=============================================================================
