----------------------------- MODULE Plic_proofs -----------------------------
(***************************************************************************)
(* Proofs about Plic for any set of interrupt lines and priorities.        *)
(***************************************************************************)
EXTENDS Plic, TLAPS

\* intr_hart offers one interrupt.
Single == disp.proc = "intr_hart" => \E i \in Irqs : disp.irqs = {i}

\* Software uses machine mode only: context 1 never gets an interrupt.
MachineOnly == 1 \notin Users
Unused == enable[1] = {} /\ Free(1)

Inv == TypeOK /\ Single /\ Unused /\ ClaimedClosed

-----------------------------------------------------------------------------
(* Lemmas: what a clock does to the parts of the state.                      *)

LEMMA ClockDispatches ==
  ASSUME TypeOK, Dispatch
  PROVE  /\ disp' \in [proc : {"acquire_irq", "intr_gen", "intr_hart"}, irqs : SUBSET Irqs]
         /\ Single'
<1>1. CASE disp.proc = "acquire_irq"
  BY <1>1 DEF Dispatch, TypeOK, Single, Pending
<1>2. CASE disp.proc = "intr_gen"
  BY <1>2 DEF Dispatch, TypeOK, Single, Lowest
<1>3. CASE disp.proc = "intr_hart"
  BY <1>3 DEF Dispatch, TypeOK, Single
<1> QED
  BY <1>1, <1>2, <1>3 DEF TypeOK

LEMMA HartType ==
  ASSUME TypeOK, Single, NEW h \in Harts, NEW c, NEW d, NEW num
  PROVE  Hart(h, c, d, num) \in [proc : {"free", "claim", "complete"},
                                 num : {0} \cup {Number(i) : i \in Irqs}, mask : SUBSET Irqs]
<1>1. CASE Delivered(h)
  <2>1. PICK i \in Irqs : disp.irqs = {i}
    BY <1>1 DEF Delivered, Single
  <2>2. (CHOOSE j \in disp.irqs : TRUE) = i
    BY <2>1
  <2> QED
    BY <1>1, <2>1, <2>2 DEF Hart
<1>2. CASE ~Delivered(h)
  <2>1. harts[h] \in [proc : {"free", "claim", "complete"},
                      num : {0} \cup {Number(i) : i \in Irqs}, mask : SUBSET Irqs]
    BY DEF TypeOK
  <2>2. \/ Hart(h, c, d, num) = harts[h]
        \/ Hart(h, c, d, num) = [harts[h] EXCEPT !.proc = "complete"]
        \/ Hart(h, c, d, num) = [harts[h] EXCEPT !.proc = "free", !.num = 0]
    BY <1>2 DEF Hart
  <2> QED
    BY <2>1, <2>2
<1> QED
  BY <1>1, <1>2

LEMMA GatewayType ==
  ASSUME TypeOK, NEW d, NEW num, Gateway(d, num)
  PROVE  gateway' \subseteq Irqs
BY DEF Gateway, Closed, Opened, TypeOK, Harts

\* A context that wants nothing is given nothing.
LEMMA UnusedGetsNothing ==
  ASSUME TypeOK, Single, Unused
  PROVE  ~Delivered(1)
BY DEF TypeOK, Single, Unused, Delivered, Takers, Wanted, Lowest, Harts

\* Only a completion by context 0 opens gateways when context 1 is idle.
LEMMA ClosedStaysClosed ==
  ASSUME Inv, NEW d, NEW num, Gateway(d, num),
         NEW i \in Irqs, i \notin gateway, i \in gateway'
  PROVE  d = 0 /\ Completes(0, num)
BY DEF Inv, TypeOK, Unused, Free, Gateway, Closed, Opened, Completes, Harts

\* What is delivered is masked in the same clock.
LEMMA DeliveredIsClosed ==
  ASSUME Inv, NEW d, NEW num, Gateway(d, num), Delivered(0)
  PROVE  disp.irqs \cap gateway' = {}
<1>1. Free(0)
  BY DEF Delivered, Takers, Lowest
<1>2. Opened(d, num) = {}
  BY <1>1 DEF Opened, Inv, Unused, Free, Completes, Harts
<1>3. gateway' = gateway \ disp.irqs
  BY <1>2 DEF Gateway, Closed, Delivered
<1> QED
  BY <1>3

LEMMA ClockKeepsClaimedClosed ==
  ASSUME Inv, NEW c, NEW d, NEW num, Clock(c, d, num),
         NEW i \in Irqs, Holds(0, i)'
  PROVE  i \notin gateway'
<1> USE DEF Harts
<1>1. harts'[0] = Hart(0, c, d, num) /\ harts'[0].proc # "free" /\ i \in harts'[0].mask
  BY DEF Clock, Holds, Free
<1>2. Gateway(d, num)
  BY DEF Clock
<1>3. CASE Delivered(0)
  <2>1. i \in disp.irqs
    BY <1>1, <1>3 DEF Hart
  <2> QED
    BY <1>2, <1>3, <2>1, DeliveredIsClosed
<1>4. CASE ~Delivered(0)
  <2>0. harts[0] \in [proc : {"free", "claim", "complete"},
                      num : {0} \cup {Number(j) : j \in Irqs}, mask : SUBSET Irqs]
    BY DEF Inv, TypeOK
  <2>1. harts'[0].mask = harts[0].mask /\ ~Free(0) /\ ~(d = 0 /\ Completes(0, num))
    <3>1. CASE harts[0].proc = "claim" /\ 0 = c
      BY <1>1, <1>4, <2>0, <3>1 DEF Hart, Free, Completes
    <3>2. CASE ~(harts[0].proc = "claim" /\ 0 = c) /\ 0 = d /\ Completes(0, num)
      BY <1>1, <1>4, <2>0, <3>2 DEF Hart, Free, Completes
    <3>3. CASE ~(harts[0].proc = "claim" /\ 0 = c) /\ ~(0 = d /\ Completes(0, num))
      BY <1>1, <1>4, <3>3 DEF Hart, Free
    <3> QED
      BY <3>1, <3>2, <3>3
  <2>2. i \notin gateway
    BY <1>1, <2>1 DEF Inv, ClaimedClosed, Holds
  <2> QED
    BY <1>2, <2>1, <2>2, ClosedStaysClosed
<1> QED
  BY <1>3, <1>4

LEMMA ClockKeepsInv ==
  ASSUME Inv, NEW c, NEW d, NEW num, Clock(c, d, num),
         enable' \in [Harts -> SUBSET Irqs], enable'[1] = {},
         priority' \in [Irqs -> Priorities], threshold' \in [Harts -> Priorities]
  PROVE  Inv'
<1>1. TypeOK'
  <2>1. \A h \in Harts : Hart(h, c, d, num) \in
          [proc : {"free", "claim", "complete"},
           num : {0} \cup {Number(i) : i \in Irqs}, mask : SUBSET Irqs]
    BY HartType DEF Inv
  <2>2. gateway' \subseteq Irqs
    BY GatewayType DEF Inv, Clock
  <2>3. disp' \in [proc : {"acquire_irq", "intr_gen", "intr_hart"}, irqs : SUBSET Irqs]
    BY ClockDispatches DEF Inv, Clock
  <2> QED
    BY <2>1, <2>2, <2>3 DEF TypeOK, Clock
<1>2. Single'
  BY ClockDispatches DEF Inv, Clock
<1>3. Free(1)'
  BY UnusedGetsNothing DEF Inv, Unused, Free, Clock, Hart, Completes, Harts
<1>4. ClaimedClosed'
  <2>1. \A i \in Irqs : Holds(0, i)' => i \notin gateway'
    BY ClockKeepsClaimedClosed
  <2>2. \A i \in Irqs : ~Holds(1, i)'
    BY <1>3 DEF Holds
  <2> QED
    BY <2>1, <2>2 DEF ClaimedClosed, Harts
<1> QED
  BY <1>1, <1>2, <1>3, <1>4 DEF Inv, Unused

-----------------------------------------------------------------------------
(* Theorem: software that leaves supervisor mode alone never has an          *)
(* interrupt delivered again while machine mode is still handling it,        *)
(* whichever other lines are raised, offered, masked and completed           *)
(* meanwhile (intr_hart and hart_0_complete of plic.nsl).                    *)
THEOREM MachineClaimsOnce == MachineOnly => (Spec => []ClaimedClosed)
<1> SUFFICES ASSUME MachineOnly
             PROVE  Spec => []ClaimedClosed
  OBVIOUS
<1>1. Init => Inv
  BY PlicAssumption DEF Init, Inv, TypeOK, Single, Unused, Free, ClaimedClosed, Holds,
                        Harts, Priorities
<1>2. Inv /\ [Next]_vars => Inv'
  <2> SUFFICES ASSUME Inv, [Next]_vars
               PROVE  Inv'
    OBVIOUS
  <2> USE DEF config
  <2>0. /\ enable \in [Harts -> SUBSET Irqs] /\ enable[1] = {}
        /\ priority \in [Irqs -> Priorities] /\ threshold \in [Harts -> Priorities]
    BY DEF Inv, TypeOK, Unused
  <2>1. CASE NoAccess
    BY <2>0, <2>1, ClockKeepsInv DEF NoAccess
  <2>2. ASSUME NEW h \in Harts, ReadClaim(h)
        PROVE  Inv'
    BY <2>0, <2>2, ClockKeepsInv DEF ReadClaim
  <2>3. ASSUME NEW h \in Harts, NEW n, WriteComplete(h, n)
        PROVE  Inv'
    BY <2>0, <2>3, ClockKeepsInv DEF WriteComplete
  <2>4. ASSUME NEW h \in Users, NEW S \in SUBSET Irqs, WriteEnable(h, S)
        PROVE  Inv'
    <3>1. h # 1 /\ h \in Harts
      BY PlicAssumption DEF MachineOnly
    <3>2. enable' \in [Harts -> SUBSET Irqs] /\ enable'[1] = {}
      BY <2>0, <2>4, <3>1 DEF WriteEnable, Harts
    <3> QED
      BY <2>0, <2>4, <3>2, ClockKeepsInv DEF WriteEnable
  <2>5. ASSUME NEW i \in Irqs, NEW p \in Priorities, WritePriority(i, p)
        PROVE  Inv'
    <3>1. priority' \in [Irqs -> Priorities]
      BY <2>0, <2>5 DEF WritePriority
    <3> QED
      BY <2>0, <2>5, <3>1, ClockKeepsInv DEF WritePriority
  <2>6. ASSUME NEW h \in Harts, NEW p \in Priorities, WriteThreshold(h, p)
        PROVE  Inv'
    <3>1. threshold' \in [Harts -> Priorities]
      BY <2>0, <2>6 DEF WriteThreshold
    <3> QED
      BY <2>0, <2>6, <3>1, ClockKeepsInv DEF WriteThreshold
  <2>7. CASE UNCHANGED vars
    BY <2>7 DEF vars, Inv, TypeOK, Single, Unused, Free, ClaimedClosed, Holds
  <2> QED
    BY <2>1, <2>2, <2>3, <2>4, <2>5, <2>6, <2>7 DEF Next
<1>3. Inv => ClaimedClosed
  BY DEF Inv
<1> QED
  BY <1>1, <1>2, <1>3, PTL DEF Spec

\* The gateways an offer has come through are still open when it is delivered,
\* whichever contexts are used: only a delivery closes a gateway, and there is
\* none before.
THEOREM OffersAreOpen == Spec => []OffersOpen
<1>1. Init => OffersOpen
  BY DEF Init, OffersOpen
<1>2. OffersOpen /\ [Next]_vars => OffersOpen'
  <2> SUFFICES ASSUME OffersOpen, [Next]_vars PROVE OffersOpen'
    OBVIOUS
  <2>1. ASSUME NEW c, NEW d, NEW num, Clock(c, d, num) PROVE OffersOpen'
    <3>1. Dispatch /\ Gateway(d, num)
      BY <2>1 DEF Clock
    <3>2. CASE disp.proc = "intr_hart"
      BY <3>1, <3>2 DEF Dispatch, OffersOpen
    <3>3. CASE disp.proc # "intr_hart"
      <4>1. gateway \subseteq gateway'
        BY <3>1, <3>3 DEF Gateway, Closed, Opened
      <4>2. disp'.irqs \subseteq gateway
        BY <3>1, <3>3 DEF Dispatch, OffersOpen, Pending, Lowest
      <4> QED BY <4>1, <4>2 DEF OffersOpen
    <3> QED BY <3>2, <3>3
  <2>2. CASE UNCHANGED vars
    BY <2>2 DEF vars, OffersOpen
  <2>3. CASE Next
    BY <2>1, <2>3
       DEF Next, NoAccess, ReadClaim, WriteComplete, WriteEnable, WritePriority, WriteThreshold
  <2> QED BY <2>2, <2>3
<1> QED BY <1>1, <1>2, PTL DEF Spec
=============================================================================
