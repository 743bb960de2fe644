-------------------------------- MODULE Plic --------------------------------
(***************************************************************************)
(* The platform-level interrupt controller, src/integration/plic.nsl (the  *)
(* output of gen_plic.py): the gateways of the interrupt lines, the        *)
(* procedures that pick an interrupt and offer it to the two contexts      *)
(* ("harts": 0 is machine mode, 1 supervisor mode of the one core), and    *)
(* the claim and completion each context makes over the bus.  One step is  *)
(* one clock; the bus makes at most one access in it.                      *)
(***************************************************************************)
EXTENDS Naturals

CONSTANTS
  Irqs,          \* interrupt lines that are connected
  MaxPriority,
  Users          \* contexts software enables interrupts for

Harts == {0, 1}
NoHart == 2

ASSUME PlicAssumption ==
  /\ Irqs \subseteq Nat \ {0}
  /\ MaxPriority \in Nat
  /\ Users \subseteq Harts

VARIABLES
  lines,      \* irq_1 ...: raised in this clock
  gateway,    \* the gateways that are open
  disp,       \* acquire_irq, intr_gen or intr_hart, and its arguments
  harts,      \* hart_N_claim, hart_N_complete or neither, and its arguments
  enable, priority, threshold

config == <<enable, priority, threshold>>
vars == <<lines, gateway, disp, harts, config>>

Priorities == 0 .. MaxPriority

\* The number that stands for an interrupt line in the claim register
Number(i) == i + 1

TypeOK ==
  /\ lines \subseteq Irqs /\ gateway \subseteq Irqs
  /\ disp \in [proc : {"acquire_irq", "intr_gen", "intr_hart"}, irqs : SUBSET Irqs]
  /\ harts \in [Harts -> [proc : {"free", "claim", "complete"},
                          num : {0} \cup {Number(i) : i \in Irqs}, mask : SUBSET Irqs]]
  /\ enable \in [Harts -> SUBSET Irqs]
  /\ priority \in [Irqs -> Priorities] /\ threshold \in [Harts -> Priorities]

\* func reset
Init ==
  /\ lines = {} /\ gateway = Irqs
  /\ disp = [proc |-> "acquire_irq", irqs |-> {}]
  /\ harts = [h \in Harts |-> [proc |-> "free", num |-> 0, mask |-> {}]]
  /\ enable = [h \in Harts |-> {}]
  /\ priority = [i \in Irqs |-> 0] /\ threshold = [h \in Harts |-> 0]

-----------------------------------------------------------------------------
(* Picking an interrupt and offering it.                                     *)

\* Variant: the gateways are not looked at.
PendingRaised == lines
Pending == lines \cap gateway

Free(h) == harts[h].proc = "free"
Wanted(h) == {i \in enable[h] : priority[i] > threshold[h]}
Lowest(S) == {i \in S : \A j \in S : i <= j}

\* The interrupt on offer goes to the first context that is free and wants it.
Takers == {h \in Harts : Free(h) /\ disp.irqs \subseteq Wanted(h)}
Delivered(h) == disp.proc = "intr_hart" /\ h \in Lowest(Takers)

Dispatch ==
  \/ /\ disp.proc = "acquire_irq"
     /\ disp' = IF Pending = {} THEN disp ELSE [proc |-> "intr_gen", irqs |-> Pending]
  \/ /\ disp.proc = "intr_gen" /\ \E h \in Harts : Free(h)
     /\ \E i \in Lowest(disp.irqs) : disp' = [proc |-> "intr_hart", irqs |-> {i}]
  \/ /\ disp.proc = "intr_gen" /\ \A h \in Harts : ~Free(h)
     /\ disp' = [proc |-> "acquire_irq", irqs |-> {}]
  \/ /\ disp.proc = "intr_hart"
     /\ disp' = [proc |-> "acquire_irq", irqs |-> {}]

-----------------------------------------------------------------------------
(* Claims and completions.                                                   *)

Completes(h, num) == harts[h].proc = "complete" /\ harts[h].num = num

Hart(h, claimer, completer, num) ==
  IF Delivered(h)
  THEN [proc |-> "claim", num |-> Number(CHOOSE i \in disp.irqs : TRUE), mask |-> disp.irqs]
  ELSE IF harts[h].proc = "claim" /\ h = claimer THEN [harts[h] EXCEPT !.proc = "complete"]
  ELSE IF h = completer /\ Completes(h, num) THEN [harts[h] EXCEPT !.proc = "free", !.num = 0]
  ELSE harts[h]

\* Variants: nothing is masked; nothing is opened.
ClosedNever == {}
OpenedNever(completer, num) == {}

\* intr_hart closes the gateway of the interrupt on offer, taken or not.
Closed == IF disp.proc = "intr_hart" THEN {gateway \ disp.irqs} ELSE {}

\* Either context opens the gateways of context 0.
Opened(completer, num) ==
  {gateway \cup harts[0].mask : h \in {g \in Harts : g = completer /\ Completes(g, num)}}

\* Two transfers to gateway_0 in the same clock: either may win.
Gateway(completer, num) ==
  gateway' \in IF Closed \cup Opened(completer, num) = {} THEN {gateway}
               ELSE Closed \cup Opened(completer, num)

Clock(claimer, completer, num) ==
  /\ lines' \in SUBSET Irqs
  /\ Dispatch
  /\ harts' = [h \in Harts |-> Hart(h, claimer, completer, num)]
  /\ Gateway(completer, num)

-----------------------------------------------------------------------------
(* Accesses over the bus.  Other reads change nothing, like no access.       *)

NoAccess == Clock(NoHart, NoHart, 0) /\ UNCHANGED config
ReadClaim(h) == Clock(h, NoHart, 0) /\ UNCHANGED config
WriteComplete(h, num) == Clock(NoHart, h, num) /\ UNCHANGED config

WriteEnable(h, S) ==
  Clock(NoHart, NoHart, 0) /\ enable' = [enable EXCEPT ![h] = S] /\ UNCHANGED <<priority, threshold>>
WritePriority(i, p) ==
  Clock(NoHart, NoHart, 0) /\ priority' = [priority EXCEPT ![i] = p] /\ UNCHANGED <<enable, threshold>>
WriteThreshold(h, p) ==
  Clock(NoHart, NoHart, 0) /\ threshold' = [threshold EXCEPT ![h] = p] /\ UNCHANGED <<enable, priority>>

Next ==
  \/ NoAccess
  \/ \E h \in Harts : ReadClaim(h)
  \/ \E h \in Harts : \E num \in {Number(i) : i \in Irqs} : WriteComplete(h, num)
  \/ \E h \in Users : \E S \in SUBSET Irqs : WriteEnable(h, S)
  \/ \E i \in Irqs : \E p \in Priorities : WritePriority(i, p)
  \/ \E h \in Harts : \E p \in Priorities : WriteThreshold(h, p)

Spec == Init /\ [][Next]_vars

\* The clock runs, and the handler claims what is delivered and completes it
\* (machine_external_interrupt_handler of gloss/isr.c).
FairSpec ==
  /\ Spec /\ WF_vars(Next)
  /\ \A h \in Harts : /\ WF_vars(harts[h].proc = "claim" /\ ReadClaim(h))
                      /\ WF_vars(harts[h].proc = "complete" /\ WriteComplete(h, harts[h].num))

-----------------------------------------------------------------------------
(* Properties.                                                               *)

Holds(h, i) == ~Free(h) /\ i \in harts[h].mask

(* While a context is handling an interrupt, the gateway of that interrupt   *)
(* stays closed, so it is not delivered a second time: whatever is offered   *)
(* and masked meanwhile.  (It holds as long as only machine mode, context 0, *)
(* is used.)                                                                 *)
ClaimedClosed == \A h \in Harts, i \in Irqs : Holds(h, i) => i \notin gateway

(* What is on offer was let in by a gateway that is still open two clocks    *)
(* later, when it is delivered.                                              *)
OffersOpen == disp.irqs \subseteq gateway

(* If software only lets a device raise an interrupt that the context has    *)
(* enabled, as plic_test/main.c does, and handles what is delivered, every   *)
(* interrupt that stays raised is delivered, time and again.                 *)
Served(h) ==
  [](lines \cup disp.irqs \subseteq Wanted(h)) =>
     \A i \in Irqs : i \in lines ~> (Holds(h, i) \/ i \notin lines)
ServedMachine == Served(0)

(* What is missing for that is the one case intr_hart does not provide for:  *)
(* unless an interrupt is offered while machine mode is still handling the   *)
(* one before it, every interrupt is delivered, time and again.              *)
ServedWhenFree == [](disp.proc = "intr_hart" => Free(0)) => ServedMachine
=============================================================================
