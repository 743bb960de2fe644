----------------------------- MODULE MCTrapUnit -----------------------------
(* Instances of TrapUnit for TLC.                                            *)
EXTENDS TrapUnit

Word(on, previous) ==
  [mie |-> on, mpie |-> TRUE, mpp |-> previous, sie |-> on, spie |-> TRUE, spp |-> FALSE,
   uie |-> TRUE, upie |-> TRUE, tsr |-> on]

\* Software switches interrupts and the trapping of sret on and off, and names a
\* mode to return to, or one there is none of.
OnAndOff == { Word(TRUE, SUPERVISOR), Word(FALSE, HYPERVISOR) }

\* What is enabled, delegated or made pending stays so.
IntsSet == {Ints}
ExcsSet == {Delegable \cap Excs}
=============================================================================
