----------------------------- MODULE MCPrograms -----------------------------
(* Pipeline with programs of one kind, which is settled at the start and     *)
(* kept: those that move data, those that move control, those that return.   *)
EXTENDS MCPipeline

VARIABLE program   \* the instructions of this program

Programs == {DataInstrs, ControlInstrs, ReturnInstrs}
Any      == UNION Programs

ProgramInit == Init /\ program \in Programs

Fetching(P(_)) ==
  /\ program' = program
  /\ \E in \in Inputs : P(in) /\ \E ins \in (IF in.hit THEN program ELSE {Nop}) : Clock(in, ins)
Always(in) == TRUE

ProgramNext == Fetching(Always)

ProgramSpec ==
  /\ ProgramInit /\ [][ProgramNext]_<<vars, program>>
  /\ WF_vars(ProgramNext)
  /\ SF_vars(Fetching(Looks))
  /\ SF_vars(Fetching(Hits))
  /\ SF_vars(Fetching(Replies))
  /\ SF_vars(Fetching(Syncs))
  /\ SF_vars(Fetching(Finishes))
=============================================================================
