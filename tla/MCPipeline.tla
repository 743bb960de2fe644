----------------------------- MODULE MCPipeline -----------------------------
(* Instances of Pipeline for TLC: the programs are drawn, instruction by     *)
(* instruction, from one of the sets below.                                  *)
EXTENDS Pipeline

I(c, d, a, b) == [cls |-> c, rd |-> d, rs1 |-> a, rs2 |-> b, turn |-> FALSE]
Mispredicted(a, b) == [I("branch", 0, a, b) EXCEPT !.turn = TRUE]

\* Every producer of x1 (and two of x2) and every consumer, through rs1 and rs2.
DataInstrs ==
  { I("alu", 1, 1, 0), I("alu", 1, 0, 1), I("alu", 2, 1, 2),
    I("load", 1, 1, 0), I("load", 0, 0, 0), I("load", 2, 2, 0),
    I("store", 0, 0, 1), I("store", 0, 2, 1), I("store", 0, 1, 2),
    I("amo", 1, 0, 1), I("csr", 1, 1, 0), I("jump", 1, 1, 0),
    Mispredicted(1, 0), I("fencei", 0, 0, 0) }

\* Everything that changes the flow of control but returns; the interlock holds
\* up what is behind a csr that reads what it writes.
ControlInstrs ==
  { I("alu", 1, 1, 0), I("alu", 1, 0, 1), I("csr", 1, 1, 0),
    I("jump", 1, 1, 0), Mispredicted(1, 0), I("branch", 0, 0, 1),
    I("exc", 0, 0, 0), I("misaligned", 0, 1, 0) }

\* With returns; no csr reads what it writes.
ReturnInstrs ==
  { I("alu", 1, 1, 0), I("csr", 1, 2, 0), I("jump", 1, 1, 0), Mispredicted(1, 0),
    I("exc", 0, 0, 0), I("xret", 0, 0, 0) }

\* With every kind of trap: one instruction for each way of being taken out.
TrapInstrs ==
  { I("alu", 1, 1, 0), I("load", 1, 1, 0), I("amo", 1, 0, 1), I("mul", 1, 1, 1),
    I("jump", 1, 1, 0), Mispredicted(1, 0),
    I("exc", 0, 0, 0), I("misaligned", 0, 1, 0), I("fencei", 0, 0, 0) }

MulInstrs == { I("alu", 1, 1, 0), I("mul", 1, 1, 1), I("load", 0, 0, 0) }

BranchInstrs == { I("alu", 1, 1, 0), I("load", 1, 1, 0), I("branch", 0, 0, 0) }
=============================================================================
