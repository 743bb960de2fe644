-------------------------- MODULE MCLoadStoreUnit --------------------------
(* Instances of LoadStoreUnit for TLC: page tables and modes of operation.   *)
EXTENDS LoadStoreUnit

Frame(hi, lo) == [hi |-> hi, lo |-> lo]
Pte(flags, f) == [flags |-> flags, to |-> f]
Invalid  == Pte({}, Frame("ram", "p"))
ReadOnly == {"v", "r", "a"}
UserData == {"v", "r", "w", "u", "a", "d"}

SomeRam == {Frame("ram", "p")}

Table(root, p, q) == [root |-> root, leaf |-> [p |-> p, q |-> q]]

\* One page moved, the other one invalid; a superpage, of which only one page is
\* memory; a table that lies where there is no memory.
SomeTables ==
  { Table(Pte({"v"}, Frame("ram", "p")), Invalid, Pte(UserData, Frame("ram", "p"))),
    Table(Pte(ReadOnly, Frame("ram", "p")), Invalid, Invalid),
    Table(Pte({"v"}, Frame("ram", "q")), Invalid, Invalid) }

Mode(sv32, user, sum, mxr) == [sv32 |-> sv32, user |-> user, sum |-> sum, mxr |-> mxr]
SomeModes ==
  { Mode(FALSE, FALSE, FALSE, FALSE),   \* machine mode
    Mode(TRUE, TRUE, FALSE, FALSE), Mode(TRUE, FALSE, FALSE, FALSE) }
=============================================================================
