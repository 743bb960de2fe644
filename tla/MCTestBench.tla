---------------------------- MODULE MCTestBench ----------------------------
EXTENDS TestBench

S(name, vma, data) ==
  [name |-> name, vma |-> vma, size |-> Len(data), data |-> data, alloc |-> TRUE, load |-> TRUE]
Bss(vma, size) == [S("bss", vma, [k \in 1 .. size |-> 0]) EXCEPT !.load = FALSE]
Debug(vma, data) == [S("debug", vma, data) EXCEPT !.alloc = FALSE]

\* Below RAM, with a neighbour in the margin, and in it; and what goes wrong:
\* two sections of one name, a neighbour too long for the margin, a section too
\* long for RAM, a section to be loaded nowhere.
SomeImages ==
  {<<S("init", 1, <<1, 2>>), S("data", 4, <<2>>), S("text", 9, <<1>>), Bss(10, 1)>>,
   <<S("text", 8, <<1, 2>>), S("text", 10, <<2>>)>>,
   <<S("init", 1, <<1, 2>>), S("data", 4, <<2, 1>>)>>,
   <<Bss(8, 5)>>,
   <<Debug(0, <<1>>)>>}

A(op, adr, data) == [op |-> op, adr |-> adr, data |-> data]
SomeAccesses ==
  {A("write", 9, <<1>>), A("write", 8, <<2, 1>>), A("read", 8, <<0, 0>>),
   A("read", 4, <<0>>), A("write", 4, <<1, 1>>)}
SomeOptions == {{"e"}, {"n"}, {"e", "x"}, {"?"}}
SomeKeys == <<1, 2>>
=============================================================================
