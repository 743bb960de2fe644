---------------------------- MODULE MCRspServer ----------------------------
EXTENDS RspServer

R(cmd, adr, data) == [cmd |-> cmd, adr |-> adr, data |-> data]

\* Text requests, an unknown one, the empty download; downloads that overlap,
\* one of them too long for the buffer; reads inside, across and outside.
SessionAsks ==
  {R("text", 0, <<>>), R("unknown", 0, <<>>), R("X", 0, <<>>),
   R("X", 0, <<1, 2>>), R("X", 1, <<2, 1>>), R("X", 0, <<1, 1, 1>>),
   R("m", 0, <<>>), R("m", 1, <<>>)}
=============================================================================
