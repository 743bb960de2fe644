---------------------------- MODULE MCIfetchUnit ----------------------------
EXTENDS IfetchUnit

\* Redirections the index comparison of compare_tag can tell apart
DistinctLines == {r \in Addrs \X Addrs : r[1].line # r[2].line}

AnyRedirect == Addrs \X Addrs
=============================================================================
