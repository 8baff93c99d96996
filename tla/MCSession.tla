----------------------------- MODULE MCSession -----------------------------
\* Session on small instances.
EXTENDS Session

CONSTANTS f1, f2, f3

ShippedCommands == UNION {Shipped(f) : f \in Files}

\* What the shipped client does, with one file; and what programs may do that use
\* the library otherwise, to append to a file they have not locked and to lock two
\* files.
LibraryCommands ==
  Shipped(f1) \union {
    OnFile(<<"openNew", "append">>, f3),
    OnFile(<<"create">>, f1) \o OnFile(<<"lock">>, f2),
    OnFile(<<"create">>, f2) \o OnFile(<<"lock">>, f1)}
=============================================================================
