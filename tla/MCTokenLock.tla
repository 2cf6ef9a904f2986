---------------------------- MODULE MCTokenLock -----------------------------
\* TLC instance of TokenLock: three callers, each in a process of its own.
EXTENDS TokenLock, TLC

CONSTANTS c1, c2, c3, p1, p2, p3

OneEach == (c1 :> p1) @@ (c2 :> p2) @@ (c3 :> p3)
=============================================================================
