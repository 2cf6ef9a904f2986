----------------------------- MODULE TokenMutex -----------------------------
(***************************************************************************)
(* What withTokenLock promises its callers: the token operations of all    *)
(* processes that share a token file run one at a time.  TokenLock is      *)
(* shown to implement it, and TokenStore is written on top of it.          *)
(***************************************************************************)
CONSTANT Callers

VARIABLE inside      \* the callers whose operation is running

Init == inside = {}

Enter(c) == inside = {} /\ inside' = {c}

\* The operation settles, or the process that runs it dies.
Leave(c) == inside = {c} /\ inside' = {}

Next == \E c \in Callers : Enter(c) \/ Leave(c)

Spec == Init /\ [][Next]_inside
=============================================================================
