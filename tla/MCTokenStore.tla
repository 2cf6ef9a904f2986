---------------------------- MODULE MCTokenStore ----------------------------
\* TLC instance of TokenStore: one server with two concurrent tool calls, a
\* second server with one, and the sign-in server.
EXTENDS TokenStore, TLC

CONSTANTS s1, s2, k1, k2, k3

TwoAndOne == (k1 :> s1) @@ (k2 :> s1) @@ (k3 :> s2)
=============================================================================
