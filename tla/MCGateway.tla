----------------------------- MODULE MCGateway -----------------------------
(* Values for the constants of Gateway. *)
EXTENDS Gateway

CONSTANTS h

MCHandlers == {h}

\* "/a" and "/a/b", and a path below both.
MCPatterns == {<<"a">>, <<"a", "b">>}
MCPaths == {<<"a", "b", "c">>}
=============================================================================
