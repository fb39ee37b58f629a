------------------------- MODULE MCPlatformCallback -------------------------
(***************************************************************************)
(* Small instances of PlatformCallback: two messages of one sender in one  *)
(* chat, one of another chat, one of them without an id; three calls.      *)
(***************************************************************************)
EXTENDS PlatformCallback, TLC

CONSTANTS c1, c2, c3, m1, m2, m3, h1, h2, s1, s2

MCChatOf == (m1 :> h1) @@ (m2 :> h1) @@ (m3 :> h2)
MCSenderOf == (m1 :> s1) @@ (m2 :> s1) @@ (m3 :> s2)

\* Calls differ only in their names.
CallSymmetry == Permutations(Calls)
=============================================================================
