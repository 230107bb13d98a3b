--------------------------- MODULE MCCommandCache ---------------------------
(***************************************************************************)
(* CommandCache with three connections: one of the player the others come  *)
(* back as, so that a request can be under way, repeated and aliased.      *)
(***************************************************************************)
EXTENDS CommandCache, TLC

\* Request IDs, and the connections that are not Home's first one, are alike.
Renaming == Permutations(Request) \cup Permutations(Conn \ {Home})
=============================================================================
