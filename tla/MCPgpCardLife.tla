--------------------------- MODULE MCPgpCardLife ---------------------------
(* Cards and users are interchangeable; only invariants are checked. *)
EXTENDS PgpCardLife, TLC

Symmetric == Permutations(Cards) \cup Permutations(Users)
=============================================================================
