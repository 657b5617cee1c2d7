--------------------------- MODULE MCAccessControl ---------------------------
(* One user with a key and a token is where credentials and the shared bucket *)
(* meet; two connections let one request be overtaken by another.            *)
EXTENDS AccessControl

CONSTANTS c1, c2, u1, k1, nobody

TwoConnections == {c1, c2}
OneUser == {u1}
OneKey == {k1}
=============================================================================
