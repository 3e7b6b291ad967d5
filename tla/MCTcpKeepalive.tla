--------------------------- MODULE MCTcpKeepalive ---------------------------
(* An instance of TcpKeepalive for TLC. *)
EXTENDS TcpKeepalive

CONSTANTS k1, k2, w1, w2

AnyRetryNums == {-1, 0, 1}
=============================================================================
