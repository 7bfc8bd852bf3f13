------------------------- MODULE MC_TcpConnection -------------------------
(* Model-checking instance of TcpConnection.                               *)
EXTENDS TcpConnection

CONSTANTS t1

MCForeign == {t1}
AllStates == {"kConnecting", "kConnected", "kDisconnecting", "kDisconnected"}
LiveStates == {"kConnected", "kDisconnecting"}
=============================================================================
