--------------------------- MODULE MCTcpConnection ---------------------------
(* Sequence numbers of five bits that wrap inside the transfer.             *)
EXTENDS TcpConnection

=============================================================================
