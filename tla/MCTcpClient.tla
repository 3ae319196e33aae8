---------------------------- MODULE MCTcpClient ----------------------------
(* Instances of TcpClient for TLC; the constants are set by the .cfg files. *)
EXTENDS TcpClient
=============================================================================
