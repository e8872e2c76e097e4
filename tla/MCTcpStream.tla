---------------------------- MODULE MCTcpStream ----------------------------
(* Instances of TcpStream for TLC: the writes of the sending application.  *)
EXTENDS TcpStream

MCWrites == <<1, 2, 2>>

=============================================================================
