------------------------------- MODULE MCDhcp -------------------------------
(***************************************************************************)
(* Values for the constants of Dhcp that a configuration cannot write.     *)
(***************************************************************************)
EXTENDS Dhcp

\* 4 ticks; T1 and T2 are given, and far enough apart for T1 to be retried
MCLeases == {[t0 |-> 240, t1 |-> 60, t2 |-> 180]}
=============================================================================
