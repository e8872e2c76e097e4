------------------------------ MODULE MCEthRx ------------------------------
(***************************************************************************)
(* Small instances of EthRx for TLC.                                       *)
(***************************************************************************)
EXTENDS EthRx

\* memp may hand out any free buffer.
AnyFree(S) == S

\* While every buffer is in one place, free buffers differ in name only, and
\* one choice stands for all.
LowestFree(S) == {b \in S : \A c \in S : b <= c}
=============================================================================
