---------------------------- MODULE MCLwipSelect ----------------------------
(* Instances of LwipSelect for TLC: a server thread that waits for the     *)
(* listener and its connection, and one that waits to write or for errors. *)
EXTENDS LwipSelect

MCWants == {{<<0, "r">>, <<1, "r">>}, {<<1, "w">>, <<1, "e">>}}
MCServer == {{<<1, "r">>}}

=============================================================================
