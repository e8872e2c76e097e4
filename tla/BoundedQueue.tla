---------------------------- MODULE BoundedQueue ----------------------------
(***************************************************************************)
(* What lwIP asks of a mailbox (lwip/src/include/lwip/sys.h:272-369): a    *)
(* first-in first-out queue of at most Size messages that loses none of    *)
(* them before it is freed.                                                *)
(***************************************************************************)
EXTENDS Integers, Sequences

CONSTANTS Size, Msgs

VARIABLES
  open, \* the mailbox exists
  q,    \* the messages in it
  in,   \* history: the messages that posts were done with
  out   \* history: the messages fetched

Init ==
  /\ open = FALSE
  /\ q = <<>>
  /\ in = <<>>
  /\ out = <<>>

New ==
  /\ ~open
  /\ open' = TRUE
  /\ UNCHANGED <<q, in, out>>

Put(m) ==
  /\ open
  /\ Len(q) < Size
  /\ q' = Append(q, m)
  /\ in' = Append(in, m)
  /\ UNCHANGED <<open, out>>

Get ==
  /\ open
  /\ q # <<>>
  /\ out' = Append(out, Head(q))
  /\ q' = Tail(q)
  /\ UNCHANGED <<open, in>>

Free ==
  /\ open
  /\ open' = FALSE
  /\ q' = <<>>
  /\ UNCHANGED <<in, out>>

\* A message posted to a mailbox that has been freed.
Lose(m) ==
  /\ ~open
  /\ in' = Append(in, m)
  /\ UNCHANGED <<open, q, out>>

Next == New \/ Get \/ Free \/ \E m \in Msgs : Put(m) \/ Lose(m)

Spec == Init /\ [][Next]_<<open, q, in, out>>
=============================================================================
