-------------------------------- MODULE Mbox --------------------------------
(***************************************************************************)
(* The mailboxes of src/rtemslwip/common/sys_arch.c: an RTEMS message      *)
(* queue, and a counting semaphore of its free slots.  Every operation     *)
(* makes two calls of the kernel, one on each, and threads and interrupt   *)
(* handlers interleave between them.                                       *)
(*                                                                         *)
(* The kernel objects are external: a call on a deleted one fails, and so  *)
(* does a send to a full queue - the code tests neither.  Messages are     *)
(* numbered in the order of the calls that post them.  The two objects are *)
(* created in one step: no thread knows the mailbox before.                *)
(***************************************************************************)
EXTENDS Integers, Sequences, FiniteSets

CONSTANTS
  Posters,  \* the threads and interrupt handlers that post to the mailbox
  Fetchers, \* the threads that fetch from it, and free it
  Size,     \* its size
  MaxPosts  \* bound: messages posted

ASSUME MboxAssumption ==
  /\ IsFiniteSet(Posters) /\ IsFiniteSet(Fetchers)
  /\ Size \in Nat \ {0}
  /\ MaxPosts \in Nat

VARIABLES
  life,  \* "none", "live", "half" (queue deleted, semaphore not), "freed"
  sem,   \* mbox->sem, the free slots
  queue, \* mbox->mailbox
  pc,    \* where each thread is
  msg,   \* the message a thread posts
  status,\* what a thread's last call returned
  posts, \* messages so far
  put,   \* history: the messages of posts that have returned success
  got    \* history: the messages fetched

Threads == Posters \cup Fetchers

mboxVars == <<life, sem, queue, pc, msg, status, posts, put, got>>

MboxInit ==
  /\ life = "none"
  /\ sem = 0
  /\ queue = <<>>
  /\ pc = [t \in Threads |-> "idle"]
  /\ msg = [t \in Threads |-> 0]
  /\ status = [t \in Threads |-> "none"]
  /\ posts = 0
  /\ put = <<>>
  /\ got = <<>>

Goto(t, from, to) ==
  /\ pc[t] = from
  /\ pc' = [pc EXCEPT ![t] = to]

Return(t, from, s) ==
  /\ Goto(t, from, "idle")
  /\ status' = [status EXCEPT ![t] = s]

\* sys_mbox_new, when both objects can be had; otherwise the mailbox is left
\* invalid.
New ==
  /\ life = "none"
  /\ life' = "live"
  /\ sem' = Size
  /\ queue' = <<>>
  /\ UNCHANGED <<pc, msg, status, posts, put, got>>

HasSem == life \in {"live", "half"}

HasQueue == life = "live"

NextMessage(t) ==
  /\ posts < MaxPosts
  /\ posts' = posts + 1
  /\ msg' = [msg EXCEPT ![t] = posts + 1]

\* sys_mbox_post is called ...
Post(t) ==
  /\ life # "none"
  /\ Goto(t, "idle", "post")
  /\ NextMessage(t)
  /\ UNCHANGED <<life, sem, queue, status, put, got>>

\* Faulty: the caller does not wait for a free slot.
ObtainNoWait(t) ==
  /\ Goto(t, "post", "send")
  /\ sem' = sem - 1
  /\ UNCHANGED <<life, queue, msg, status, posts, put, got>>

\* ... and gets a slot, or finds the semaphore deleted and goes on.
Obtain(t) ==
  /\ Goto(t, "post", "send")
  /\ IF HasSem THEN sem > 0 /\ sem' = sem - 1 ELSE UNCHANGED sem
  /\ UNCHANGED <<life, queue, msg, status, posts, put, got>>

\* The first half of sys_mbox_trypost, also from an interrupt handler.
TryPost(t) ==
  /\ life # "none"
  /\ NextMessage(t)
  /\ IF HasSem /\ sem > 0
       THEN /\ Goto(t, "idle", "send")
            /\ sem' = sem - 1
            /\ UNCHANGED status
       ELSE /\ Return(t, "idle", "ERR_MEM")
            /\ UNCHANGED sem
  /\ UNCHANGED <<life, queue, put, got>>

\* The second half of both: what rtems_message_queue_send returns is ignored.
Send(t) ==
  /\ Return(t, "send", "ERR_OK")
  /\ queue' = IF HasQueue /\ Len(queue) < Size THEN Append(queue, msg[t]) ELSE queue
  /\ put' = Append(put, msg[t])
  /\ UNCHANGED <<life, sem, msg, posts, got>>

\* sys_arch_mbox_fetch is called ...
Fetch(t) ==
  /\ life # "none"
  /\ Goto(t, "idle", "fetch")
  /\ UNCHANGED <<life, sem, queue, msg, status, posts, put, got>>

TakeHead ==
  /\ HasQueue
  /\ queue # <<>>
  /\ got' = Append(got, Head(queue))
  /\ queue' = Tail(queue)

\* ... and gets a message, ...
Receive(t) ==
  /\ Goto(t, "fetch", "release")
  /\ TakeHead
  /\ UNCHANGED <<life, sem, msg, status, posts, put>>

\* ... or times out, or finds the queue deleted.
FetchFails(t) ==
  /\ Return(t, "fetch", "SYS_ARCH_TIMEOUT")
  /\ UNCHANGED <<life, sem, queue, msg, posts, put, got>>

\* The first half of sys_arch_mbox_tryfetch.
TryFetch(t) ==
  /\ life # "none"
  /\ \/ Goto(t, "idle", "release") /\ TakeHead /\ UNCHANGED status
     \/ /\ Return(t, "idle", "SYS_MBOX_EMPTY")
        /\ ~HasQueue \/ queue = <<>>
        /\ UNCHANGED <<queue, got>>
  /\ UNCHANGED <<life, sem, msg, posts, put>>

\* Faulty: a fetch does not give its slot back.
ReleaseNothing(t) ==
  /\ Return(t, "release", "ERR_OK")
  /\ UNCHANGED <<life, sem, queue, msg, posts, put, got>>

\* The second half of both: the slot is given back.
Release(t) ==
  /\ Return(t, "release", "ERR_OK")
  /\ sem' = IF HasSem THEN sem + 1 ELSE sem
  /\ UNCHANGED <<life, queue, msg, posts, put, got>>

\* sys_mbox_free: first the queue is deleted, then the semaphore.
Free(t) ==
  /\ \/ life = "live" /\ Goto(t, "idle", "free") /\ life' = "half" /\ queue' = <<>>
     \/ Goto(t, "free", "idle") /\ life' = "freed" /\ UNCHANGED queue
  /\ UNCHANGED <<sem, msg, status, posts, put, got>>

-----------------------------------------------------------------------------

Kernel(t) == Obtain(t) \/ Send(t) \/ Receive(t) \/ FetchFails(t) \/ Release(t)

MboxNext ==
  \/ New
  \/ \E t \in Posters : Post(t) \/ TryPost(t)
  \/ \E t \in Fetchers : Fetch(t) \/ TryFetch(t) \/ Free(t)
  \/ \E t \in Threads : Kernel(t)

MboxSpec == MboxInit /\ [][MboxNext]_mboxVars

\* Threads that can run do; the semaphore's waiting threads are served in the
\* order they came (no RTEMS_PRIORITY in its attributes), so none is passed
\* over for ever; and a fetcher keeps fetching, as tcpip_thread does.
MboxFairSpec ==
  /\ MboxSpec
  /\ \A t \in Threads :
       WF_mboxVars(Send(t)) /\ WF_mboxVars(Release(t)) /\ WF_mboxVars(Free(t)) /\ SF_mboxVars(Obtain(t))
  /\ \A t \in Fetchers : WF_mboxVars(Fetch(t)) /\ SF_mboxVars(Receive(t))

-----------------------------------------------------------------------------

PCs == {"idle", "post", "send", "fetch", "release", "free"}

\* The types of a mailbox and the threads that use it.
MboxTypeOK ==
  /\ life \in {"none", "live", "half", "freed"}
  /\ sem \in Nat
  /\ queue \in Seq(Nat)
  /\ pc \in [Threads -> PCs]
  /\ msg \in [Threads -> Nat]
  /\ status \in [Threads -> {"none", "ERR_OK", "ERR_MEM", "SYS_ARCH_TIMEOUT",
                             "SYS_MBOX_EMPTY"}]
  /\ posts \in Nat
  /\ put \in Seq(Nat)
  /\ got \in Seq(Nat)

At(s) == {t \in Threads : pc[t] = s}

\* The semaphore and the queue agree, whoever is between its two calls: every
\* slot is free, taken for a message to come, full, or about to be given back.
SlotsAccounted ==
  life = "live" =>
    sem + Cardinality(At("send")) + Len(queue) + Cardinality(At("release")) = Size

\* "Post a message to an mbox - may not fail" (lwip/sys.h:288): the queue has
\* room for every thread that has a slot, so ignoring the result of
\* rtems_message_queue_send loses nothing.
RoomForSenders == life = "live" => Len(queue) + Cardinality(At("send")) <= Size

Queue == INSTANCE BoundedQueue WITH
  Msgs <- 1 .. MaxPosts, open <- life = "live", q <- queue, in <- put, out <- got

\* The mailbox is a bounded first-in first-out queue that loses nothing while
\* it exists.
QueueSpec == Queue!Spec

\* A thread that waits for a free slot gets one.
PostReturns == \A t \in Threads : pc[t] = "post" ~> pc[t] # "post"
=============================================================================
