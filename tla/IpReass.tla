------------------------------ MODULE IpReass ------------------------------
(***************************************************************************)
(* IPv4 fragmentation and reassembly (ip4_frag.c), end to end.             *)
(*                                                                         *)
(* ip4_frag() cuts datagrams into fragments; the network loses, repeats    *)
(* and reorders them; ip4_reass() puts them together again in a list of    *)
(* datagrams that is bounded in entries and in pbufs, evicts the oldest    *)
(* when it is full, and ages them out in ip_reass_tmr().                   *)
(*                                                                         *)
(* Datagrams have distinct identifications: a number that comes round      *)
(* again while old fragments are about is not modelled.                    *)
(***************************************************************************)
EXTENDS Integers, Sequences, FiniteSets

CONSTANTS
    Ids,         \* source, destination and identification of a datagram
    Lens,        \* lengths of datagrams, without header
    Unit,        \* fragment offsets count in this unit (8 bytes)
    Room,        \* netif->mtu - IP_HLEN
    MaxU16,      \* 0xFFFF
    HLen,        \* IP_HLEN
    Foreign,     \* fragments of other senders that are in the network from the start
    NumReass,    \* MEMP_NUM_REASSDATA
    MaxPbufs,    \* IP_REASS_MAX_PBUFS
    MaxAge,      \* IP_REASS_MAXAGE
    Clens        \* pbufs a received fragment may take

ASSUME ReassAssumption ==
    /\ Unit \in Nat \ {0} /\ Room \in Nat /\ Room >= Unit
    /\ HLen \in 0 .. MaxU16 /\ MaxU16 \in Nat /\ Lens \subseteq 1 .. MaxU16 - HLen
    /\ NumReass \in Nat \ {0} /\ MaxPbufs \in Nat /\ MaxAge \in Nat
    /\ Clens \subseteq 1 .. MaxPbufs

\* other senders use other identifications, and a fragment carries data
ASSUME ForeignAssumption ==
    \A f \in Foreign :
        /\ f.id \notin Ids
        /\ f.start \in Nat /\ f.end \in Nat /\ f.start < f.end
        /\ f.mf \in BOOLEAN

VARIABLES
    len,     \* length of the datagrams sent, 0: not sent yet
    net,     \* fragments that may still arrive, once or more often
    list,    \* reassdatagrams
    count,   \* ip_reass_pbufcount
    out      \* what the call just made returned: a datagram, or nothing

vars == <<len, net, list, count, out>>

-----------------------------------------------------------------------------
(* ip4_frag().                                                             *)

\* the fragments of a datagram; the k-th iteration has n - k * size left
Fragments(id, n) ==
    LET size == (Room \div Unit) * Unit
    IN  {[id    |-> id,
          start |-> k * size,
          end   |-> IF n - k * size < size THEN n ELSE (k + 1) * size,
          mf    |-> n - k * size > Room]
            : k \in {j \in 0 .. n : j * size < n}}

\* without memory for one of them the loop ends there
Send(id, n) ==
    /\ len[id] = 0
    /\ len' = [len EXCEPT ![id] = n]
    /\ \E stop \in {f.start : f \in Fragments(id, n)} \cup {n} :
          net' = net \cup {f \in Fragments(id, n) : f.start < stop}
    /\ out' = {}
    /\ UNCHANGED <<list, count>>

-----------------------------------------------------------------------------
(* The list of datagrams in reassembly.  An entry has its fragments in     *)
(* order; first says that iphdr is the header of the fragment at offset 0. *)

\* the pbufs that the entries S hold, and pbuf_clen() over their fragments
Bufs(l, S) ==
    UNION {UNION {{<<i, j, c>> : c \in 1 .. l[i].frags[j].clen} : j \in DOMAIN l[i].frags} : i \in S}
Pbufs(l, S) == Cardinality(Bufs(l, S))

\* the entries S, in the order of the list
Keep(l, S) ==
    LET n == Cardinality(S)
        at == CHOOSE h \in [1 .. n -> S] : \A a, b \in 1 .. n : a < b => h[a] < h[b]
    IN  [k \in 1 .. n |-> l[at[k]]]

EntryOf(l, id) == {i \in DOMAIN l : l[i].id = id}

\* Faulty: the first fragment, which an ICMP message has taken, is not counted
FreeDatagramFirst(r, S) ==
    [list  |-> Keep(r.list, DOMAIN r.list \ S),
     count |-> r.count - Cardinality({b \in Bufs(r.list, S) :
                                          r.list[b[1]].frags[b[2]].start > 0})]

\* ip_reass_free_complete_datagram(), for each of the entries S
FreeDatagram(r, S) ==
    [list |-> Keep(r.list, DOMAIN r.list \ S), count |-> r.count - Pbufs(r.list, S)]

\* all entries but that of the fragment that needs the space
Others(l, id) == DOMAIN l \ EntryOf(l, id)

\* which of two entries ip_reass_remove_oldest_datagram() takes first: the one
\* with the smaller timer, or the one behind the other
Older(l, i, j) == l[i].timer < l[j].timer \/ (l[i].timer = l[j].timer /\ i > j)

\* its loop takes the oldest of the others until that has freed what is needed:
\* an entry goes if those that went before it were too few
Evicted(l, id, needed) ==
    {i \in Others(l, id) : Pbufs(l, {j \in Others(l, id) : Older(l, j, i)}) < needed}

\* ip_reass_remove_oldest_datagram(); freed is what it returns
RemoveOldest(r, id, needed) ==
    LET S == Evicted(r.list, id, needed)
    IN  [r |-> FreeDatagram(r, S), freed |-> Pbufs(r.list, S)]

\* ip_reass_enqueue_new_datagram(): the list with a new entry in front, if
\* there is a struct ip_reassdata for it
Enqueue(r, id, first, clen) ==
    LET e == [id |-> id, timer |-> MaxAge, first |-> first, frags |-> <<>>, last |-> FALSE, len |-> 0]
        ev == RemoveOldest(r, id, clen)
    IN  IF Len(r.list) < NumReass THEN [r EXCEPT !.list = <<e>> \o @]
        ELSE IF ev.freed >= clen THEN [ev.r EXCEPT !.list = <<e>> \o @]
        ELSE ev.r

-----------------------------------------------------------------------------
(* ip_reass_chain_frag_into_datagram_and_validate().                       *)

\* where the walk stops: behind the fragments that start before the new one
Place(fs, p) == Cardinality({i \in DOMAIN fs : fs[i].start < p.start})

\* the new fragment is dropped: same start as another, or overlap
Overlaps(fs, p) ==
    \/ \E i \in DOMAIN fs : fs[i].start <= p.start /\ (p.start = fs[i].start \/ p.start < fs[i].end)
    \/ Place(fs, p) < Len(fs) /\ p.end > fs[Place(fs, p) + 1].start

Chain(fs, p) ==
    LET n == Place(fs, p)
    IN  [i \in 1 .. Len(fs) + 1 |-> IF i <= n THEN fs[i] ELSE IF i = n + 1 THEN p ELSE fs[i - 1]]

\* Faulty: holes behind the new fragment go unnoticed
FinishedBefore(fs, p) ==
    LET n == Place(fs, p) IN
    /\ \A i \in 1 .. n : Chain(fs, p)[i].end = Chain(fs, p)[i + 1].start
    /\ Chain(fs, p)[1].start = 0

\* Faulty: only looks when the new fragment goes to the end
FinishedAtEnd(fs, p) ==
    /\ Place(fs, p) = Len(fs)
    /\ \A i \in 1 .. Len(fs) : Chain(fs, p)[i].end = Chain(fs, p)[i + 1].start
    /\ Chain(fs, p)[1].start = 0

\* "valid": no hole on the walk to the new fragment, the first one at offset
\* 0, and no hole from the new fragment on
Finished(fs, p) ==
    LET n == Place(fs, p)
        new == Chain(fs, p)
    IN  /\ \A i \in 1 .. n : new[i].end = new[i + 1].start
        /\ new[1].start = 0
        /\ \A i \in n + 1 .. Len(fs) : new[i].end = new[i + 1].start

-----------------------------------------------------------------------------
(* ip4_reass() and ip_reass_tmr().                                         *)

\* nullreturn_ipr: an entry that was made for the dropped fragment goes, too
Drop(r, i) ==
    IF r.list[i].frags = <<>> THEN [r EXCEPT !.list = Keep(@, DOMAIN @ \ {i})] ELSE r

\* the fragment is queued in entry i; is the datagram complete?
Queued(r, i, f, clen) ==
    LET p == [start |-> f.start, end |-> f.end, clen |-> clen]
        e == r.list[i]
        e1 == [e EXCEPT !.frags = Chain(@, p),
                        !.last = @ \/ ~f.mf,
                        !.len = IF f.mf THEN @ ELSE f.end]
        l1 == [r.list EXCEPT ![i] = e1]
        done == e1.last /\ Finished(e.frags, p)
    IN  [list  |-> IF done THEN Keep(l1, DOMAIN l1 \ {i}) ELSE l1,
         count |-> IF done THEN r.count + clen - Pbufs(l1, {i}) ELSE r.count + clen,
         out   |-> IF done THEN {[id |-> f.id, len |-> e1.len, frags |-> e1.frags]} ELSE {}]

\* the fragment finds its entry, and becomes its header if it is the first, or
\* gets a new one
EnsureEntry(r, f, clen) ==
    LET WithHeader(e) == [e EXCEPT !.first = @ \/ (e.id = f.id /\ f.start = 0)]
    IN  IF EntryOf(r.list, f.id) = {} THEN Enqueue(r, f.id, f.start = 0, clen)
        ELSE [r EXCEPT !.list = [i \in DOMAIN @ |-> WithHeader(@[i])]]

\* ip4_reass() returns NULL
Nothing(r) == [list |-> r.list, count |-> r.count, out |-> {}]

Reass(f, clen) ==
    LET r0 == [list |-> list, count |-> count]
        full == count + clen > MaxPbufs
        ev == RemoveOldest(r0, f.id, clen)
        r1 == IF full THEN ev.r ELSE r0
        r2 == EnsureEntry(r1, f, clen)
        i == CHOOSE k \in EntryOf(r2.list, f.id) : TRUE
        bad == \/ ~f.mf /\ f.end > MaxU16 - HLen
               \/ f.end > MaxU16
               \/ Overlaps(r2.list[i].frags, f)
    IN  IF full /\ (ev.freed = 0 \/ r1.count + clen > MaxPbufs) THEN Nothing(r1)
        ELSE IF EntryOf(r2.list, f.id) = {} THEN Nothing(r2)
        ELSE IF bad THEN Nothing(Drop(r2, i))
        ELSE Queued(r2, i, f, clen)

Input(f) ==
    \E clen \in Clens :
        LET r == Reass(f, clen)
        IN  /\ list' = r.list
            /\ count' = r.count
            /\ out' = r.out
            /\ UNCHANGED <<len, net>>

\* Faulty: an entry that timed out starts over
TmrRestarts ==
    /\ list # <<>>
    /\ list' = [i \in DOMAIN list |-> [list[i] EXCEPT !.timer = IF @ = 0 THEN MaxAge ELSE @ - 1]]
    /\ out' = {}
    /\ UNCHANGED <<len, net, count>>

\* ip_reass_tmr(), every second
Tmr ==
    LET r == FreeDatagram([list |-> list, count |-> count], {i \in DOMAIN list : list[i].timer = 0})
    IN  /\ list # <<>>
        /\ list' = [i \in DOMAIN r.list |-> [r.list[i] EXCEPT !.timer = @ - 1]]
        /\ count' = r.count
        /\ out' = {}
        /\ UNCHANGED <<len, net>>

-----------------------------------------------------------------------------

Init ==
    /\ len = [id \in Ids |-> 0]
    /\ net = Foreign
    /\ list = <<>>
    /\ count = 0
    /\ out = {}

Next ==
    \/ \E id \in Ids, n \in Lens : Send(id, n)
    \/ \E f \in net : Input(f)
    \/ Tmr

Spec == Init /\ [][Next]_vars

\* sys_check_timeouts() calls ip_reass_tmr() every IP_TMR_INTERVAL
FairSpec == Spec /\ WF_vars(Tmr)

-----------------------------------------------------------------------------
(* Properties.                                                             *)

Span(q) == q.start .. q.end - 1
Spans(fs) == UNION {Span(fs[i]) : i \in DOMAIN fs}
Disjoint(fs) == \A i, j \in DOMAIN fs : i < j => fs[i].end <= fs[j].start

\* The list has at most MEMP_NUM_REASSDATA entries, one per datagram, none of
\* them empty (ip_reass_free_complete_datagram() reads ipr->p->payload), and the
\* fragments of each are in order and apart; ipr->iphdr is the header of the
\* fragment at offset 0 once that is there, which is what ICMP time exceeded and
\* the reassembled datagram are given.  The entries are in the order of their age,
\* so that the oldest is the last one.
QueueShape ==
    /\ Len(list) <= NumReass
    /\ \A i, j \in DOMAIN list : list[i].id = list[j].id => i = j
    /\ \A i \in DOMAIN list : list[i].frags # <<>> /\ Disjoint(list[i].frags)
    /\ \A i \in DOMAIN list : list[i].frags[1].start = 0 => list[i].first
    /\ \A i, j \in DOMAIN list : i < j => list[i].timer >= list[j].timer

\* ip_reass_pbufcount is the number of pbufs in the list whatever was evicted,
\* timed out, dropped or handed over, and stays within IP_REASS_MAX_PBUFS.
PbufsCounted ==
    /\ count = Pbufs(list, DOMAIN list)
    /\ count \in 0 .. MaxPbufs

\* List and counter together: an entry that is malformed, or counted wrongly, makes
\* a later eviction free too little or take the counter below zero.
ListSound == QueueShape /\ PbufsCounted

\* No datagram of which everything is here is left in the list: the walk over
\* the fragments misses no completion, whatever the order of arrival.
NothingCompleteWaits ==
    \A i \in DOMAIN list :
        ~(list[i].last /\ Spans(list[i].frags) = 0 .. list[i].len - 1)

\* What ip4_reass() returns has no byte twice, and of what ip4_frag() sent it is
\* the datagram: its length, every byte of it.
DeliveredIsSent ==
    \A d \in out :
        /\ Disjoint(d.frags)
        /\ d.id \in Ids => d.len = len[d.id] /\ Spans(d.frags) = 0 .. d.len - 1

\* Every entry leaves the list: the timer is not restarted by fragments that
\* keep coming, so incomplete datagrams do not hold pbufs for ever.
EntryLeaves ==
    \A id \in Ids : (EntryOf(list, id) # {}) ~> (EntryOf(list, id) = {})

=============================================================================
