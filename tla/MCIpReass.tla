----------------------------- MODULE MCIpReass -----------------------------
(***************************************************************************)
(* Values of the constants of IpReass for model checking, and the loop of  *)
(* ip_reass_remove_oldest_datagram() as it is written.                     *)
(***************************************************************************)
EXTENDS IpReass

\* a last fragment that ends behind 0xFFFF - IP_HLEN, and one that wraps
MCForeign ==
    {[id |-> "big", start |-> 10, end |-> 13, mf |-> FALSE],
     [id |-> "big", start |-> 12, end |-> 16, mf |-> TRUE]}

\* do { ... } while ((pbufs_freed < pbufs_needed) && (other_datagrams > 1))
RECURSIVE RemoveOldestLoop(_, _, _, _)
RemoveOldestLoop(r, id, needed, freed) ==
    LET others == Others(r.list, id)
        i == CHOOSE k \in others : \A j \in others \ {k} : Older(r.list, k, j)
        now == freed + Pbufs(r.list, {i})
        r1 == FreeDatagram(r, {i})
    IN  IF others = {} THEN [r |-> r, freed |-> freed]
        ELSE IF now < needed /\ Cardinality(others) > 1 THEN RemoveOldestLoop(r1, id, needed, now)
        ELSE [r |-> r1, freed |-> now]

\* lists of up to three entries of one fragment, of any age
SmallLists ==
    {l \in UNION {[1 .. n -> [id : {1, 2, 3}, timer : 0 .. 1, frags : {<<[start |-> 0, clen |-> c]>> : c \in 1 .. 3}]]
                    : n \in 0 .. 3} :
        \A i \in DOMAIN l : l[i].id = i}

\* RemoveOldest, which says at once which entries go, is what the loop does.
ASSUME EvictionAssumption ==
    \A l \in SmallLists, id \in 0 .. 3, needed \in 1 .. 4 :
        LET r == [list |-> l, count |-> Pbufs(l, DOMAIN l)]
        IN  RemoveOldest(r, id, needed) = RemoveOldestLoop(r, id, needed, 0)

=============================================================================
