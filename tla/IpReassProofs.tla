--------------------------- MODULE IpReassProofs ---------------------------
(***************************************************************************)
(* Reassembly for any number and length of datagrams, any fragments of     *)
(* other senders and any limits: the list and its counter agree, nothing   *)
(* complete waits, and what is delivered is what was sent.                 *)
(***************************************************************************)
EXTENDS IpReass, FiniteSetTheorems, TLAPS

-----------------------------------------------------------------------------
(* Positions in a list.                                                    *)

\* A non-empty set of naturals has a least element.
LEMMA Least ==
    ASSUME NEW S \in SUBSET Nat, S # {}
    PROVE  \E x \in S : \A y \in S : x <= y
<1> DEFINE R == OpToRel(<, Nat)
<1>1. IsWellFoundedOn(R, Nat)
  BY NatLessThanWellFounded, Zenon
<1>2. \A x, y \in Nat : <<x, y>> \in R <=> x < y
  BY Zenon DEF OpToRel
<1> HIDE DEF R
<1>3. \E x \in S : \A y \in S : ~(<<y, x>> \in R)
  BY <1>1, WFMin, Zenon
<1>4. PICK x \in S : \A y \in S : ~(<<y, x>> \in R)
  BY <1>3, Zenon
<1>5. \A y \in S : ~(y < x)
  BY <1>2, <1>4, Zenon
<1>6. \A y \in S : x <= y
  BY <1>5
<1> QED
  BY <1>6, Zenon

\* h goes through n numbers in ascending order.
Ascending(h, n) == \A a, b \in 1 .. n : a < b => h[a] < h[b]

\* A set of positions can be gone through in ascending order.
Listable(S) == \E h \in [1 .. Cardinality(S) -> S] : Ascending(h, Cardinality(S))

\* One position more, behind the others.
LEMMA ListableNext ==
    ASSUME NEW m \in Nat, NEW S \in SUBSET (1 .. m), Listable(S)
    PROVE  Listable(S \cup {m + 1})
<1> DEFINE n == Cardinality(S)
<1> DEFINE T == S \cup {m + 1}
<1>1. IsFiniteSet(S)
  <2>1. 1 \in Int /\ m \in Int
    OBVIOUS
  <2>2. IsFiniteSet(1 .. m)
    BY <2>1, FS_Interval, Zenon
  <2> QED
    BY <2>2, FS_Subset, Zenon
<1>2. n \in Nat
  BY <1>1, FS_CardinalityType
<1>3. Cardinality(T) = n + 1
  BY <1>1, FS_AddElement
<1>4. PICK h \in [1 .. n -> S] : Ascending(h, n)
  BY DEF Listable
<1> HIDE DEF n
<1> DEFINE g == [a \in 1 .. n + 1 |-> IF a <= n THEN h[a] ELSE m + 1]
<1>5. g \in [1 .. n + 1 -> T]
  BY <1>2
<1>6. Ascending(g, n + 1)
  <2> SUFFICES ASSUME NEW a \in 1 .. n + 1, NEW b \in 1 .. n + 1, a < b PROVE g[a] < g[b]
    BY DEF Ascending
  <2>0. a \in 1 .. n /\ a <= n
    BY <1>2
  <2>1. h[a] \in 1 .. m /\ g[a] = h[a]
    BY <2>0, Zenon
  <2>2. CASE b \in 1 .. n
    BY <1>2, <1>4, <2>0, <2>1, <2>2 DEF Ascending
  <2>3. CASE b = n + 1
    BY <1>2, <2>1, <2>3
  <2> QED
    BY <1>2, <2>2, <2>3
<1> QED
  BY <1>3, <1>5, <1>6, Zenon DEF Listable

\* Every set of positions can be gone through in ascending order: otherwise there
\* is a shortest list that has a set which cannot.
LEMMA AllListable ==
    ASSUME NEW m \in Nat, NEW S \in SUBSET (1 .. m)
    PROVE  Listable(S)
<1> DEFINE Bad == {k \in Nat : \E T \in SUBSET (1 .. k) : ~Listable(T)}
<1>1. SUFFICES ASSUME Bad # {} PROVE FALSE
  OBVIOUS
<1>2. PICK k \in Bad : \A y \in Bad : k <= y
  BY <1>1, Least, Zenon
<1>3. PICK T \in SUBSET (1 .. k) : ~Listable(T)
  OBVIOUS
<1>4. CASE k = 0
  <2>1. T = {}
    BY <1>4
  <2>2. Cardinality(T) = 0
    BY <2>1, FS_EmptySet
  <2>3. [a \in 1 .. 0 |-> 0] \in [1 .. 0 -> T]
    OBVIOUS
  <2>4. Ascending([a \in 1 .. 0 |-> 0], 0)
    BY DEF Ascending
  <2> QED
    BY <1>3, <2>2, <2>3, <2>4, Zenon DEF Listable
<1>5. CASE k # 0
  <2>1. k - 1 \in Nat /\ k - 1 \notin Bad
    BY <1>2, <1>5
  <2>2. T \ {k} \in SUBSET (1 .. k - 1)
    BY <1>5
  <2>3. Listable(T \ {k})
    BY <2>1, <2>2
  <2>4. Listable((T \ {k}) \cup {k})
    BY <2>1, <2>2, <2>3, ListableNext
  <2>5. T = (T \ {k}) \cup {k} \/ T = T \ {k}
    OBVIOUS
  <2> QED
    BY <1>3, <2>3, <2>4, <2>5
<1> QED
  BY <1>4, <1>5

\* h shows which entries of l are those of k = Keep(l, S).
KeptBy(h, k, l, S) ==
    /\ h \in [1 .. Len(k) -> S]
    /\ Ascending(h, Len(k))
    /\ \A i \in S : \E a \in 1 .. Len(k) : h[a] = i
    /\ \A a \in 1 .. Len(k) : k[a] = l[h[a]]

\* What the list has left of its entries, in their order and no other.
LEMMA KeepIs ==
    ASSUME NEW E, NEW l \in Seq(E), NEW S \in SUBSET DOMAIN l
    PROVE  /\ Keep(l, S) \in Seq(E)
           /\ Len(Keep(l, S)) = Cardinality(S)
           /\ Cardinality(S) <= Len(l)
           /\ S # DOMAIN l => Cardinality(S) < Len(l)
           /\ \E h : KeptBy(h, Keep(l, S), l, S)
<1> DEFINE n == Cardinality(S)
<1> DEFINE h == CHOOSE g \in [1 .. n -> S] : \A a, b \in 1 .. n : a < b => g[a] < g[b]
<1>0. DOMAIN l = 1 .. Len(l) /\ Len(l) \in Nat
  OBVIOUS
<1>1. /\ IsFiniteSet(DOMAIN l) /\ Cardinality(DOMAIN l) = Len(l)
  <2>1. 1 \in Int /\ Len(l) \in Int
    BY <1>0
  <2>2. IsFiniteSet(1 .. Len(l)) /\ Cardinality(1 .. Len(l)) = IF 1 > Len(l) THEN 0 ELSE Len(l) - 1 + 1
    BY <2>1, FS_Interval, Zenon
  <2>3. (IF 1 > Len(l) THEN 0 ELSE Len(l) - 1 + 1) = Len(l)
    BY <1>0
  <2> QED
    BY <1>0, <2>2, <2>3, Zenon
<1>2. IsFiniteSet(S) /\ n <= Len(l) /\ (S # DOMAIN l => n # Len(l))
  BY <1>1, FS_Subset
<1>3. n \in Nat
  BY <1>2, FS_CardinalityType
<1>4. Listable(S)
  BY <1>0, AllListable, Zenon
<1>5. h \in [1 .. n -> S] /\ Ascending(h, n)
  BY <1>4, Zenon DEF Listable, Ascending
<1>6. Keep(l, S) = [k \in 1 .. n |-> l[h[k]]]
  BY DEF Keep
<1> HIDE DEF h, n
<1>7. Keep(l, S) \in Seq(E) /\ Len(Keep(l, S)) = n
  BY <1>0, <1>3, <1>5, <1>6
<1>8. h \in Injection(1 .. n, S)
  BY <1>3, <1>5, <1>0 DEF Injection, IsInjective, Ascending
<1>9. Cardinality(1 .. n) = n
  BY <1>3, FS_Interval
<1>10. h \in Surjection(1 .. n, S)
  BY <1>2, <1>8, <1>9, FS_Injection DEF n
<1>11. KeptBy(h, Keep(l, S), l, S)
  BY <1>5, <1>6, <1>7, <1>10, Zenon DEF KeptBy, Surjection
<1> QED
  BY <1>2, <1>3, <1>7, <1>11 DEF n

-----------------------------------------------------------------------------
(* Pbufs of the entries.                                                   *)

\* A pbuf has an entry, a fragment of it and a place in that.
IsBuf(x, l, S) ==
    /\ x = <<x[1], x[2], x[3]>>
    /\ x[1] \in S
    /\ x[2] \in DOMAIN l[x[1]].frags
    /\ x[3] \in 1 .. l[x[1]].frags[x[2]].clen

\* These are the pbufs of the entries S.
LEMMA BufsAre ==
    ASSUME NEW l, NEW S, NEW x
    PROVE  x \in Bufs(l, S) <=> IsBuf(x, l, S)
<1>1. ASSUME x \in Bufs(l, S) PROVE IsBuf(x, l, S)
  <2>1. PICK i \in S : x \in UNION {{<<i, j, c>> : c \in 1 .. l[i].frags[j].clen} : j \in DOMAIN l[i].frags}
    BY <1>1, Zenon DEF Bufs
  <2>2. PICK j \in DOMAIN l[i].frags : x \in {<<i, j, c>> : c \in 1 .. l[i].frags[j].clen}
    BY <2>1, Zenon
  <2>3. PICK c \in 1 .. l[i].frags[j].clen : x = <<i, j, c>>
    BY <2>2, Zenon
  <2>4. x[1] = i /\ x[2] = j /\ x[3] = c
    BY <2>3
  <2> QED
    BY <2>3, <2>4, Zenon DEF IsBuf
<1>2. ASSUME IsBuf(x, l, S) PROVE x \in Bufs(l, S)
  <2>1. x \in {<<x[1], x[2], c>> : c \in 1 .. l[x[1]].frags[x[2]].clen}
    BY <1>2, Zenon DEF IsBuf
  <2> DEFINE Of(i) == UNION {{<<i, j, c>> : c \in 1 .. l[i].frags[j].clen} : j \in DOMAIN l[i].frags}
  <2>2. x \in Of(x[1])
    BY <1>2, <2>1, Zenon DEF IsBuf
  <2>3. Bufs(l, S) = UNION {Of(i) : i \in S}
    BY Zenon DEF Bufs
  <2> HIDE DEF Of
  <2>4. x[1] \in S
    BY <1>2, Zenon DEF IsBuf
  <2> QED
    BY <2>2, <2>3, <2>4, Zenon
<1> QED
  BY <1>1, <1>2, Zenon

\* T and U make up S.
Parts(S, T, U) == T \subseteq S /\ U = S \ T

\* The pbufs of two sets of entries that make up a third one.
LEMMA BufsSplit ==
    ASSUME NEW l, NEW S, NEW T, NEW U, Parts(S, T, U), IsFiniteSet(Bufs(l, S))
    PROVE  /\ IsFiniteSet(Bufs(l, T)) /\ IsFiniteSet(Bufs(l, U))
           /\ Pbufs(l, T) \in Nat /\ Pbufs(l, U) \in Nat
           /\ Pbufs(l, S) = Pbufs(l, T) + Pbufs(l, U)
<1> DEFINE A == Bufs(l, T)
<1> DEFINE B == Bufs(l, U)
<1>0. \A x : /\ x \in A <=> IsBuf(x, l, T)
             /\ x \in B <=> IsBuf(x, l, U)
             /\ x \in Bufs(l, S) <=> IsBuf(x, l, S)
  BY BufsAre, Zenon
<1> HIDE DEF A, B
<1>s. \A i : (i \in S <=> i \in T \/ i \in U) /\ ~(i \in T /\ i \in U)
  BY Zenon DEF Parts
<1>1. A \subseteq Bufs(l, S) /\ B \subseteq Bufs(l, S)
  BY <1>0, <1>s, Zenon DEF IsBuf
<1>2. Bufs(l, S) = A \cup B
  BY <1>0, <1>s, Zenon DEF IsBuf
<1>3. A \cap B = {}
  BY <1>0, <1>s, Zenon DEF IsBuf
<1>4. IsFiniteSet(A) /\ IsFiniteSet(B)
  BY <1>1, FS_Subset, Zenon
<1>5. Cardinality(A) \in Nat /\ Cardinality(B) \in Nat
  BY <1>4, FS_CardinalityType, Zenon
<1>6. Cardinality(A \cup B) = Cardinality(A) + Cardinality(B) - Cardinality(A \cap B)
  BY <1>4, FS_Union, Zenon
<1>7. Cardinality(A \cap B) = 0
  BY <1>3, FS_EmptySet, Zenon
<1>8. Cardinality(A \cup B) = Cardinality(A) + Cardinality(B)
  BY <1>5, <1>6, <1>7
<1> QED
  BY <1>2, <1>4, <1>5, <1>8, Zenon DEF Pbufs, A, B

\* Two sets that correspond to each other have the same size.
LEMMA SameSize ==
    ASSUME NEW A, NEW B, IsFiniteSet(B), NEW g \in [A -> B],
           \A x, y \in A : g[x] = g[y] => x = y,
           \A y \in B : \E x \in A : g[x] = y
    PROVE  IsFiniteSet(A) /\ Cardinality(A) = Cardinality(B)
<1>1. g \in Injection(A, B)
  BY Zenon DEF Injection, IsInjective
<1>2. g \in Surjection(A, B)
  BY Zenon DEF Surjection
<1> QED
  BY <1>1, <1>2, FS_Injection, Zenon

\* The entries that stay in the list keep their pbufs.
LEMMA KeepBufs ==
    ASSUME NEW E, NEW l \in Seq(E), NEW S \in SUBSET DOMAIN l, IsFiniteSet(Bufs(l, S)),
           NEW k, k = Keep(l, S)
    PROVE  IsFiniteSet(Bufs(k, DOMAIN k)) /\ Pbufs(k, DOMAIN k) = Pbufs(l, S)
<1>1. DOMAIN k = 1 .. Len(k)
  BY KeepIs
<1>2. PICK h : KeptBy(h, k, l, S)
  BY KeepIs
<1>3. /\ \A a \in DOMAIN k : h[a] \in S /\ k[a] = l[h[a]]
      /\ \A i \in S : \E a \in DOMAIN k : h[a] = i
  BY <1>1, <1>2 DEF KeptBy
<1>4. \A a, b \in DOMAIN k : h[a] = h[b] => a = b
  <2>1. S \subseteq Nat
    OBVIOUS
  <2>2. Len(k) \in Nat
    BY KeepIs
  <2> QED
    BY <1>1, <1>2, <2>1, <2>2 DEF KeptBy, Ascending
<1> DEFINE A == Bufs(k, DOMAIN k)
<1> DEFINE g == [x \in A |-> <<h[x[1]], x[2], x[3]>>]
<1>5. \A a, j, c : <<a, j, c>>[1] = a /\ <<a, j, c>>[2] = j /\ <<a, j, c>>[3] = c
  OBVIOUS
<1>6. ASSUME NEW x \in A
      PROVE  /\ x = <<x[1], x[2], x[3]>> /\ x[1] \in DOMAIN k
             /\ g[x] = <<h[x[1]], x[2], x[3]>> /\ g[x] \in Bufs(l, S)
  <2>1. IsBuf(x, k, DOMAIN k)
    BY BufsAre, Zenon
  <2>2. g[x] = <<h[x[1]], x[2], x[3]>>
    BY Zenon
  <2> HIDE DEF g
  <2>3. g[x][1] = h[x[1]] /\ g[x][2] = x[2] /\ g[x][3] = x[3]
    BY <2>2
  <2>4. h[x[1]] \in S /\ k[x[1]] = l[h[x[1]]]
    BY <1>3, <2>1, Zenon DEF IsBuf
  <2>5. IsBuf(g[x], l, S)
    BY <2>1, <2>2, <2>3, <2>4, Zenon DEF IsBuf
  <2>6. g[x] \in Bufs(l, S)
    BY <2>5, BufsAre, Zenon
  <2> QED
    BY <2>1, <2>2, <2>6, Zenon DEF IsBuf
<1>7. g \in [A -> Bufs(l, S)]
  BY <1>6, Zenon
<1>8. ASSUME NEW x \in A, NEW y \in A, g[x] = g[y] PROVE x = y
  <2>1. <<h[x[1]], x[2], x[3]>> = <<h[y[1]], y[2], y[3]>>
    BY <1>6, <1>8, Zenon
  <2>2. h[x[1]] = h[y[1]] /\ x[2] = y[2] /\ x[3] = y[3]
    BY <2>1
  <2>3. x[1] = y[1]
    BY <1>4, <1>6, <2>2, Zenon
  <2> QED
    BY <1>6, <2>2, <2>3, Zenon
<1>9. ASSUME NEW y \in Bufs(l, S) PROVE \E x \in A : g[x] = y
  <2>1. IsBuf(y, l, S)
    BY BufsAre, Zenon
  <2>2. PICK a \in DOMAIN k : h[a] = y[1]
    BY <1>3, <2>1, Zenon DEF IsBuf
  <2>3. k[a] = l[y[1]]
    BY <1>3, <2>2, Zenon
  <2> DEFINE x == <<a, y[2], y[3]>>
  <2>4. x[1] = a /\ x[2] = y[2] /\ x[3] = y[3]
    BY <1>5, Zenon
  <2>5. IsBuf(x, k, DOMAIN k)
    BY <2>1, <2>3, <2>4, Zenon DEF IsBuf
  <2>6. x \in A
    BY <2>5, BufsAre, Zenon
  <2>7. g[x] = y
    BY <2>1, <2>2, <2>4, <2>6, <1>6, Zenon DEF IsBuf
  <2> QED
    BY <2>6, <2>7, Zenon
<1> HIDE DEF g, A
<1>10. IsFiniteSet(A) /\ Cardinality(A) = Cardinality(Bufs(l, S))
  BY <1>7, <1>8, <1>9, SameSize, Zenon
<1> QED
  BY <1>10, Zenon DEF Pbufs, A

-----------------------------------------------------------------------------
(* The fragments of an entry.                                              *)

Frag == [start : Nat, end : Nat, clen : Nat \ {0}]

\* The fragments of an entry carry data and are in order and apart.
Ordered(fs) ==
    /\ fs \in Seq(Frag)
    /\ Disjoint(fs)
    /\ \A i \in DOMAIN fs : fs[i].start < fs[i].end

\* There is no hole between the fragments, nor before the first one.
Whole(fs) == fs[1].start = 0 /\ \A i \in 1 .. Len(fs) - 1 : fs[i].end = fs[i + 1].start

\* The walk over the fragments stops between those that start before the new one
\* and those that do not.
LEMMA PlaceIs ==
    ASSUME NEW fs, Ordered(fs), NEW p, p.start \in Nat
    PROVE  /\ Place(fs, p) \in 0 .. Len(fs)
           /\ \A i \in DOMAIN fs : i <= Place(fs, p) <=> fs[i].start < p.start
<1> DEFINE T == {i \in DOMAIN fs : fs[i].start < p.start}
<1> DEFINE U == {m \in Nat : m >= 1 /\ m \notin T}
<1>0. fs \in Seq(Frag) /\ Len(fs) \in Nat /\ DOMAIN fs = 1 .. Len(fs)
  BY DEF Ordered
<1>1. \A i \in DOMAIN fs : fs[i].start \in Nat /\ fs[i].end \in Nat
  <2>1. \A i \in DOMAIN fs : fs[i] \in Frag
    BY <1>0
  <2> QED
    BY <2>1 DEF Frag
<1>2. \A i, j \in DOMAIN fs : i < j => fs[i].start < fs[j].start
  BY <1>0, <1>1 DEF Ordered, Disjoint
<1>3. Len(fs) + 1 \in U
  BY <1>0
<1>4. PICK m \in U : \A y \in U : m <= y
  BY <1>3, Least, Zenon
<1>5. \A i \in DOMAIN fs : i \in T <=> i < m
  <2> SUFFICES ASSUME NEW i \in DOMAIN fs PROVE i \in T <=> i < m
    OBVIOUS
  <2>1. CASE i < m
    <3>1. i \notin U
      BY <1>0, <1>4, <2>1
    <3> QED
      BY <1>0, <2>1, <3>1
  <2>2. CASE i = m
    BY <1>4, <2>2
  <2>3. CASE i > m
    <3>1. m \in DOMAIN fs /\ m \notin T
      BY <1>0, <1>4, <2>3
    <3>2. fs[m].start < fs[i].start /\ ~(fs[m].start < p.start)
      BY <1>2, <2>3, <3>1
    <3> QED
      BY <1>0, <1>1, <2>3, <3>1, <3>2
  <2> QED
    BY <1>0, <2>1, <2>2, <2>3
<1>6. m \in 1 .. Len(fs) + 1
  BY <1>0, <1>3, <1>4
<1>7. T = 1 .. m - 1
  BY <1>0, <1>5, <1>6
<1>8. Cardinality(1 .. m - 1) = m - 1
  <2>1. 1 \in Int /\ m - 1 \in Int
    OBVIOUS
  <2>2. Cardinality(1 .. m - 1) = IF 1 > m - 1 THEN 0 ELSE m - 1 - 1 + 1
    BY <2>1, FS_Interval, Zenon
  <2> QED
    BY <1>6, <2>2
<1>9. Place(fs, p) = m - 1
  BY <1>7, <1>8, Zenon DEF Place
<1>10. \A i \in DOMAIN fs : i \in T <=> fs[i].start < p.start
  OBVIOUS
<1> HIDE DEF T, U
<1> QED
  BY <1>0, <1>5, <1>6, <1>9, <1>10

\* The new fragment goes into its place.
LEMMA ChainIs ==
    ASSUME NEW fs, Ordered(fs), NEW p \in Frag, p.start < p.end, ~Overlaps(fs, p),
           NEW new, new = Chain(fs, p), NEW n, n = Place(fs, p)
    PROVE  /\ Ordered(new) /\ Len(new) = Len(fs) + 1 /\ n \in 0 .. Len(fs)
           /\ \A i \in 1 .. Len(fs) + 1 :
                 new[i] = IF i <= n THEN fs[i] ELSE IF i = n + 1 THEN p ELSE fs[i - 1]
<1>0. fs \in Seq(Frag) /\ Len(fs) \in Nat /\ DOMAIN fs = 1 .. Len(fs)
  BY DEF Ordered
<1>1. p.start \in Nat /\ p.end \in Nat
  BY DEF Frag
<1>2. n \in 0 .. Len(fs) /\ \A i \in DOMAIN fs : i <= n <=> fs[i].start < p.start
  BY <1>1, PlaceIs
<1>3. new = [i \in 1 .. Len(fs) + 1 |-> IF i <= n THEN fs[i] ELSE IF i = n + 1 THEN p ELSE fs[i - 1]]
  BY DEF Chain
<1>4. new \in Seq(Frag) /\ Len(new) = Len(fs) + 1 /\ DOMAIN new = 1 .. Len(fs) + 1
  <2>1. \A i \in 1 .. Len(fs) + 1 : new[i] \in Frag
    BY <1>0, <1>2, <1>3
  <2> QED
    BY <1>0, <1>3, <2>1
<1>5. \A i \in DOMAIN fs : fs[i].start \in Nat /\ fs[i].end \in Nat /\ fs[i].start < fs[i].end
  <2>1. \A i \in DOMAIN fs : fs[i] \in Frag
    BY <1>0
  <2> QED
    BY <2>1 DEF Frag, Ordered
<1>6. \A i, j \in DOMAIN fs : i < j => fs[i].end <= fs[j].start
  BY DEF Ordered, Disjoint
<1>7. \A i \in DOMAIN fs : i <= n => fs[i].end <= p.start
  BY <1>1, <1>2, <1>5 DEF Overlaps
<1>8. \A i \in DOMAIN fs : i > n => p.end <= fs[i].start
  <2> SUFFICES ASSUME NEW i \in DOMAIN fs, i > n PROVE p.end <= fs[i].start
    OBVIOUS
  <2>1. n + 1 \in DOMAIN fs /\ n < Len(fs)
    BY <1>0, <1>2
  <2>2. ~(p.end > fs[n + 1].start)
    BY <2>1 DEF Overlaps
  <2>3. p.end <= fs[n + 1].start
    BY <1>1, <1>5, <2>1, <2>2
  <2>4. i = n + 1 \/ fs[n + 1].end <= fs[i].start
    BY <1>0, <1>2, <1>6, <2>1
  <2> QED
    BY <1>1, <1>5, <2>1, <2>3, <2>4
<1>9. Disjoint(new)
  <2> SUFFICES ASSUME NEW i \in DOMAIN new, NEW j \in DOMAIN new, i < j PROVE new[i].end <= new[j].start
    BY DEF Disjoint
  <2>1. CASE j <= n
    BY <1>0, <1>2, <1>3, <1>4, <1>6, <2>1
  <2>2. CASE j = n + 1
    BY <1>0, <1>2, <1>3, <1>4, <1>7, <2>2
  <2>3. CASE j > n + 1
    <3>1. new[j] = fs[j - 1] /\ j - 1 \in DOMAIN fs
      BY <1>0, <1>2, <1>3, <1>4, <2>3
    <3>2. CASE i <= n
      <4>1. new[i] = fs[i] /\ i \in DOMAIN fs /\ i < j - 1
        BY <1>0, <1>2, <1>3, <1>4, <2>3, <3>2
      <4> QED
        BY <1>6, <3>1, <4>1
    <3>3. CASE i = n + 1
      <4>1. new[i] = p
        BY <1>0, <1>2, <1>3, <1>4, <3>3
      <4>2. j - 1 > n
        BY <1>2, <1>4, <2>3
      <4> QED
        BY <1>8, <3>1, <4>1, <4>2
    <3>4. CASE i > n + 1
      <4>1. new[i] = fs[i - 1] /\ i - 1 \in DOMAIN fs /\ i - 1 < j - 1
        BY <1>0, <1>2, <1>3, <1>4, <3>4
      <4> QED
        BY <1>6, <3>1, <4>1
    <3> QED
      BY <1>2, <1>4, <3>2, <3>3, <3>4
  <2> QED
    BY <1>2, <1>4, <2>1, <2>2, <2>3
<1>10. \A i \in DOMAIN new : new[i].start < new[i].end
  BY <1>0, <1>2, <1>3, <1>4, <1>5
<1> QED
  BY <1>2, <1>3, <1>4, <1>9, <1>10 DEF Ordered

\* "valid" is that there is no hole, with the new fragment in its place.
LEMMA FinishedIs ==
    ASSUME NEW fs, Ordered(fs), NEW p \in Frag, p.start < p.end, ~Overlaps(fs, p)
    PROVE  Finished(fs, p) <=> Whole(Chain(fs, p))
<1> DEFINE new == Chain(fs, p)
<1> DEFINE n == Place(fs, p)
<1>1. Len(new) = Len(fs) + 1 /\ n \in 0 .. Len(fs)
  BY ChainIs
<1>2. Len(fs) \in Nat
  BY DEF Ordered
<1>3. Finished(fs, p) <=> /\ \A i \in 1 .. n : new[i].end = new[i + 1].start
                          /\ new[1].start = 0
                          /\ \A i \in n + 1 .. Len(fs) : new[i].end = new[i + 1].start
  BY Zenon DEF Finished
<1> HIDE DEF new, n
<1>4. 1 .. Len(new) - 1 = (1 .. n) \cup (n + 1 .. Len(fs))
  BY <1>1, <1>2
<1> QED
  BY <1>3, <1>4, Zenon DEF Whole, new

\* Fragments without a hole that end where the datagram does are all of it: the first
\* one that ends behind a byte has that byte.
LEMMA WholeSpans ==
    ASSUME NEW fs, Ordered(fs), Whole(fs), NEW N \in Nat, fs # <<>>,
           \A i \in DOMAIN fs : fs[i].end <= N, NEW z \in DOMAIN fs, fs[z].end = N
    PROVE  Spans(fs) = 0 .. N - 1
<1>0. fs \in Seq(Frag) /\ Len(fs) \in Nat /\ DOMAIN fs = 1 .. Len(fs)
  BY DEF Ordered
<1>1. \A i \in DOMAIN fs : fs[i].start \in Nat /\ fs[i].end \in Nat
  <2>1. \A i \in DOMAIN fs : fs[i] \in Frag
    BY <1>0
  <2> QED
    BY <2>1 DEF Frag
<1>2. ASSUME NEW b \in Spans(fs) PROVE b \in 0 .. N - 1
  <2>1. PICK i \in DOMAIN fs : b \in fs[i].start .. fs[i].end - 1
    BY DEF Spans, Span
  <2>2. fs[i].start \in Nat /\ fs[i].end \in Nat /\ fs[i].end <= N
    BY <1>1
  <2> QED
    BY <2>1, <2>2
<1>3. ASSUME NEW b \in 0 .. N - 1 PROVE b \in Spans(fs)
  <2> DEFINE U == {i \in DOMAIN fs : fs[i].end > b}
  <2>1. z \in U /\ U \in SUBSET Nat
    BY <1>0
  <2>2. PICK i \in U : \A y \in U : i <= y
    BY <2>1, Least, Zenon
  <2>3. i \in DOMAIN fs /\ fs[i].end > b
    OBVIOUS
  <2>4. fs[i].start <= b
    <3>1. CASE i = 1
      BY <3>1 DEF Whole
    <3>2. CASE i # 1
      <4>1. i - 1 \in DOMAIN fs /\ i - 1 \in 1 .. Len(fs) - 1 /\ (i - 1) + 1 = i
        BY <1>0, <2>3, <3>2
      <4>2. i - 1 \notin U
        BY <1>0, <2>2, <2>3
      <4>3. ~(fs[i - 1].end > b)
        BY <4>1, <4>2
      <4>4. fs[i - 1].end = fs[i].start
        BY <4>1, Zenon DEF Whole
      <4> QED
        BY <1>1, <2>3, <4>1, <4>3, <4>4
    <3> QED
      BY <3>1, <3>2
  <2>5. b \in Span(fs[i])
    BY <1>1, <2>3, <2>4 DEF Span
  <2> QED
    BY <2>3, <2>5, Zenon DEF Spans
<1> QED
  BY <1>2, <1>3, Zenon

\* Fragments that are all of a datagram have no hole: the byte in it would be missing.
LEMMA SpansWhole ==
    ASSUME NEW fs, Ordered(fs), NEW N \in Nat, fs # <<>>, Spans(fs) = 0 .. N - 1
    PROVE  Whole(fs)
<1>0. fs \in Seq(Frag) /\ Len(fs) \in Nat /\ DOMAIN fs = 1 .. Len(fs) /\ 1 \in DOMAIN fs
  BY DEF Ordered
<1>1. \A i \in DOMAIN fs : fs[i].start \in Nat /\ fs[i].end \in Nat /\ fs[i].start < fs[i].end
  <2>1. \A i \in DOMAIN fs : fs[i] \in Frag
    BY <1>0
  <2> QED
    BY <2>1 DEF Frag, Ordered
<1>2. \A i, j \in DOMAIN fs : i < j => fs[i].end <= fs[j].start
  BY DEF Ordered, Disjoint
<1>3. \A i \in DOMAIN fs, b \in Nat : fs[i].start <= b /\ b < fs[i].end => b \in 0 .. N - 1
  <2> SUFFICES ASSUME NEW i \in DOMAIN fs, NEW b \in Nat, fs[i].start <= b, b < fs[i].end
               PROVE  b \in 0 .. N - 1
    OBVIOUS
  <2>1. b \in Span(fs[i])
    BY <1>1 DEF Span
  <2> QED
    BY <2>1, Zenon DEF Spans
<1>4. \A b \in 0 .. N - 1 : \E i \in DOMAIN fs : fs[i].start <= b /\ b < fs[i].end
  <2> SUFFICES ASSUME NEW b \in 0 .. N - 1
               PROVE  \E i \in DOMAIN fs : fs[i].start <= b /\ b < fs[i].end
    OBVIOUS
  <2>1. PICK i \in DOMAIN fs : b \in fs[i].start .. fs[i].end - 1
    BY Zenon DEF Spans, Span
  <2> QED
    BY <1>1, <2>1
<1>5. fs[1].start = 0
  <2>1. fs[1].start \in 0 .. N - 1
    BY <1>0, <1>1, <1>3
  <2>2. 0 \in 0 .. N - 1
    BY <2>1
  <2>3. PICK j \in DOMAIN fs : fs[j].start <= 0 /\ 0 < fs[j].end
    BY <1>4, <2>2
  <2>4. j = 1
    BY <1>0, <1>1, <1>2, <2>3
  <2> QED
    BY <1>1, <2>3, <2>4
<1>6. ASSUME NEW i \in 1 .. Len(fs) - 1 PROVE fs[i].end = fs[i + 1].start
  <2>1. i \in DOMAIN fs /\ i + 1 \in DOMAIN fs /\ i < i + 1
    BY <1>0
  <2>2. fs[i].end <= fs[i + 1].start
    BY <1>2, <2>1
  <2> SUFFICES ASSUME fs[i].end < fs[i + 1].start PROVE FALSE
    BY <1>1, <2>1, <2>2
  <2> DEFINE b == fs[i].end
  <2>3. fs[i + 1].start \in 0 .. N - 1
    BY <1>1, <1>3, <2>1
  <2>4. b \in 0 .. N - 1
    BY <1>1, <2>1, <2>3
  <2>5. PICK j \in DOMAIN fs : fs[j].start <= b /\ b < fs[j].end
    BY <1>4, <2>4
  <2>6. CASE j < i
    BY <1>1, <1>2, <2>1, <2>5, <2>6
  <2>7. CASE j = i
    BY <1>1, <2>5, <2>7
  <2>8. CASE j = i + 1
    BY <1>1, <2>1, <2>5, <2>8
  <2>9. CASE j > i + 1
    BY <1>1, <1>2, <2>1, <2>5, <2>9
  <2> QED
    BY <1>0, <2>6, <2>7, <2>8, <2>9
<1> QED
  BY <1>5, <1>6 DEF Whole

\* The pbufs of one fragment, of which there are as many as pbuf_clen() says.
FragBufs(i, m, clen) == {<<i, m, c>> : c \in 1 .. clen}

\* They are counted by their places.
LEMMA NewBufs ==
    ASSUME NEW i, NEW m, NEW clen \in Nat
    PROVE  IsFiniteSet(FragBufs(i, m, clen)) /\ Cardinality(FragBufs(i, m, clen)) = clen
<1> DEFINE N == {<<i, m, c>> : c \in 1 .. clen}
<1> DEFINE g == [x \in N |-> x[3]]
<1>1. \A c : <<i, m, c>>[3] = c
  OBVIOUS
<1>2. \A x \in N : x[3] \in 1 .. clen /\ x = <<i, m, x[3]>>
  BY <1>1, Zenon
<1>3. g \in [N -> 1 .. clen]
  BY <1>2, Zenon
<1>4. \A x, y \in N : g[x] = g[y] => x = y
  BY <1>2, Zenon
<1>5. \A c \in 1 .. clen : \E x \in N : g[x] = c
  <2> SUFFICES ASSUME NEW c \in 1 .. clen PROVE \E x \in N : g[x] = c
    BY Zenon
  <2>1. <<i, m, c>> \in N
    BY Zenon
  <2> QED
    BY <1>1, <2>1, Zenon
<1>6. IsFiniteSet(1 .. clen) /\ Cardinality(1 .. clen) = clen
  <2>1. 1 \in Int /\ clen \in Int
    OBVIOUS
  <2>2. IsFiniteSet(1 .. clen) /\ Cardinality(1 .. clen) = IF 1 > clen THEN 0 ELSE clen - 1 + 1
    BY <2>1, FS_Interval, Zenon
  <2> QED
    BY <2>2
<1> HIDE DEF g, N
<1>7. IsFiniteSet(N) /\ Cardinality(N) = Cardinality(1 .. clen)
  BY <1>3, <1>4, <1>5, <1>6, SameSize, Zenon
<1> QED
  BY <1>6, <1>7, Zenon DEF N, FragBufs

\* The list with another entry in place of the i-th.
Put(l, i, e) == [l EXCEPT ![i] = e]

\* A fragment that is queued brings its pbufs, and those of the others stay.
LEMMA QueueBufs ==
    ASSUME NEW E, NEW l \in Seq(E), NEW i \in DOMAIN l, IsFiniteSet(Bufs(l, DOMAIN l)),
           Ordered(l[i].frags), NEW p \in Frag, p.start < p.end, ~Overlaps(l[i].frags, p),
           NEW e, e.frags = Chain(l[i].frags, p), NEW l1, l1 = Put(l, i, e)
    PROVE  /\ IsFiniteSet(Bufs(l1, DOMAIN l))
           /\ Pbufs(l1, DOMAIN l) = Pbufs(l, DOMAIN l) + p.clen
<1> DEFINE fs == l[i].frags
<1> DEFINE n == Place(fs, p)
<1> DEFINE new == Chain(fs, p)
<1> DEFINE A == Bufs(l, DOMAIN l)
<1> DEFINE N == FragBufs(i, n + 1, p.clen)
<1> DEFINE B == Bufs(l1, DOMAIN l) \ N
<1>1. /\ Ordered(new) /\ Len(new) = Len(fs) + 1 /\ n \in 0 .. Len(fs)
      /\ \A k \in 1 .. Len(fs) + 1 : new[k] = IF k <= n THEN fs[k] ELSE IF k = n + 1 THEN p ELSE fs[k - 1]
  <2>1. Ordered(fs) /\ ~Overlaps(fs, p) /\ new = Chain(fs, p) /\ n = Place(fs, p)
    BY Zenon
  <2> HIDE DEF fs, new, n
  <2> QED
    BY <2>1, ChainIs
<1>2. /\ Len(fs) \in Nat /\ DOMAIN fs = 1 .. Len(fs) /\ DOMAIN new = 1 .. Len(fs) + 1
      /\ p.clen \in Nat
  BY <1>1 DEF Ordered, Frag
<1>3. l1[i] = e /\ \A k \in DOMAIN l : k # i => l1[k] = l[k]
  BY DEF Put
<1>4. \A x : /\ x \in A <=> IsBuf(x, l, DOMAIN l)
             /\ x \in Bufs(l1, DOMAIN l) <=> IsBuf(x, l1, DOMAIN l)
  BY BufsAre, Zenon
<1>5. \A a, j, c : <<a, j, c>>[1] = a /\ <<a, j, c>>[2] = j /\ <<a, j, c>>[3] = c
  OBVIOUS
<1>6. \A x : x \in N <=> x = <<i, n + 1, x[3]>> /\ x[3] \in 1 .. p.clen
  <2> HIDE DEF n
  <2> QED
    BY <1>5 DEF FragBufs
<1> DEFINE Back(x) == IF x[1] = i /\ x[2] > n THEN x[2] - 1 ELSE x[2]
<1> DEFINE g == [x \in B |-> <<x[1], Back(x), x[3]>>]
<1> HIDE DEF fs, new, n, A, N
<1>7. ASSUME NEW x \in B
      PROVE  /\ x = <<x[1], x[2], x[3]>> /\ g[x] = <<x[1], Back(x), x[3]>>
             /\ x[1] = i => x[2] \in 1 .. Len(fs) + 1 /\ x[2] # n + 1
             /\ g[x] \in A
  <2>1. IsBuf(x, l1, DOMAIN l) /\ x \notin N
    BY <1>4, Zenon
  <2>2. g[x] = <<x[1], Back(x), x[3]>>
    BY Zenon
  <2>3. ASSUME x[1] = i PROVE x[2] \in 1 .. Len(fs) + 1 /\ x[2] # n + 1
    <3>1. x[2] \in DOMAIN new /\ x[3] \in 1 .. new[x[2]].clen
      BY <1>3, <2>1, <2>3, Zenon DEF IsBuf, new, fs
    <3>2. x[2] \in 1 .. Len(fs) + 1
      BY <1>2, <3>1, Zenon
    <3>3. ASSUME x[2] = n + 1 PROVE FALSE
      <4>1. new[n + 1] = p
        BY <1>1, <1>2
      <4>2. x = <<i, n + 1, x[3]>>
        BY <2>1, <2>3, <3>3, Zenon DEF IsBuf
      <4> QED
        BY <1>6, <2>1, <3>1, <3>3, <4>1, <4>2, Zenon
    <3> QED
      BY <3>2, <3>3, Zenon
  <2>4. IsBuf(<<x[1], Back(x), x[3]>>, l, DOMAIN l)
    <3>1. CASE x[1] = i
      <4>1. x[2] \in DOMAIN new /\ x[3] \in 1 .. new[x[2]].clen /\ i \in DOMAIN l
        BY <1>3, <2>1, <3>1, Zenon DEF IsBuf, new, fs
      <4>2. new[x[2]] = fs[Back(x)] /\ Back(x) \in DOMAIN fs
        BY <1>1, <1>2, <2>3, <3>1
      <4> QED
        BY <1>5, <3>1, <4>1, <4>2, Zenon DEF IsBuf, fs
    <3>2. CASE x[1] # i
      <4>1. l1[x[1]] = l[x[1]] /\ Back(x) = x[2]
        BY <1>3, <2>1, <3>2, Zenon DEF IsBuf
      <4> QED
        BY <1>5, <2>1, <4>1, Zenon DEF IsBuf
    <3> QED
      BY <3>1, <3>2, Zenon
  <2>5. g[x] \in A
    BY <1>4, <2>2, <2>4, Zenon
  <2> QED
    BY <2>1, <2>2, <2>3, <2>5, Zenon DEF IsBuf
<1>8. g \in [B -> A]
  BY <1>7, Zenon
<1>9. ASSUME NEW x \in B, NEW y \in B, g[x] = g[y] PROVE x = y
  <2>1. <<x[1], Back(x), x[3]>> = <<y[1], Back(y), y[3]>>
    BY <1>7, <1>9, Zenon
  <2>2. x[1] = y[1] /\ Back(x) = Back(y) /\ x[3] = y[3]
    BY <2>1, <1>5, Zenon
  <2>3. x[2] = y[2]
    <3>1. CASE x[1] = i
      <4>1. /\ x[2] \in 1 .. Len(fs) + 1 /\ x[2] # n + 1
            /\ y[2] \in 1 .. Len(fs) + 1 /\ y[2] # n + 1 /\ y[1] = i
        BY <1>7, <2>2, <3>1, Zenon
      <4> QED
        BY <1>1, <1>2, <2>2, <3>1, <4>1, SMTT(30)
    <3>2. CASE x[1] # i
      BY <2>2, <3>2
    <3> QED
      BY <3>1, <3>2, Zenon
  <2> QED
    BY <1>7, <2>2, <2>3, Zenon
<1>10. ASSUME NEW y \in A PROVE \E x \in B : g[x] = y
  <2> DEFINE On == IF y[1] = i /\ y[2] > n THEN y[2] + 1 ELSE y[2]
  <2> DEFINE x == <<y[1], On, y[3]>>
  <2>1. IsBuf(y, l, DOMAIN l)
    BY <1>4, Zenon
  <2>2. x[1] = y[1] /\ x[2] = On /\ x[3] = y[3]
    BY <1>5, Zenon
  <2>3. IsBuf(x, l1, DOMAIN l) /\ Back(x) = y[2] /\ x \notin N
    <3>1. CASE y[1] = i
      <4>1. y[2] \in DOMAIN fs /\ y[3] \in 1 .. fs[y[2]].clen
        BY <2>1, <3>1, Zenon DEF IsBuf, fs
      <4>2. On \in 1 .. Len(fs) + 1 /\ On # n + 1 /\ new[On] = fs[y[2]]
        <5>1. y[2] \in 1 .. Len(fs) /\ n \in 0 .. Len(fs)
          BY <1>1, <1>2, <4>1, Zenon
        <5>2. CASE y[2] > n
          <6>1. On = y[2] + 1
            BY <3>1, <5>2, Zenon
          <6> HIDE DEF On
          <6>2. On \in 1 .. Len(fs) + 1 /\ On # n + 1 /\ ~(On <= n) /\ On - 1 = y[2]
            BY <1>2, <5>1, <5>2, <6>1
          <6> QED
            BY <1>1, <6>2
        <5>3. CASE ~(y[2] > n)
          <6>1. On = y[2]
            BY <5>3, Zenon
          <6> QED
            BY <1>1, <1>2, <5>1, <5>3, <6>1
        <5> QED
          BY <5>2, <5>3, Zenon
      <4>3. On \in DOMAIN l1[i].frags /\ l1[i].frags[On] = fs[y[2]]
        BY <1>2, <1>3, <4>2, Zenon DEF new, fs
      <4>4. Back(x) = y[2]
        BY <1>1, <1>2, <2>2, <3>1, <4>1
      <4>5. x \notin N
        <5>1. ASSUME x = <<i, n + 1, x[3]>> PROVE x[2] = n + 1
          BY <5>1
        <5> QED
          BY <1>6, <2>2, <4>2, <5>1, Zenon
      <4> HIDE DEF On
      <4>6. IsBuf(x, l1, DOMAIN l)
        BY <2>1, <2>2, <3>1, <4>1, <4>3, Zenon DEF IsBuf
      <4> QED
        BY <4>4, <4>5, <4>6, Zenon
    <3>2. CASE y[1] # i
      <4>1. l1[y[1]] = l[y[1]] /\ On = y[2]
        BY <1>3, <2>1, <3>2, Zenon DEF IsBuf
      <4>2. x \notin N
        <5>1. ASSUME x = <<i, n + 1, x[3]>> PROVE x[1] = i
          BY <5>1
        <5> QED
          BY <1>6, <2>2, <3>2, <5>1, Zenon
      <4>3. Back(x) = y[2]
        BY <2>2, <3>2, <4>1, Zenon
      <4> HIDE DEF On
      <4>4. IsBuf(x, l1, DOMAIN l)
        BY <2>1, <2>2, <4>1, Zenon DEF IsBuf
      <4> QED
        BY <4>2, <4>3, <4>4, Zenon
    <3> QED
      BY <3>1, <3>2, Zenon
  <2>4. x \in B
    BY <1>4, <2>3, Zenon
  <2>5. g[x] = y
    BY <1>7, <2>1, <2>2, <2>3, <2>4, Zenon DEF IsBuf
  <2> QED
    BY <2>4, <2>5, Zenon
<1> HIDE DEF g, B
<1>11. IsFiniteSet(A)
  BY Zenon DEF A
<1>12. IsFiniteSet(B) /\ Cardinality(B) = Cardinality(A)
  BY <1>8, <1>9, <1>10, <1>11, SameSize, Zenon
<1>13. IsFiniteSet(N) /\ Cardinality(N) = p.clen
  <2>1. p.clen \in Nat
    BY <1>2, Zenon
  <2> QED
    BY <2>1, NewBufs, Zenon DEF N
<1>14. N \subseteq Bufs(l1, DOMAIN l)
  <2> SUFFICES ASSUME NEW x \in N PROVE IsBuf(x, l1, DOMAIN l)
    BY <1>4, Zenon
  <2>1. x = <<i, n + 1, x[3]>> /\ x[3] \in 1 .. p.clen
    BY <1>6, Zenon
  <2>2. x[1] = i /\ x[2] = n + 1
    BY <2>1
  <2>3. n + 1 \in DOMAIN new /\ new[n + 1] = p
    BY <1>1, <1>2
  <2>4. n + 1 \in DOMAIN l1[i].frags /\ l1[i].frags[n + 1] = p
    BY <1>3, <2>3, Zenon DEF new, fs
  <2> QED
    BY <2>1, <2>2, <2>4, Zenon DEF IsBuf
<1>15. Bufs(l1, DOMAIN l) = B \cup N /\ B \cap N = {}
  BY <1>14, Zenon DEF B
<1>16. /\ IsFiniteSet(B \cup N)
       /\ Cardinality(B \cup N) = Cardinality(B) + Cardinality(N) - Cardinality(B \cap N)
  BY <1>12, <1>13, FS_Union, Zenon
<1>17. Cardinality(B \cap N) = 0 /\ Cardinality(A) \in Nat
  BY <1>11, <1>15, FS_EmptySet, FS_CardinalityType, Zenon
<1>18. Cardinality(B \cup N) = Cardinality(A) + p.clen
  BY <1>2, <1>12, <1>13, <1>16, <1>17
<1> QED
  BY <1>15, <1>16, <1>18, Zenon DEF Pbufs, A

-----------------------------------------------------------------------------
(* The invariant.                                                          *)

AllIds == Ids \cup {f.id : f \in Foreign}
Entry ==
    [id : AllIds, timer : 0 .. MaxAge, first : BOOLEAN, frags : Seq(Frag), last : BOOLEAN, len : Nat]

\* Every fragment but the last fills the MTU, which is so for 1500.
WholeUnits == (Room \div Unit) * Unit = Room

\* What is known of an entry whatever the order of arrival; L has the lengths of
\* the datagrams sent.
EntryOK(e, L) ==
    /\ Ordered(e.frags)
    /\ e.frags # <<>> /\ e.frags[1].start = 0 => e.first
    /\ e.id \in Ids => \A j \in DOMAIN e.frags : e.frags[j].end <= L[e.id]
    /\ WholeUnits /\ e.id \in Ids /\ e.last =>
          e.len = L[e.id] /\ \E j \in DOMAIN e.frags : e.frags[j].end = L[e.id]

\* The list in the course of ip4_reass(), when an entry may be empty still.
Rows(l, L) ==
    /\ l \in Seq(Entry)
    /\ \A i \in DOMAIN l : EntryOK(l[i], L)
    /\ \A i, j \in DOMAIN l : l[i].id = l[j].id => i = j
    /\ \A i, j \in DOMAIN l : i < j => l[i].timer >= l[j].timer

\* ip_reass_pbufcount is right.
Counted(l, c) == IsFiniteSet(Bufs(l, DOMAIN l)) /\ c = Pbufs(l, DOMAIN l)

\* An entry that may wait for fragments.
Waits(e) == e.frags # <<>> /\ ~(e.last /\ Spans(e.frags) = 0 .. e.len - 1)

\* A fragment in the network.
FragOK(f, L) ==
    /\ f.id \in AllIds /\ f.start \in Nat /\ f.end \in Nat /\ f.start < f.end /\ f.mf \in BOOLEAN
    /\ f.id \in Ids => f.end <= L[f.id]
    /\ WholeUnits /\ f.id \in Ids /\ ~f.mf => f.end = L[f.id]

\* A datagram that is handed over.
OutOK(d, L) ==
    /\ Disjoint(d.frags)
    /\ WholeUnits /\ d.id \in Ids => d.len = L[d.id] /\ Spans(d.frags) = 0 .. d.len - 1

\* The inductive invariant.
ReassInv ==
    /\ len \in [Ids -> Nat]
    /\ \A f \in net : FragOK(f, len)
    /\ Rows(list, len) /\ Len(list) <= NumReass
    /\ Counted(list, count) /\ count <= MaxPbufs
    /\ \A i \in DOMAIN list : Waits(list[i])
    /\ \A d \in out : OutOK(d, len)

-----------------------------------------------------------------------------
(* The operations on the list.                                             *)

\* Fields of entries that are no fragments do not matter to the pbufs.
LEMMA BufsSame ==
    ASSUME NEW l, NEW k, NEW S, \A i \in S : k[i].frags = l[i].frags
    PROVE  Bufs(k, S) = Bufs(l, S) /\ Pbufs(k, S) = Pbufs(l, S)
<1>1. ASSUME NEW x PROVE x \in Bufs(k, S) <=> x \in Bufs(l, S)
  <2>1. (x \in Bufs(k, S) <=> IsBuf(x, k, S)) /\ (x \in Bufs(l, S) <=> IsBuf(x, l, S))
    BY BufsAre, Zenon
  <2> QED
    BY <2>1, Zenon DEF IsBuf
<1>2. Bufs(k, S) = Bufs(l, S)
  BY <1>1, Zenon
<1> QED
  BY <1>2, Zenon DEF Pbufs

\* Taking entries out leaves the others as they are.
LEMMA KeepRows ==
    ASSUME NEW L, NEW l, Rows(l, L), NEW S \in SUBSET DOMAIN l, NEW k, k = Keep(l, S)
    PROVE  /\ Rows(k, L)
           /\ Len(k) \in Nat /\ Len(k) <= Len(l) /\ (S # DOMAIN l => Len(k) < Len(l))
           /\ \A a \in DOMAIN k : \E i \in S : k[a] = l[i]
<1>0. l \in Seq(Entry) /\ Len(l) \in Nat
  BY DEF Rows
<1>1. /\ k \in Seq(Entry) /\ Len(k) = Cardinality(S) /\ Cardinality(S) <= Len(l)
      /\ (S # DOMAIN l => Cardinality(S) < Len(l)) /\ \E h : KeptBy(h, k, l, S)
  BY <1>0, KeepIs, Zenon
<1>2. PICK h : KeptBy(h, k, l, S)
  BY <1>1, Zenon
<1>3. DOMAIN k = 1 .. Len(k) /\ Len(k) \in Nat
  BY <1>1
<1>4. \A a \in DOMAIN k : h[a] \in S /\ h[a] \in DOMAIN l /\ k[a] = l[h[a]]
  BY <1>2, <1>3, Zenon DEF KeptBy
<1>5. \A a, b \in DOMAIN k : a < b => h[a] < h[b]
  BY <1>2, <1>3, Zenon DEF KeptBy, Ascending
<1>6. \A a \in DOMAIN k : EntryOK(k[a], L)
  BY <1>4, Zenon DEF Rows
<1>7. ASSUME NEW a \in DOMAIN k, NEW b \in DOMAIN k, k[a].id = k[b].id PROVE a = b
  <2>0. \A i, j \in DOMAIN l : l[i].id = l[j].id => i = j
    BY Zenon DEF Rows
  <2>1. l[h[a]].id = l[h[b]].id
    BY <1>4, <1>7
  <2>3. h[a] = h[b]
    BY <1>4, <2>0, <2>1, Zenon
  <2>2. h[a] \in Nat
    BY <1>0, <1>4
  <2> QED
    BY <1>3, <1>5, <2>2, <2>3
<1>8. \A a, b \in DOMAIN k : a < b => k[a].timer >= k[b].timer
  <2>1. \A i, j \in DOMAIN l : i < j => l[i].timer >= l[j].timer
    BY Zenon DEF Rows
  <2> QED
    BY <1>4, <1>5, <2>1, Zenon
<1>9. Rows(k, L)
  BY <1>1, <1>6, <1>7, <1>8, Zenon DEF Rows
<1> QED
  BY <1>1, <1>3, <1>4, <1>9, Zenon

\* q is what is left of r when entries with n pbufs have been freed.
Freed(r, q, n, L) ==
    /\ Rows(q.list, L) /\ Counted(q.list, q.count)
    /\ n \in Nat /\ q.count \in Nat /\ q.count <= r.count
    /\ Len(q.list) \in Nat /\ Len(q.list) <= Len(r.list)
    /\ n > 0 => Len(q.list) < Len(r.list)
    /\ \A a \in DOMAIN q.list : \E i \in DOMAIN r.list : q.list[a] = r.list[i]

\* ip_reass_free_complete_datagram() counts what it frees.
LEMMA FreeIs ==
    ASSUME NEW L, NEW r, Rows(r.list, L), Counted(r.list, r.count),
           NEW S \in SUBSET DOMAIN r.list, NEW q, q = FreeDatagram(r, S)
    PROVE  /\ Freed(r, q, Pbufs(r.list, S), L)
           /\ \A a \in DOMAIN q.list : \E i \in DOMAIN r.list \ S : q.list[a] = r.list[i]
<1> DEFINE l == r.list
<1> DEFINE T == DOMAIN l \ S
<1> DEFINE k == Keep(l, T)
<1>0. l \in Seq(Entry) /\ IsFiniteSet(Bufs(l, DOMAIN l)) /\ r.count = Pbufs(l, DOMAIN l)
  BY Zenon DEF Rows, Counted
<1>r. Rows(l, L) /\ S \in SUBSET DOMAIN l
  OBVIOUS
<1>1. q.list = k /\ q.count = r.count - Pbufs(l, S)
  BY DEF FreeDatagram
<1> HIDE DEF l, k
<1>d. T = DOMAIN l \ S
  OBVIOUS
<1> HIDE DEF T
<1>2. /\ IsFiniteSet(Bufs(l, S)) /\ IsFiniteSet(Bufs(l, T)) /\ Pbufs(l, S) \in Nat
      /\ Pbufs(l, T) \in Nat /\ Pbufs(l, DOMAIN l) = Pbufs(l, S) + Pbufs(l, T)
  <2>1. Parts(DOMAIN l, S, T) /\ IsFiniteSet(Bufs(l, DOMAIN l))
    BY <1>0, <1>r, <1>d, Zenon DEF Parts
  <2> QED
    BY <2>1, BufsSplit
<1>3. T \in SUBSET DOMAIN l
  BY Zenon DEF T
<1>4. IsFiniteSet(Bufs(k, DOMAIN k)) /\ Pbufs(k, DOMAIN k) = Pbufs(l, T)
  BY <1>0, <1>2, <1>3, KeepBufs, Zenon DEF k
<1>5. /\ Rows(k, L) /\ Len(k) \in Nat /\ Len(k) <= Len(l) /\ (T # DOMAIN l => Len(k) < Len(l))
      /\ \A a \in DOMAIN k : \E i \in T : k[a] = l[i]
  BY <1>r, <1>3, KeepRows DEF k
<1>6. q.count = Pbufs(l, T) /\ q.count <= r.count
  BY <1>0, <1>1, <1>2
<1>7. Counted(q.list, q.count)
  BY <1>1, <1>4, <1>6, Zenon DEF Counted
<1>8. ASSUME Pbufs(l, S) > 0 PROVE T # DOMAIN l
  <2> SUFFICES ASSUME T = DOMAIN l PROVE FALSE
    BY Zenon
  <2>1. Pbufs(l, S) = 0
    BY <1>2
  <2> QED
    BY <1>8, <2>1
<1>9. Freed(r, q, Pbufs(l, S), L)
  BY <1>1, <1>2, <1>3, <1>5, <1>6, <1>7, <1>8, Zenon DEF Freed, l
<1> QED
  BY <1>1, <1>5, <1>9, Zenon DEF l, T

\* An entry as ip_reass_enqueue_new_datagram() makes it.
NewEntry(e) == e \in Entry /\ e.frags = <<>> /\ ~e.last /\ e.timer = MaxAge

\* The list has no entry for this datagram.
Absent(l, id) == \A i \in DOMAIN l : l[i].id # id

\* The new entry of ip_reass_enqueue_new_datagram() goes in front of the others.
LEMMA PushRows ==
    ASSUME NEW L, NEW l, Rows(l, L), NEW e, NewEntry(e), Absent(l, e.id), NEW k, k = <<e>> \o l
    PROVE  Rows(k, L)
<1>e. e \in Entry /\ e.frags = <<>> /\ ~e.last /\ e.timer = MaxAge
  BY DEF NewEntry
<1>a. \A i \in DOMAIN l : l[i].id # e.id
  BY DEF Absent
<1>0. l \in Seq(Entry) /\ Len(l) \in Nat /\ DOMAIN l = 1 .. Len(l)
  BY DEF Rows
<1>1. /\ k \in Seq(Entry) /\ Len(k) = Len(l) + 1 /\ k[1] = e
      /\ \A a \in 1 .. Len(l) + 1 : a # 1 => a - 1 \in DOMAIN l /\ k[a] = l[a - 1]
  BY <1>0, <1>e
<1>2. DOMAIN k = 1 .. Len(l) + 1
  BY <1>1
<1>3. MaxAge \in Nat
  BY ReassAssumption
<1>4. EntryOK(e, L)
  <2>1. Ordered(<<>>) /\ DOMAIN <<>> = {}
    BY DEF Ordered, Disjoint
  <2> QED
    BY <1>e, <2>1 DEF EntryOK
<1>5. \A a \in DOMAIN k : EntryOK(k[a], L)
  BY <1>1, <1>2, <1>4 DEF Rows
<1>6. ASSUME NEW a \in DOMAIN k, NEW b \in DOMAIN k, k[a].id = k[b].id PROVE a = b
  <2>1. CASE a = 1 /\ b # 1
    BY <1>a, <1>1, <1>2, <1>6, <2>1
  <2>2. CASE a # 1 /\ b = 1
    BY <1>a, <1>1, <1>2, <1>6, <2>2
  <2>3. CASE a # 1 /\ b # 1
    <3>1. a - 1 = b - 1
      BY <1>1, <1>2, <1>6, <2>3 DEF Rows
    <3> QED
      BY <1>2, <3>1
  <2> QED
    BY <2>1, <2>2, <2>3
<1>7. ASSUME NEW a \in DOMAIN k, NEW b \in DOMAIN k, a < b PROVE k[a].timer >= k[b].timer
  <2>1. b # 1 /\ b - 1 \in DOMAIN l /\ k[b] = l[b - 1]
    BY <1>1, <1>2, <1>7
  <2>2. CASE a = 1
    <3>1. l[b - 1] \in Entry
      BY <1>0, <2>1
    <3>2. l[b - 1].timer \in 0 .. MaxAge
      BY <3>1 DEF Entry
    <3> QED
      BY <1>e, <1>1, <1>3, <2>1, <2>2, <3>2
  <2>3. CASE a # 1
    <3>1. a - 1 \in DOMAIN l /\ k[a] = l[a - 1] /\ a - 1 < b - 1
      BY <1>1, <1>2, <1>7, <2>3
    <3> QED
      BY <2>1, <3>1 DEF Rows
  <2> QED
    BY <2>2, <2>3
<1> QED
  BY <1>1, <1>2, <1>5, <1>6, <1>7 DEF Rows

\* It brings no pbufs.
LEMMA PushBufs ==
    ASSUME NEW l \in Seq(Entry), NEW c, Counted(l, c), NEW e \in Entry, e.frags = <<>>,
           NEW k, k = <<e>> \o l
    PROVE  Counted(k, c)
<1> DEFINE A == Bufs(k, DOMAIN k)
<1> DEFINE B == Bufs(l, DOMAIN l)
<1>0. Len(l) \in Nat /\ DOMAIN l = 1 .. Len(l) /\ DOMAIN k = 1 .. Len(l) + 1
  OBVIOUS
<1>1. k[1] = e /\ DOMAIN e.frags = {}
  OBVIOUS
<1>2. \A a \in DOMAIN k : a # 1 => a - 1 \in DOMAIN l /\ k[a] = l[a - 1]
  BY <1>0
<1>3. \A a \in DOMAIN l : a + 1 \in DOMAIN k /\ a + 1 # 1 /\ (a + 1) - 1 = a /\ k[a + 1] = l[a]
  BY <1>0
<1>4. \A x : (x \in A <=> IsBuf(x, k, DOMAIN k)) /\ (x \in B <=> IsBuf(x, l, DOMAIN l))
  BY BufsAre, Zenon
<1>5. \A a, j, m : <<a, j, m>>[1] = a /\ <<a, j, m>>[2] = j /\ <<a, j, m>>[3] = m
  OBVIOUS
<1> DEFINE g == [x \in A |-> <<x[1] - 1, x[2], x[3]>>]
<1> HIDE DEF A, B
<1>6. ASSUME NEW x \in A
      PROVE  /\ x = <<x[1], x[2], x[3]>> /\ x[1] \in DOMAIN k
             /\ g[x] = <<x[1] - 1, x[2], x[3]>> /\ g[x] \in B
  <2>1. IsBuf(x, k, DOMAIN k)
    BY <1>4, Zenon
  <2>2. x[1] # 1
    BY <1>1, <2>1, Zenon DEF IsBuf
  <2>3. x[1] - 1 \in DOMAIN l /\ k[x[1]] = l[x[1] - 1]
    BY <1>2, <2>1, <2>2, Zenon DEF IsBuf
  <2>4. g[x] = <<x[1] - 1, x[2], x[3]>>
    BY Zenon
  <2> HIDE DEF g
  <2>5. g[x][1] = x[1] - 1 /\ g[x][2] = x[2] /\ g[x][3] = x[3]
    BY <2>4
  <2>6. IsBuf(g[x], l, DOMAIN l)
    BY <2>1, <2>3, <2>4, <2>5, Zenon DEF IsBuf
  <2> QED
    BY <1>4, <2>1, <2>4, <2>6, Zenon DEF IsBuf
<1>7. g \in [A -> B]
  BY <1>6, Zenon
<1>8. ASSUME NEW x \in A, NEW y \in A, g[x] = g[y] PROVE x = y
  <2>1. <<x[1] - 1, x[2], x[3]>> = <<y[1] - 1, y[2], y[3]>>
    BY <1>6, <1>8, Zenon
  <2>2. x[1] - 1 = y[1] - 1 /\ x[2] = y[2] /\ x[3] = y[3]
    BY <2>1
  <2>3. x[1] \in DOMAIN k /\ y[1] \in DOMAIN k
    BY <1>6, Zenon
  <2>4. x[1] = y[1]
    BY <1>0, <2>2, <2>3
  <2> QED
    BY <1>6, <2>2, <2>4, Zenon
<1>9. ASSUME NEW y \in B PROVE \E x \in A : g[x] = y
  <2> DEFINE x == <<y[1] + 1, y[2], y[3]>>
  <2>1. IsBuf(y, l, DOMAIN l)
    BY <1>4, Zenon
  <2>2. /\ y[1] + 1 \in DOMAIN k /\ (y[1] + 1) - 1 = y[1] /\ k[y[1] + 1] = l[y[1]]
        /\ y = <<y[1], y[2], y[3]>>
    BY <1>3, <2>1, Zenon DEF IsBuf
  <2>3. x[1] = y[1] + 1 /\ x[2] = y[2] /\ x[3] = y[3]
    BY <1>5, Zenon
  <2>4. x \in A
    BY <1>4, <2>1, <2>2, <2>3, Zenon DEF IsBuf
  <2>5. g[x] = y
    BY <1>6, <2>2, <2>3, <2>4, Zenon
  <2> QED
    BY <2>4, <2>5, Zenon
<1> HIDE DEF g
<1>10. IsFiniteSet(B) /\ c = Cardinality(B)
  BY Zenon DEF Counted, Pbufs, B
<1>11. IsFiniteSet(A) /\ Cardinality(A) = Cardinality(B)
  BY <1>7, <1>8, <1>9, <1>10, SameSize, Zenon
<1> QED
  BY <1>10, <1>11, Zenon DEF Counted, Pbufs, A

\* What ip_reass_remove_oldest_datagram() leaves.
LEMMA RemoveOldestIs ==
    ASSUME NEW L, NEW r, Rows(r.list, L), Counted(r.list, r.count), NEW id, NEW needed,
           NEW ev, ev = RemoveOldest(r, id, needed)
    PROVE  Freed(r, ev.r, ev.freed, L)
<1> DEFINE S == Evicted(r.list, id, needed)
<1>1. S \in SUBSET DOMAIN r.list
  BY DEF Evicted, Others
<1>2. ev.r = FreeDatagram(r, S) /\ ev.freed = Pbufs(r.list, S)
  BY DEF RemoveOldest
<1> HIDE DEF S
<1> QED
  BY <1>1, <1>2, FreeIs

\* The list and its counter in the course of ip4_reass().
Good(r, L) ==
    /\ r \in [list : Seq(Entry), count : Nat]
    /\ Rows(r.list, L) /\ Counted(r.list, r.count) /\ Len(r.list) <= NumReass

\* The entry of the fragment may have been made for it.
Fresh(e, f) == e.frags = <<>> /\ ~e.last /\ e.id = f.id

\* The entries wait, or are made for the fragment, whose header is kept if it is
\* the first one.
Ready(r, f, L) ==
    /\ Good(r, L)
    /\ \A i \in DOMAIN r.list : Waits(r.list[i]) \/ Fresh(r.list[i], f)
    /\ \A i \in DOMAIN r.list : r.list[i].id = f.id /\ f.start = 0 => r.list[i].first

\* Freeing entries leaves a good list.
LEMMA FreedGood ==
    ASSUME NEW L, NEW r, Good(r, L), NEW S \in SUBSET DOMAIN r.list, NEW q, q = FreeDatagram(r, S)
    PROVE  Good(q, L)
<1>1. Freed(r, q, Pbufs(r.list, S), L)
  BY FreeIs, Zenon DEF Good
<1>2. q = [list |-> q.list, count |-> q.count]
  BY DEF FreeDatagram
<1>3. q.list \in Seq(Entry) /\ q.count \in Nat
  BY <1>1 DEF Freed, Rows
<1>4. q \in [list : Seq(Entry), count : Nat]
  BY <1>2, <1>3
<1>5. NumReass \in Nat /\ Len(r.list) \in Nat
  BY ReassAssumption DEF Good
<1> QED
  BY <1>1, <1>4, <1>5 DEF Good, Freed

\* So does ip_reass_remove_oldest_datagram().
LEMMA RemovedGood ==
    ASSUME NEW L, NEW r, Good(r, L), NEW id, NEW needed, NEW ev, ev = RemoveOldest(r, id, needed)
    PROVE  Good(ev.r, L) /\ Freed(r, ev.r, ev.freed, L)
<1>1. Evicted(r.list, id, needed) \in SUBSET DOMAIN r.list
  BY DEF Evicted, Others
<1>2. ev.r = FreeDatagram(r, Evicted(r.list, id, needed))
  BY DEF RemoveOldest
<1>3. Good(ev.r, L)
  BY <1>1, <1>2, FreedGood
<1>4. Freed(r, ev.r, ev.freed, L)
  BY RemoveOldestIs, Zenon DEF Good
<1> QED
  BY <1>3, <1>4, Zenon

\* The entry that ip_reass_enqueue_new_datagram() makes, and the list with it.
NewFor(f) ==
    [id |-> f.id, timer |-> MaxAge, first |-> f.start = 0, frags |-> <<>>, last |-> FALSE, len |-> 0]
Pushed(r, e) == [r EXCEPT !.list = <<e>> \o @]
WaitsWithout(l, f) == \A i \in DOMAIN l : l[i].id # f.id /\ Waits(l[i])

\* A new entry in front of a list that has room for it.
LEMMA PushGood ==
    ASSUME NEW L, NEW r, Good(r, L), Len(r.list) < NumReass, NEW f, f.id \in AllIds,
           WaitsWithout(r.list, f), NEW e, e = NewFor(f), NEW q, q = Pushed(r, e)
    PROVE  Ready(q, f, L) /\ q.count = r.count
<1> USE DEF NewFor
<1>w. \A i \in DOMAIN r.list : r.list[i].id # f.id /\ Waits(r.list[i])
  BY Zenon DEF WaitsWithout
<1>0. MaxAge \in Nat /\ NumReass \in Nat
  BY ReassAssumption
<1>1. e \in Entry
  BY <1>0 DEF Entry
<1>2. e.frags = <<>> /\ ~e.last /\ e.timer = MaxAge /\ e.id = f.id /\ e.first = (f.start = 0)
  OBVIOUS
<1>3. q.list = <<e>> \o r.list /\ q.count = r.count /\ q = [list |-> q.list, count |-> q.count]
  BY Zenon DEF Good, Pushed
<1> HIDE DEF NewFor
<1>4. r.list \in Seq(Entry) /\ r.count \in Nat /\ Len(r.list) \in Nat
  BY DEF Good
<1> DEFINE l == r.list
<1> DEFINE k == q.list
<1>5. Rows(l, L) /\ Counted(l, r.count)
  BY DEF Good
<1>6. \A i \in DOMAIN l : l[i].id # e.id
  BY <1>w, <1>2
<1>7. k = <<e>> \o l
  BY <1>3
<1> HIDE DEF k, l
<1>8. /\ Rows(k, L) /\ Len(k) = Len(l) + 1 /\ k[1] = e
      /\ \A a \in DOMAIN k : a # 1 => a - 1 \in DOMAIN l /\ k[a] = l[a - 1]
  <2>1. NewEntry(e)
    BY <1>1, <1>2 DEF NewEntry
  <2>2. Absent(l, e.id)
    BY <1>6 DEF Absent
  <2>3. Rows(k, L)
    BY <1>5, <1>7, <2>1, <2>2, PushRows, Zenon
  <2>4. l \in Seq(Entry)
    BY <1>4 DEF l
  <2> QED
    BY <1>1, <1>7, <2>3, <2>4
<1>9. l \in Seq(Entry)
  BY <1>4 DEF l
<1>10. Counted(k, r.count)
  BY <1>1, <1>2, <1>5, <1>7, <1>9, PushBufs, Zenon
<1>11. k \in Seq(Entry)
  BY <1>8 DEF Rows
<1>12. Good(q, L)
  <2>1. q \in [list : Seq(Entry), count : Nat]
    BY <1>3, <1>4, <1>11, Zenon DEF k
  <2>2. Len(k) <= NumReass
    BY <1>0, <1>4, <1>8 DEF l
  <2> QED
    BY <1>3, <1>8, <1>10, <2>1, <2>2 DEF Good, k
<1>13. \A a \in DOMAIN k : Waits(k[a]) \/ Fresh(k[a], f)
  BY <1>w, <1>2, <1>8 DEF Fresh, l
<1>14. \A a \in DOMAIN k : k[a].id = f.id /\ f.start = 0 => k[a].first
  BY <1>2, <1>6, <1>8, Zenon
<1> QED
  BY <1>3, <1>12, <1>13, <1>14, SMTT(30) DEF Ready, k

\* A function from 1 .. n is a sequence.
LEMMA SeqOf ==
    ASSUME NEW E, NEW n \in Nat, NEW k \in [1 .. n -> E]
    PROVE  k \in Seq(E) /\ Len(k) = n
  OBVIOUS

\* An entry whose header or timer may have changed.
Similar(e, d) ==
    /\ d.id = e.id /\ d.frags = e.frags /\ d.last = e.last /\ d.len = e.len
    /\ e.first => d.first
SimilarLists(l, k) ==
    /\ k \in Seq(Entry) /\ Len(k) = Len(l)
    /\ \A i \in DOMAIN l : Similar(l[i], k[i])
    /\ \A i, j \in DOMAIN l : i < j => k[i].timer >= k[j].timer
StillWait(l, k) == \A i \in DOMAIN l : Waits(l[i]) => Waits(k[i])

\* Such changes leave the list as it should be.
LEMMA SimilarRows ==
    ASSUME NEW L, NEW l, Rows(l, L), NEW c, Counted(l, c), NEW k, SimilarLists(l, k)
    PROVE  Rows(k, L) /\ Counted(k, c) /\ DOMAIN k = DOMAIN l /\ StillWait(l, k)
<1>0. /\ k \in Seq(Entry) /\ Len(k) = Len(l)
      /\ \A i \in DOMAIN l : Similar(l[i], k[i])
      /\ \A i, j \in DOMAIN l : i < j => k[i].timer >= k[j].timer
  BY DEF SimilarLists
<1>1. DOMAIN k = DOMAIN l
  BY <1>0 DEF Rows
<1>2. ASSUME NEW i \in DOMAIN l PROVE EntryOK(k[i], L) /\ (Waits(l[i]) => Waits(k[i]))
  <2>1. EntryOK(l[i], L) /\ Similar(l[i], k[i])
    BY <1>0, Zenon DEF Rows
  <2>2. EntryOK(k[i], L)
    BY <2>1 DEF EntryOK, Similar
  <2> QED
    BY <2>1, <2>2 DEF Waits, Similar
<1>3. ASSUME NEW i \in DOMAIN l, NEW j \in DOMAIN l, k[i].id = k[j].id PROVE i = j
  <2>1. l[i].id = l[j].id
    BY <1>0, <1>3 DEF Similar
  <2> QED
    BY <2>1 DEF Rows
<1>4. Rows(k, L)
  BY <1>0, <1>1, <1>2, <1>3, Zenon DEF Rows
<1>5. \A i \in DOMAIN l : k[i].frags = l[i].frags
  BY <1>0, Zenon DEF Similar
<1>6. Bufs(k, DOMAIN l) = Bufs(l, DOMAIN l) /\ Pbufs(k, DOMAIN l) = Pbufs(l, DOMAIN l)
  BY <1>5, BufsSame
<1>7. Counted(k, c)
  BY <1>1, <1>6 DEF Counted
<1> QED
  BY <1>1, <1>2, <1>4, <1>7, Zenon DEF StillWait

\* All entries wait.
WaitAll(l) == \A i \in DOMAIN l : Waits(l[i])

\* The list when the entry of the fragment has its header.
Headed(l, f) ==
    [i \in DOMAIN l |-> [l[i] EXCEPT !.first = @ \/ (l[i].id = f.id /\ f.start = 0)]]

\* The header of the first fragment is taken over.
LEMMA HeaderReady ==
    ASSUME NEW L, NEW r, Good(r, L), NEW f, WaitAll(r.list), NEW k, k = Headed(r.list, f),
           NEW q, q = [r EXCEPT !.list = k]
    PROVE  Ready(q, f, L) /\ q.count = r.count
<1> DEFINE l == r.list
<1>1. q.list = k /\ q.count = r.count /\ q = [list |-> q.list, count |-> q.count]
  BY DEF Good
<1>2. /\ Rows(l, L) /\ Counted(l, r.count) /\ l \in Seq(Entry) /\ r.count \in Nat
      /\ Len(l) <= NumReass /\ \A i \in DOMAIN l : Waits(l[i])
  BY DEF Good, WaitAll
<1>0. k = [i \in DOMAIN l |-> [l[i] EXCEPT !.first = @ \/ (l[i].id = f.id /\ f.start = 0)]]
  BY Zenon DEF Headed
<1> HIDE DEF l
<1>3. ASSUME NEW i \in DOMAIN l
      PROVE  /\ k[i] \in Entry /\ Similar(l[i], k[i]) /\ k[i].timer = l[i].timer
             /\ k[i].id = f.id /\ f.start = 0 => k[i].first
  <2>1. l[i] \in Entry
    BY <1>2
  <2>2. k[i] = [l[i] EXCEPT !.first = @ \/ (l[i].id = f.id /\ f.start = 0)]
    BY <1>0, Zenon
  <2>3. (l[i].first \/ (l[i].id = f.id /\ f.start = 0)) \in BOOLEAN
    OBVIOUS
  <2>4. /\ k[i].id = l[i].id /\ k[i].timer = l[i].timer /\ k[i].frags = l[i].frags
        /\ k[i].last = l[i].last /\ k[i].len = l[i].len
    BY <2>1, <2>2 DEF Entry
  <2>5. k[i].first = (l[i].first \/ (l[i].id = f.id /\ f.start = 0))
    BY <2>1, <2>2 DEF Entry
  <2>6. k[i].id = f.id /\ f.start = 0 => k[i].first
    BY <2>4, <2>5, Zenon
  <2>7. l[i].first => k[i].first
    BY <2>5, Zenon
  <2>8. k[i] \in Entry
    <3> DEFINE b == l[i].first \/ (l[i].id = f.id /\ f.start = 0)
    <3>1. k[i] = [l[i] EXCEPT !.first = b] /\ b \in BOOLEAN
      BY <2>1, <2>2, <2>3 DEF Entry
    <3> HIDE DEF b
    <3> QED
      BY <2>1, <3>1 DEF Entry
  <2> QED
    BY <2>4, <2>6, <2>7, <2>8 DEF Similar
<1>4. k \in Seq(Entry) /\ Len(k) = Len(l)
  <2>1. DOMAIN l = 1 .. Len(l) /\ Len(l) \in Nat
    BY <1>2
  <2>2. k = [i \in 1 .. Len(l) |-> k[i]]
    BY <1>0, <2>1, Zenon
  <2>3. \A i \in 1 .. Len(l) : k[i] \in Entry
    BY <1>3, <2>1, Zenon
  <2>4. k \in [1 .. Len(l) -> Entry]
    BY <2>2, <2>3, Zenon
  <2> QED
    BY <2>1, <2>4, SeqOf, Zenon
<1>5. \A i, j \in DOMAIN l : i < j => l[i].timer >= l[j].timer
  BY <1>2 DEF Rows
<1>6. \A i, j \in DOMAIN l : i < j => k[i].timer >= k[j].timer
  BY <1>3, <1>5
<1>s. SimilarLists(l, k)
  BY <1>3, <1>4, <1>6, Zenon DEF SimilarLists
<1>t. Rows(l, L) /\ Counted(l, r.count)
  BY <1>2
<1>7. Rows(k, L) /\ Counted(k, r.count) /\ DOMAIN k = DOMAIN l /\ StillWait(l, k)
  BY <1>s, <1>t, SimilarRows
<1>8. q \in [list : Seq(Entry), count : Nat]
  BY <1>1, <1>2, <1>4
<1>9. Good(q, L)
  BY <1>1, <1>2, <1>4, <1>7, <1>8 DEF Good
<1> QED
  BY <1>1, <1>2, <1>3, <1>7, <1>9 DEF Ready, StillWait

\* A new entry is made if there is a struct ip_reassdata for it.
LEMMA EnqueueReady ==
    ASSUME NEW L, NEW r, Good(r, L), NEW f, f.id \in AllIds, NEW clen \in Nat \ {0},
           WaitsWithout(r.list, f), NEW q, q = Enqueue(r, f.id, f.start = 0, clen)
    PROVE  Ready(q, f, L) /\ q.count <= r.count
<1> DEFINE e == NewFor(f)
<1> DEFINE ev == RemoveOldest(r, f.id, clen)
<1>0. r.count \in Nat /\ Len(r.list) \in Nat /\ NumReass \in Nat /\ Len(r.list) <= NumReass
  BY ReassAssumption DEF Good
<1>1. q = IF Len(r.list) < NumReass THEN Pushed(r, e)
          ELSE IF ev.freed >= clen THEN Pushed(ev.r, e)
          ELSE ev.r
  BY DEF Enqueue, NewFor, Pushed
<1>2. Good(ev.r, L) /\ Freed(r, ev.r, ev.freed, L)
  BY RemovedGood
<1>e. e = NewFor(f)
  OBVIOUS
<1> HIDE DEF ev, e
<1>3. WaitsWithout(ev.r.list, f)
  BY <1>2, Zenon DEF Freed, WaitsWithout
<1>4. ev.freed \in Nat /\ ev.r.count \in Nat /\ ev.r.count <= r.count /\ Len(ev.r.list) \in Nat
  BY <1>2, Zenon DEF Freed
<1>5. CASE Len(r.list) < NumReass
  <2>1. q = Pushed(r, e)
    BY <1>1, <1>5
  <2>2. Ready(q, f, L) /\ q.count = r.count
    BY <1>e, <1>5, <2>1, PushGood
  <2> QED
    BY <1>0, <2>2
<1>6. CASE ~(Len(r.list) < NumReass) /\ ev.freed >= clen
  <2>1. q = Pushed(ev.r, e)
    BY <1>1, <1>6
  <2>2. ev.freed > 0
    BY <1>4, <1>6
  <2>3. Len(ev.r.list) < Len(r.list)
    BY <1>2, <2>2, Zenon DEF Freed
  <2>4. Len(ev.r.list) < NumReass
    BY <1>0, <1>4, <2>3
  <2>5. Ready(q, f, L) /\ q.count = ev.r.count
    BY <1>e, <1>2, <1>3, <2>1, <2>4, PushGood
  <2> QED
    BY <1>4, <2>5
<1>7. CASE ~(Len(r.list) < NumReass) /\ ~(ev.freed >= clen)
  <2>1. q = ev.r
    BY <1>1, <1>7
  <2> QED
    BY <1>2, <1>3, <1>4, <2>1, Zenon DEF Ready, WaitsWithout
<1> QED
  BY <1>5, <1>6, <1>7

\* The fragment has its entry, if there can be one.
LEMMA EnsureReady ==
    ASSUME NEW L, NEW r, Good(r, L), WaitAll(r.list), NEW f, f.id \in AllIds,
           NEW clen \in Nat \ {0}, NEW q, q = EnsureEntry(r, f, clen)
    PROVE  Ready(q, f, L) /\ q.count <= r.count
<1>0. r.count \in Nat
  BY DEF Good
<1>1. CASE EntryOf(r.list, f.id) = {}
  <2>1. q = Enqueue(r, f.id, f.start = 0, clen)
    BY <1>1, Zenon DEF EnsureEntry
  <2>2. WaitsWithout(r.list, f)
    BY <1>1, Zenon DEF WaitsWithout, WaitAll, EntryOf
  <2> QED
    BY <2>1, <2>2, EnqueueReady
<1>2. CASE EntryOf(r.list, f.id) # {}
  <2> DEFINE k == Headed(r.list, f)
  <2>1. q = [r EXCEPT !.list = k]
    BY <1>2, Zenon DEF EnsureEntry, Headed
  <2>2. k = Headed(r.list, f)
    OBVIOUS
  <2> HIDE DEF k
  <2>3. Ready(q, f, L) /\ q.count = r.count
    BY <2>1, <2>2, HeaderReady
  <2> QED
    BY <1>0, <2>3
<1> QED
  BY <1>1, <1>2

\* A dropped fragment leaves no entry without fragments behind.
LEMMA DropGood ==
    ASSUME NEW L, NEW r, NEW f, Ready(r, f, L), NEW i \in EntryOf(r.list, f.id),
           NEW q, q = Drop(r, i)
    PROVE  Good(q, L) /\ WaitAll(q.list) /\ q.count = r.count
<1>0. i \in DOMAIN r.list /\ r.list[i].id = f.id
  BY DEF EntryOf
<1>1. Good(r, L) /\ \A j \in DOMAIN r.list : Waits(r.list[j]) \/ Fresh(r.list[j], f)
  BY Zenon DEF Ready
<1>2. \A j \in DOMAIN r.list : r.list[j].id = f.id => j = i
  BY <1>0, <1>1, Zenon DEF Good, Rows
<1>3. ASSUME NEW j \in DOMAIN r.list, j # i PROVE Waits(r.list[j])
  BY <1>1, <1>2, <1>3, Zenon DEF Fresh
<1>4. CASE r.list[i].frags # <<>>
  <2>1. q = r
    BY <1>4, Zenon DEF Drop
  <2>2. Waits(r.list[i])
    BY <1>0, <1>1, <1>4, Zenon DEF Fresh
  <2> QED
    BY <1>1, <1>3, <2>1, <2>2, Zenon DEF WaitAll
<1>5. CASE r.list[i].frags = <<>>
  <2>1. q = [r EXCEPT !.list = Keep(@, DOMAIN @ \ {i})]
    BY <1>5, Zenon DEF Drop
  <2>2. \A x : x \notin Bufs(r.list, {i})
    <3> SUFFICES ASSUME NEW x, x \in Bufs(r.list, {i}) PROVE FALSE
      OBVIOUS
    <3>1. IsBuf(x, r.list, {i})
      BY BufsAre, Zenon
    <3>2. x[1] = i /\ x[2] \in DOMAIN r.list[x[1]].frags
      BY <3>1, Zenon DEF IsBuf
    <3> QED
      BY <1>5, <3>2
  <2>3. Bufs(r.list, {i}) = {}
    BY <2>2, Zenon
  <2>4. Pbufs(r.list, {i}) = 0
    BY <2>3, FS_EmptySet DEF Pbufs
  <2>5. r.count \in Nat /\ r.count - 0 = r.count /\ q = [list |-> Keep(r.list, DOMAIN r.list \ {i}), count |-> r.count]
    BY <1>1, <2>1 DEF Good
  <2>6. q = FreeDatagram(r, {i})
    BY <2>4, <2>5, Zenon DEF FreeDatagram
  <2>7. {i} \in SUBSET DOMAIN r.list /\ Rows(r.list, L) /\ Counted(r.list, r.count)
    BY <1>0, <1>1, Zenon DEF Good
  <2>8. Good(q, L)
    BY <1>1, <2>6, <2>7, FreedGood
  <2>9. \A a \in DOMAIN q.list : \E j \in DOMAIN r.list \ {i} : q.list[a] = r.list[j]
    BY <2>6, <2>7, FreeIs
  <2> QED
    <3>1. WaitAll(q.list)
      BY <1>3, <2>9, Zenon DEF WaitAll
    <3>2. q.count = r.count
      BY <2>5
    <3> QED
      BY <2>8, <3>1, <3>2
<1> QED
  BY <1>4, <1>5

\* The entry with the fragment, which is p in the list.
With(e, f, p) ==
    [e EXCEPT !.frags = Chain(@, p), !.last = @ \/ ~f.mf, !.len = IF f.mf THEN @ ELSE f.end]
Piece(f, clen) == [start |-> f.start, end |-> f.end, clen |-> clen]

\* What the fields of the entry are.
LEMMA WithIs ==
    ASSUME NEW e \in Entry, NEW f, f.mf \in BOOLEAN, f.end \in Nat, NEW p,
           Chain(e.frags, p) \in Seq(Frag), NEW e1, e1 = With(e, f, p)
    PROVE  /\ e1 \in Entry /\ e1.frags = Chain(e.frags, p)
           /\ e1.id = e.id /\ e1.timer = e.timer /\ e1.first = e.first
           /\ e1.last = (e.last \/ ~f.mf)
           /\ e1.len = IF f.mf THEN e.len ELSE f.end
<1> DEFINE c == Chain(e.frags, p)
<1> DEFINE b == e.last \/ ~f.mf
<1> DEFINE m == IF f.mf THEN e.len ELSE f.end
<1>1. b \in BOOLEAN /\ m \in Nat
  BY DEF Entry
<1>2. e1 = [e EXCEPT !.frags = c, !.last = b, !.len = m]
  BY Zenon DEF With
<1>3. c \in Seq(Frag)
  OBVIOUS
<1> HIDE DEF c, b, m
<1>4. /\ e1 \in Entry /\ e1.frags = c /\ e1.id = e.id /\ e1.timer = e.timer /\ e1.first = e.first
      /\ e1.last = b /\ e1.len = m
  BY <1>1, <1>2, <1>3, Zenon DEF Entry
<1> QED
  BY <1>4 DEF c, b, m

\* The entry is as it should be with the fragment, too.
LEMMA WithOK ==
    ASSUME NEW L, L \in [Ids -> Nat], NEW f, FragOK(f, L), NEW clen \in Nat \ {0},
           NEW p, p = Piece(f, clen),
           NEW e \in Entry, EntryOK(e, L), e.id = f.id, f.start = 0 => e.first,
           ~Overlaps(e.frags, p), NEW e1, e1 = With(e, f, p)
    PROVE  /\ e1 \in Entry /\ EntryOK(e1, L) /\ e1.frags = Chain(e.frags, p) /\ e1.frags # <<>>
           /\ e1.id = e.id /\ e1.timer = e.timer
           /\ p \in Frag /\ p.start < p.end /\ p.clen = clen
<1> DEFINE fs == e.frags
<1> DEFINE new == e1.frags
<1> DEFINE n == Place(fs, p)
<1>0. f.start \in Nat /\ f.end \in Nat /\ f.start < f.end /\ f.mf \in BOOLEAN
  BY DEF FragOK
<1>1. p \in Frag /\ p.start = f.start /\ p.end = f.end /\ p.clen = clen
  BY <1>0 DEF Piece, Frag
<1>2. p.start < p.end
  BY <1>0, <1>1
<1>3. Ordered(fs) /\ Len(fs) \in Nat /\ DOMAIN fs = 1 .. Len(fs)
  BY SMTT(30) DEF EntryOK, Ordered
<1>4. /\ Ordered(Chain(fs, p)) /\ Len(Chain(fs, p)) = Len(fs) + 1 /\ n \in 0 .. Len(fs)
      /\ \A i \in 1 .. Len(fs) + 1 :
            Chain(fs, p)[i] = IF i <= n THEN fs[i] ELSE IF i = n + 1 THEN p ELSE fs[i - 1]
  <2> DEFINE c == Chain(fs, p)
  <2>1. c = Chain(fs, p) /\ n = Place(fs, p) /\ ~Overlaps(fs, p)
    OBVIOUS
  <2> HIDE DEF c, n, fs
  <2> QED
    BY <1>1, <1>2, <1>3, <2>1, ChainIs, SMTT(30)
<1>5. Chain(fs, p) \in Seq(Frag)
  BY <1>4, Zenon DEF Ordered
<1>6. /\ e1 \in Entry /\ new = Chain(fs, p)
      /\ e1.id = e.id /\ e1.timer = e.timer /\ e1.first = e.first
      /\ e1.last = (e.last \/ ~f.mf)
      /\ e1.len = IF f.mf THEN e.len ELSE f.end
  BY <1>0, <1>5, WithIs, SMTT(30)
<1>7. /\ Ordered(new) /\ Len(new) = Len(fs) + 1 /\ DOMAIN new = 1 .. Len(fs) + 1
      /\ \A i \in 1 .. Len(fs) + 1 :
            new[i] = IF i <= n THEN fs[i] ELSE IF i = n + 1 THEN p ELSE fs[i - 1]
  BY <1>4, <1>5, <1>6
<1>e. /\ fs # <<>> /\ fs[1].start = 0 => e.first
      /\ e.id \in Ids => \A j \in DOMAIN fs : fs[j].end <= L[e.id]
      /\ WholeUnits /\ e.id \in Ids /\ e.last =>
            e.len = L[e.id] /\ \E j \in DOMAIN fs : fs[j].end = L[e.id]
  BY Zenon DEF EntryOK
<1>f. /\ e.id \in Ids => f.end <= L[e.id]
      /\ WholeUnits /\ e.id \in Ids /\ ~f.mf => f.end = L[e.id]
  BY Zenon DEF FragOK
<1> HIDE DEF fs, new, n
<1>n. n \in 0 .. Len(fs)
  BY <1>4
<1>8. new # <<>>
  BY <1>3, <1>7
<1>9. new[1].start = 0 => e1.first
  <2>1. CASE n = 0
    <3>1. new[1] = p
      BY <1>3, <1>7, <2>1
    <3> QED
      BY <1>1, <1>6, <3>1
  <2>2. CASE n # 0
    <3>1. new[1] = fs[1] /\ Len(fs) # 0
      BY <1>3, <1>n, <1>7, <2>2
    <3>2. fs # <<>>
      BY <3>1
    <3> QED
      BY <1>e, <1>6, <3>1, <3>2
  <2> QED
    BY <2>1, <2>2
<1>10. ASSUME e1.id \in Ids, NEW j \in DOMAIN new PROVE new[j].end <= L[e1.id]
  <2>1. new[j] = p \/ \E k \in DOMAIN fs : new[j] = fs[k]
    BY <1>3, <1>n, <1>7
  <2>2. e.id \in Ids /\ L[e1.id] = L[e.id]
    BY <1>6, <1>10
  <2> QED
    BY <1>1, <1>e, <1>f, <2>1, <2>2, SMTT(30)
<1>11. n + 1 \in DOMAIN new /\ new[n + 1] = p
  BY <1>3, <1>n, <1>7
<1>12. \A k \in DOMAIN fs : \E j \in DOMAIN new : new[j] = fs[k]
  <2> SUFFICES ASSUME NEW k \in DOMAIN fs PROVE \E j \in DOMAIN new : new[j] = fs[k]
    OBVIOUS
  <2>1. CASE k <= n
    <3>1. k \in DOMAIN new /\ new[k] = fs[k]
      BY <1>3, <1>n, <1>7, <2>1
    <3> QED
      BY <3>1, Zenon
  <2>2. CASE ~(k <= n)
    <3>1. k + 1 \in DOMAIN new /\ new[k + 1] = fs[k]
      BY <1>3, <1>n, <1>7, <2>2
    <3> QED
      BY <3>1, Zenon
  <2> QED
    BY <2>1, <2>2
<1>13. ASSUME WholeUnits, e1.id \in Ids, e1.last
       PROVE  e1.len = L[e1.id] /\ \E j \in DOMAIN new : new[j].end = L[e1.id]
  <2>0. e.id \in Ids /\ L[e1.id] = L[e.id]
    BY <1>6, <1>13
  <2>1. CASE f.mf
    <3>1. e.last /\ e1.len = e.len
      BY <1>6, <1>13, <2>1, Zenon
    <3>2. e.len = L[e.id] /\ \E k \in DOMAIN fs : fs[k].end = L[e.id]
      BY <1>e, <1>13, <2>0, <3>1, Zenon
    <3>3. PICK k \in DOMAIN fs : fs[k].end = L[e.id]
      BY <3>2
    <3>4. PICK j \in DOMAIN new : new[j] = fs[k]
      BY <1>12
    <3> QED
      BY <2>0, <3>1, <3>2, <3>3, <3>4
  <2>2. CASE ~f.mf
    <3>1. f.end = L[e.id]
      BY <1>f, <1>13, <2>0, <2>2, Zenon
    <3>2. e1.len = L[e1.id]
      BY <1>6, <2>0, <2>2, <3>1
    <3>3. new[n + 1].end = L[e1.id]
      BY <1>1, <1>11, <2>0, <3>1
    <3> QED
      BY <1>11, <3>2, <3>3, Zenon
  <2> QED
    BY <2>1, <2>2
<1>14. EntryOK(e1, L)
  BY <1>7, <1>9, <1>10, <1>13, Zenon DEF EntryOK, new
<1> QED
  BY <1>1, <1>2, <1>6, <1>8, <1>14 DEF new, fs

\* An entry without a hole whose last fragment is there is the datagram.
LEMMA DoneOut ==
    ASSUME NEW L, L \in [Ids -> Nat], NEW e \in Entry, EntryOK(e, L), e.last,
           e.frags # <<>>, Whole(e.frags),
           NEW d, d = [id |-> e.id, len |-> e.len, frags |-> e.frags]
    PROVE  OutOK(d, L)
<1>1. d.id = e.id /\ d.len = e.len /\ d.frags = e.frags
  OBVIOUS
<1>2. Ordered(e.frags)
  BY DEF EntryOK
<1>3. ASSUME WholeUnits, e.id \in Ids PROVE e.len = L[e.id] /\ Spans(e.frags) = 0 .. e.len - 1
  <2>1. /\ \A j \in DOMAIN e.frags : e.frags[j].end <= L[e.id]
        /\ e.len = L[e.id] /\ \E j \in DOMAIN e.frags : e.frags[j].end = L[e.id]
    BY <1>3, Zenon DEF EntryOK
  <2>2. PICK z \in DOMAIN e.frags : e.frags[z].end = L[e.id]
    BY <2>1
  <2>3. L[e.id] \in Nat
    BY <1>3
  <2>4. Spans(e.frags) = 0 .. L[e.id] - 1
    BY <1>2, <2>1, <2>2, <2>3, WholeSpans
  <2> QED
    BY <2>1, <2>4
<1>4. Disjoint(d.frags)
  BY <1>1, <1>2 DEF Ordered
<1> QED
  BY <1>1, <1>3, <1>4, Zenon DEF OutOK

\* An entry with a hole, or whose last fragment is missing, may wait.
LEMMA NotDoneWaits ==
    ASSUME NEW e \in Entry, Ordered(e.frags), e.frags # <<>>, ~(e.last /\ Whole(e.frags))
    PROVE  Waits(e)
<1>1. e.len \in Nat
  BY DEF Entry
<1>2. Spans(e.frags) = 0 .. e.len - 1 => Whole(e.frags)
  BY <1>1, SpansWhole
<1> QED
  BY <1>2, Zenon DEF Waits

\* All entries but that of the fragment wait.
LEMMA OthersWait ==
    ASSUME NEW L, NEW r, NEW f, Ready(r, f, L), NEW i \in EntryOf(r.list, f.id),
           NEW j \in DOMAIN r.list, j # i
    PROVE  Waits(r.list[j])
<1>1. i \in DOMAIN r.list /\ r.list[i].id = f.id
  BY DEF EntryOf
<1>2. r.list[j].id # f.id
  BY <1>1, Zenon DEF Ready, Good, Rows
<1> QED
  BY <1>2, Zenon DEF Ready, Fresh

\* The list with one entry replaced by a good one of the same datagram and age.
LEMMA ReplaceRows ==
    ASSUME NEW L, NEW l, Rows(l, L), NEW i \in DOMAIN l, NEW e \in Entry, EntryOK(e, L),
           e.id = l[i].id, e.timer = l[i].timer, NEW k, k = Put(l, i, e)
    PROVE  /\ Rows(k, L) /\ DOMAIN k = DOMAIN l /\ Len(k) = Len(l) /\ k[i] = e
           /\ \A j \in DOMAIN l : j # i => k[j] = l[j]
<1>1. l \in Seq(Entry)
  BY DEF Rows
<1>2. k \in Seq(Entry) /\ DOMAIN k = DOMAIN l /\ Len(k) = Len(l)
  BY <1>1 DEF Put
<1>3. k[i] = e /\ \A j \in DOMAIN l : j # i => k[j] = l[j]
  BY <1>1 DEF Put
<1>4. \A j \in DOMAIN l : EntryOK(k[j], L) /\ k[j].id = l[j].id /\ k[j].timer = l[j].timer
  BY <1>3, Zenon DEF Rows
<1>5. \A a, b \in DOMAIN l : k[a].id = k[b].id => a = b
  BY <1>4, Zenon DEF Rows
<1>6. \A a, b \in DOMAIN l : a < b => k[a].timer >= k[b].timer
  BY <1>4, Zenon DEF Rows
<1> QED
  BY <1>2, <1>3, <1>4, <1>5, <1>6, Zenon DEF Rows

\* What ip4_reass() leaves and returns.
Result(q, n, L) ==
    /\ Rows(q.list, L) /\ Counted(q.list, q.count) /\ Len(q.list) <= NumReass
    /\ WaitAll(q.list)
    /\ q.count \in Nat /\ q.count <= n
    /\ \A d \in q.out : OutOK(d, L)

\* A fragment that is queued leaves its entry waiting, or completes the datagram.
LEMMA QueuedIs ==
    ASSUME NEW L, L \in [Ids -> Nat], NEW r, NEW f, Ready(r, f, L), FragOK(f, L),
           NEW clen \in Nat \ {0}, NEW i \in EntryOf(r.list, f.id),
           ~Overlaps(r.list[i].frags, f), NEW q, q = Queued(r, i, f, clen)
    PROVE  Result(q, r.count + clen, L)
<1> DEFINE l == r.list
<1> DEFINE e == l[i]
<1> DEFINE p == Piece(f, clen)
<1> DEFINE e1 == With(e, f, p)
<1> DEFINE l1 == Put(l, i, e1)
<1> DEFINE s == [list |-> l1, count |-> r.count + clen]
<1> DEFINE done == e1.last /\ Finished(e.frags, p)
<1>0. i \in DOMAIN l /\ e.id = f.id
  BY DEF EntryOf
<1>1. /\ Rows(l, L) /\ Counted(l, r.count) /\ r.count \in Nat /\ l \in Seq(Entry)
      /\ Len(l) <= NumReass /\ Len(l) \in Nat
  BY DEF Ready, Good
<1>2. /\ q.list = IF done THEN Keep(l1, DOMAIN l1 \ {i}) ELSE l1
      /\ q.count = IF done THEN r.count + clen - Pbufs(l1, {i}) ELSE r.count + clen
      /\ q.out = IF done THEN {[id |-> f.id, len |-> e1.len, frags |-> e1.frags]} ELSE {}
  BY Zenon DEF Queued, With, Piece, Put
<1>3. e \in Entry /\ EntryOK(e, L) /\ (f.start = 0 => e.first)
  <2>1. e \in Entry
    BY <1>0, <1>1
  <2>2. EntryOK(e, L)
    BY <1>0, <1>1, Zenon DEF Rows
  <2>3. f.start = 0 => e.first
    BY <1>0, Zenon DEF Ready
  <2> QED
    BY <2>1, <2>2, <2>3
<1>4. ~Overlaps(e.frags, p)
  <2>1. p.start = f.start /\ p.end = f.end
    BY DEF Piece
  <2> HIDE DEF p
  <2>2. Place(e.frags, p) = Place(e.frags, f)
    BY <2>1, Zenon DEF Place
  <2> QED
    BY <2>1, <2>2, Zenon DEF Overlaps
<1>5. p = Piece(f, clen) /\ e1 = With(e, f, p) /\ l1 = Put(l, i, e1)
  OBVIOUS
<1>s. s.list = l1 /\ s.count = r.count + clen
  BY SMTT(30)
<1> HIDE DEF p, e1, l1, done, s
<1>6. /\ e1 \in Entry /\ EntryOK(e1, L) /\ e1.frags = Chain(e.frags, p) /\ e1.frags # <<>>
      /\ e1.id = e.id /\ e1.timer = e.timer
      /\ p \in Frag /\ p.start < p.end /\ p.clen = clen
  <2> HIDE DEF e
  <2> QED
    BY <1>0, <1>3, <1>4, <1>5, WithOK, SMTT(30)
<1>7. /\ Rows(l1, L) /\ DOMAIN l1 = DOMAIN l /\ Len(l1) = Len(l) /\ l1[i] = e1
      /\ \A j \in DOMAIN l : j # i => l1[j] = l[j]
  <2>1. e1.id = l[i].id /\ e1.timer = l[i].timer
    BY <1>6, SMTT(30)
  <2> HIDE DEF e, l
  <2> QED
    BY <1>0, <1>1, <1>5, <1>6, <2>1, ReplaceRows, SMTT(30)
<1>8. Counted(l1, r.count + clen)
  <2>1. IsFiniteSet(Bufs(l, DOMAIN l)) /\ r.count = Pbufs(l, DOMAIN l)
    BY <1>1, Zenon DEF Counted
  <2>2. Ordered(l[i].frags)
    BY <1>3, Zenon DEF EntryOK
  <2>3. ~Overlaps(l[i].frags, p) /\ e1.frags = Chain(l[i].frags, p)
    BY <1>4, <1>6, SMTT(30)
  <2> HIDE DEF e, l
  <2>4. IsFiniteSet(Bufs(l1, DOMAIN l)) /\ Pbufs(l1, DOMAIN l) = Pbufs(l, DOMAIN l) + p.clen
    BY <1>0, <1>1, <1>5, <1>6, <2>1, <2>2, <2>3, QueueBufs, ZenonT(40)
  <2> QED
    BY <1>6, <1>7, <2>1, <2>4 DEF Counted
<1>9. done <=> e1.last /\ Whole(e1.frags)
  <2>1. Ordered(e.frags)
    BY <1>3, Zenon DEF EntryOK
  <2>2. Finished(e.frags, p) <=> Whole(Chain(e.frags, p))
    <3> HIDE DEF e
    <3> QED
      BY <1>4, <1>6, <2>1, FinishedIs, SMTT(30)
  <2> QED
    BY <1>6, <2>2 DEF done
<1>10. ASSUME NEW j \in DOMAIN l, j # i PROVE Waits(l1[j])
  BY <1>7, <1>10, OthersWait, Zenon
<1>11. CASE ~done
  <2>1. q.list = l1 /\ q.count = r.count + clen /\ q.out = {}
    BY <1>2, <1>11
  <2>2. Ordered(e1.frags)
    BY <1>6, Zenon DEF EntryOK
  <2>3. Waits(e1)
    BY <1>6, <1>9, <1>11, <2>2, NotDoneWaits
  <2>4. WaitAll(l1)
    BY <1>7, <1>10, <2>3, Zenon DEF WaitAll
  <2> HIDE DEF e, l
  <2> QED
    BY <1>1, <1>7, <1>8, <2>1, <2>4 DEF Result
<1>12. CASE done
  <2>1. /\ q.list = Keep(l1, DOMAIN l1 \ {i}) /\ q.count = r.count + clen - Pbufs(l1, {i})
        /\ q.out = {[id |-> f.id, len |-> e1.len, frags |-> e1.frags]}
    BY <1>2, <1>12
  <2> DEFINE t == FreeDatagram(s, {i})
  <2>2. t.list = q.list /\ t.count = q.count
    <3>1. t = [list |-> Keep(s.list, DOMAIN s.list \ {i}), count |-> s.count - Pbufs(s.list, {i})]
      BY DEF FreeDatagram
    <3> HIDE DEF t
    <3>2. t.list = Keep(s.list, DOMAIN s.list \ {i}) /\ t.count = s.count - Pbufs(s.list, {i})
      BY <3>1
    <3>3. Keep(s.list, DOMAIN s.list \ {i}) = Keep(l1, DOMAIN l1 \ {i})
      BY <1>s, Zenon
    <3>4. s.count - Pbufs(s.list, {i}) = r.count + clen - Pbufs(l1, {i})
      <4>1. Parts(DOMAIN l1, {i}, DOMAIN l1 \ {i}) /\ IsFiniteSet(Bufs(l1, DOMAIN l1))
        BY <1>0, <1>7, <1>8, Zenon DEF Parts, Counted
      <4>2. Pbufs(l1, {i}) \in Nat
        BY <4>1, BufsSplit
      <4> QED
        BY <1>1, <1>s, <4>2
    <3> QED
      BY <2>1, <3>2, <3>3, <3>4, Zenon
  <2>3. Rows(s.list, L) /\ Counted(s.list, s.count) /\ {i} \in SUBSET DOMAIN s.list
    BY <1>0, <1>s, <1>7, <1>8, Zenon
  <2>4. t = FreeDatagram(s, {i})
    OBVIOUS
  <2> HIDE DEF t, e, l
  <2>5. /\ Freed(s, t, Pbufs(s.list, {i}), L)
        /\ \A a \in DOMAIN t.list : \E j \in DOMAIN s.list \ {i} : t.list[a] = s.list[j]
    <3>1. Freed(s, t, Pbufs(s.list, {i}), L)
      BY <2>3, <2>4, FreeIs, Zenon
    <3>2. \A a \in DOMAIN t.list : \E j \in DOMAIN s.list \ {i} : t.list[a] = s.list[j]
      BY <2>3, <2>4, FreeIs
    <3> QED
      BY <3>1, <3>2, SMTT(30)
  <2>6. WaitAll(q.list)
    BY <1>s, <1>7, <1>10, <2>2, <2>5, Zenon DEF WaitAll
  <2>7. \A d \in q.out : OutOK(d, L)
    <3> DEFINE d == [id |-> e1.id, len |-> e1.len, frags |-> e1.frags]
    <3>1. e1.last /\ Whole(e1.frags)
      BY <1>9, <1>12, SMTT(30)
    <3>2. OutOK(d, L)
      BY <1>6, <3>1, DoneOut, SMTT(30)
    <3>3. q.out = {d}
      BY <1>0, <1>6, <2>1
    <3> QED
      BY <3>2, <3>3, Zenon
  <2>8. /\ Rows(q.list, L) /\ Counted(q.list, q.count) /\ q.count \in Nat /\ q.count <= r.count + clen
        /\ Len(q.list) \in Nat /\ Len(q.list) <= Len(l1)
    BY <1>s, <2>2, <2>5, Zenon DEF Freed
  <2>9. Len(q.list) <= NumReass
    BY <1>1, <1>7, <2>8, ReassAssumption
  <2> QED
    BY <2>6, <2>7, <2>8, <2>9, Zenon DEF Result
<1> QED
  BY <1>11, <1>12

\* When NULL is returned, what counts is the list.
LEMMA NothingResult ==
    ASSUME NEW L, NEW r, Good(r, L), WaitAll(r.list), NEW n, r.count <= n, NEW q, q = Nothing(r)
    PROVE  Result(q, n, L)
<1>1. q.list = r.list /\ q.count = r.count /\ q.out = {}
  BY DEF Nothing
<1> QED
  BY <1>1 DEF Result, Good

\* ip4_reass() as a whole.
LEMMA ReassIs ==
    ASSUME ReassInv, NEW f \in net, NEW clen \in Clens, NEW q, q = Reass(f, clen)
    PROVE  Result(q, MaxPbufs, len)
<1> DEFINE r0 == [list |-> list, count |-> count]
<1> DEFINE full == count + clen > MaxPbufs
<1> DEFINE ev == RemoveOldest(r0, f.id, clen)
<1> DEFINE r1 == IF full THEN ev.r ELSE r0
<1> DEFINE r2 == EnsureEntry(r1, f, clen)
<1> DEFINE i == CHOOSE k \in EntryOf(r2.list, f.id) : TRUE
<1> DEFINE bad == \/ ~f.mf /\ f.end > MaxU16 - HLen
                  \/ f.end > MaxU16
                  \/ Overlaps(r2.list[i].frags, f)
<1> DEFINE stop == full /\ (ev.freed = 0 \/ r1.count + clen > MaxPbufs)
<1>0. clen \in Nat \ {0} /\ MaxPbufs \in Nat
  BY ReassAssumption, SMTT(30)
<1>1. /\ FragOK(f, len) /\ f.id \in AllIds /\ len \in [Ids -> Nat]
      /\ Rows(list, len) /\ Len(list) <= NumReass /\ Counted(list, count) /\ count <= MaxPbufs
      /\ \A j \in DOMAIN list : Waits(list[j])
  BY DEF ReassInv, FragOK
<1>2. count \in Nat
  BY <1>1, FS_CardinalityType, Zenon DEF Counted, Pbufs
<1>3. q = IF stop THEN Nothing(r1)
          ELSE IF EntryOf(r2.list, f.id) = {} THEN Nothing(r2)
          ELSE IF bad THEN Nothing(Drop(r2, i))
          ELSE Queued(r2, i, f, clen)
  BY Zenon DEF Reass
<1>4. r0.list = list /\ r0.count = count /\ r0 \in [list : Seq(Entry), count : Nat]
  BY <1>1, <1>2 DEF Rows
<1>5. ev = RemoveOldest(r0, f.id, clen) /\ r1 = IF full THEN ev.r ELSE r0
  OBVIOUS
<1>6. r2 = EnsureEntry(r1, f, clen)
  OBVIOUS
<1>7. EntryOf(r2.list, f.id) # {} => i \in EntryOf(r2.list, f.id)
  BY Zenon
<1> HIDE DEF r0, ev, r1, r2, i
<1>8. Good(r0, len)
  BY <1>1, <1>4 DEF Good
<1>9. WaitAll(r0.list)
  BY <1>1, <1>4, Zenon DEF WaitAll
<1>10. Good(ev.r, len) /\ Freed(r0, ev.r, ev.freed, len)
  BY <1>5, <1>8, RemovedGood
<1>11. WaitAll(ev.r.list) /\ ev.r.count \in Nat /\ ev.r.count <= count
  BY <1>4, <1>9, <1>10, Zenon DEF Freed, WaitAll
<1>12. Good(r1, len) /\ WaitAll(r1.list) /\ r1.count \in Nat /\ r1.count <= count
  <2>1. CASE full
    BY <1>5, <1>10, <1>11, <2>1
  <2>2. CASE ~full
    <3>1. r1 = r0
      BY <1>5, <2>2
    <3> QED
      BY <1>2, <1>4, <1>8, <1>9, <3>1
  <2> QED
    BY <2>1, <2>2
<1>13. Ready(r2, f, len) /\ r2.count <= r1.count
  BY <1>0, <1>1, <1>6, <1>12, EnsureReady, SMTT(30)
<1>14. Good(r2, len) /\ r2.count \in Nat
  BY <1>13 DEF Ready, Good
<1>15. CASE stop
  <2>1. q = Nothing(r1)
    BY <1>3, <1>15, Zenon
  <2>2. r1.count <= MaxPbufs
    BY <1>0, <1>1, <1>2, <1>12
  <2> QED
    BY <1>12, <2>1, <2>2, NothingResult
<1>16. CASE ~stop
  <2>0. r1.count + clen <= MaxPbufs
    <3>1. CASE full
      BY <1>0, <1>12, <1>16, <3>1
    <3>2. CASE ~full
      BY <1>0, <1>2, <1>12, <3>2
    <3> QED
      BY <3>1, <3>2
  <2>1. r2.count + clen <= MaxPbufs /\ r2.count <= MaxPbufs
    BY <1>0, <1>12, <1>13, <1>14, <2>0
  <2> HIDE DEF full, stop
  <2>2. CASE EntryOf(r2.list, f.id) = {}
    <3>1. q = Nothing(r2)
      BY <1>3, <1>16, <2>2, Zenon
    <3>2. WaitAll(r2.list)
      BY <1>13, <2>2, Zenon DEF Ready, Fresh, WaitAll, EntryOf
    <3> QED
      BY <1>14, <2>1, <3>1, <3>2, NothingResult
  <2>3. CASE EntryOf(r2.list, f.id) # {} /\ bad
    <3>1. q = Nothing(Drop(r2, i)) /\ i \in EntryOf(r2.list, f.id)
      BY <1>3, <1>7, <1>16, <2>3, Zenon
    <3> HIDE DEF bad
    <3> DEFINE g == Drop(r2, i)
    <3>2. g = Drop(r2, i) /\ q = Nothing(g)
      BY <3>1
    <3> HIDE DEF g
    <3>3. Good(g, len) /\ WaitAll(g.list) /\ g.count = r2.count
      BY <1>13, <3>1, <3>2, DropGood
    <3>4. g.count <= MaxPbufs
      BY <2>1, <3>3
    <3> QED
      BY <3>2, <3>3, <3>4, NothingResult
  <2>4. CASE EntryOf(r2.list, f.id) # {} /\ ~bad
    <3>1. /\ q = Queued(r2, i, f, clen) /\ i \in EntryOf(r2.list, f.id)
          /\ ~Overlaps(r2.list[i].frags, f)
      BY <1>3, <1>7, <1>16, <2>4, Zenon
    <3> HIDE DEF bad
    <3>2. Result(q, r2.count + clen, len)
      BY <1>0, <1>1, <1>13, <3>1, QueuedIs
    <3> QED
      BY <1>0, <1>14, <2>1, <3>2 DEF Result
  <2> QED
    BY <2>2, <2>3, <2>4, Zenon
<1> QED
  BY <1>15, <1>16

-----------------------------------------------------------------------------
(* The steps.                                                              *)

\* A fragment that arrives: ip4_reass() on the state.
LEMMA InputInv ==
    ASSUME ReassInv, NEW f \in net, Input(f)
    PROVE  ReassInv'
<1>1. PICK clen \in Clens : /\ list' = Reass(f, clen).list
                            /\ count' = Reass(f, clen).count
                            /\ out' = Reass(f, clen).out
                            /\ UNCHANGED <<len, net>>
  BY Zenon DEF Input
<1> DEFINE q == Reass(f, clen)
<1>2. q = Reass(f, clen) /\ list' = q.list /\ count' = q.count /\ out' = q.out /\ len' = len /\ net' = net
  BY <1>1
<1> HIDE DEF q
<1>3. Result(q, MaxPbufs, len)
  BY <1>2, ReassIs, SMTT(30)
<1>4. /\ Rows(list', len') /\ Len(list') <= NumReass /\ Counted(list', count') /\ count' <= MaxPbufs
      /\ \A i \in DOMAIN list' : Waits(list'[i])
      /\ \A d \in out' : OutOK(d, len')
  BY <1>2, <1>3 DEF Result, WaitAll
<1>5. len' \in [Ids -> Nat] /\ \A g \in net' : FragOK(g, len')
  BY <1>2 DEF ReassInv
<1> QED
  BY <1>4, <1>5 DEF ReassInv

\* ip_reass_tmr() takes the entries whose time is up, and the others stay in order.
LEMMA TmrInv ==
    ASSUME ReassInv, Tmr
    PROVE  ReassInv'
<1> DEFINE r == [list |-> list, count |-> count]
<1> DEFINE S == {i \in DOMAIN list : list[i].timer = 0}
<1> DEFINE q == FreeDatagram(r, S)
<1> DEFINE l == q.list
<1> DEFINE k == [i \in DOMAIN l |-> [l[i] EXCEPT !.timer = @ - 1]]
<1>1. list' = k /\ count' = q.count /\ out' = {} /\ len' = len /\ net' = net
  BY DEF Tmr
<1>2. r.list = list /\ r.count = count /\ q = FreeDatagram(r, S)
  OBVIOUS
<1>3. S \in SUBSET DOMAIN r.list /\ \A i \in DOMAIN list \ S : list[i].timer # 0
  BY <1>2
<1>4. k = [i \in DOMAIN l |-> [l[i] EXCEPT !.timer = @ - 1]]
  OBVIOUS
<1> HIDE DEF r, S, q, k
<1>5. /\ Rows(list, len) /\ Counted(list, count) /\ Len(list) <= NumReass /\ count <= MaxPbufs
      /\ len \in [Ids -> Nat] /\ \A g \in net : FragOK(g, len)
      /\ \A i \in DOMAIN list : Waits(list[i])
  BY DEF ReassInv
<1>6. /\ Rows(r.list, len) /\ Counted(r.list, r.count)
      /\ S \in SUBSET DOMAIN r.list /\ q = FreeDatagram(r, S)
  BY <1>2, <1>3, <1>5, SMTT(30)
<1>7. Freed(r, q, Pbufs(r.list, S), len)
  BY <1>6, FreeIs, Zenon
<1>8. \A a \in DOMAIN q.list : \E i \in DOMAIN r.list \ S : q.list[a] = r.list[i]
  BY <1>6, FreeIs
<1>9. Rows(l, len) /\ Counted(l, q.count) /\ q.count \in Nat /\ q.count <= count
  BY <1>2, <1>7, Zenon DEF Freed
<1>10. Len(l) <= NumReass /\ q.count <= MaxPbufs
  <2>1. Len(l) \in Nat /\ Len(l) <= Len(list)
    BY <1>2, <1>7, Zenon DEF Freed
  <2>2. Len(list) \in Nat
    BY <1>5 DEF Rows
  <2>3. count \in Nat
    BY <1>5, FS_CardinalityType, Zenon DEF Counted, Pbufs
  <2> QED
    BY <1>5, <1>9, <2>1, <2>2, <2>3, ReassAssumption
<1>11. \A a \in DOMAIN l : l[a].timer # 0 /\ Waits(l[a])
  BY <1>2, <1>3, <1>5, <1>8, Zenon
<1> HIDE DEF l
<1>12. l \in Seq(Entry) /\ Len(l) \in Nat /\ DOMAIN l = 1 .. Len(l)
  BY <1>9 DEF Rows
<1>13. ASSUME NEW a \in DOMAIN l
       PROVE  k[a] \in Entry /\ Similar(l[a], k[a]) /\ k[a].timer = l[a].timer - 1
  <2>1. l[a] \in Entry /\ l[a].timer # 0
    BY <1>11, <1>12
  <2>2. k[a] = [l[a] EXCEPT !.timer = l[a].timer - 1]
    BY <1>4
  <2>3. l[a].timer - 1 \in 0 .. MaxAge
    BY <2>1, ReassAssumption DEF Entry
  <2>4. /\ k[a] \in Entry /\ k[a].id = l[a].id /\ k[a].frags = l[a].frags /\ k[a].last = l[a].last
        /\ k[a].len = l[a].len /\ k[a].first = l[a].first /\ k[a].timer = l[a].timer - 1
    BY <2>1, <2>2, <2>3 DEF Entry
  <2> QED
    BY <2>4 DEF Similar
<1>14. k \in Seq(Entry) /\ Len(k) = Len(l)
  <2>1. k = [a \in 1 .. Len(l) |-> k[a]]
    BY <1>4, <1>12, Zenon
  <2>2. \A a \in 1 .. Len(l) : k[a] \in Entry
    BY <1>12, <1>13, Zenon
  <2>3. k \in [1 .. Len(l) -> Entry]
    BY <2>1, <2>2, Zenon
  <2> QED
    BY <1>12, <2>3, SeqOf, Zenon
<1>15. \A a, b \in DOMAIN l : a < b => k[a].timer >= k[b].timer
  <2> SUFFICES ASSUME NEW a \in DOMAIN l, NEW b \in DOMAIN l, a < b PROVE k[a].timer >= k[b].timer
    OBVIOUS
  <2>1. l[a].timer >= l[b].timer
    BY <1>9, Zenon DEF Rows
  <2>2. l[a].timer \in Int /\ l[b].timer \in Int
    <3>1. l[a] \in Entry /\ l[b] \in Entry
      BY <1>12
    <3> QED
      BY <3>1, ReassAssumption DEF Entry
  <2>3. k[a].timer = l[a].timer - 1 /\ k[b].timer = l[b].timer - 1
    BY <1>13
  <2> QED
    BY <2>1, <2>2, <2>3
<1>16. SimilarLists(l, k)
  BY <1>13, <1>14, <1>15, Zenon DEF SimilarLists
<1>17. Rows(k, len) /\ Counted(k, q.count) /\ DOMAIN k = DOMAIN l /\ StillWait(l, k)
  BY <1>9, <1>16, SimilarRows
<1>18. \A a \in DOMAIN k : Waits(k[a])
  BY <1>11, <1>17, Zenon DEF StillWait
<1>19. /\ Rows(list', len') /\ Len(list') <= NumReass /\ Counted(list', count') /\ count' <= MaxPbufs
       /\ \A i \in DOMAIN list' : Waits(list'[i])
  BY <1>1, <1>10, <1>14, <1>17, <1>18
<1> QED
  BY <1>1, <1>5, <1>19 DEF ReassInv

\* What ip4_frag() sends: pieces of the datagram, and if the MTU is a whole number of
\* units the piece without IP_MF is the one that ends it.
LEMMA FragmentsAre ==
    ASSUME NEW id \in Ids, NEW n \in Nat, NEW f \in Fragments(id, n)
    PROVE  /\ f.id = id /\ f.start \in Nat /\ f.end \in Nat /\ f.start < f.end /\ f.end <= n
           /\ f.mf \in BOOLEAN
           /\ WholeUnits /\ ~f.mf => f.end = n
<1> DEFINE size == (Room \div Unit) * Unit
<1>1. PICK k \in {j \in 0 .. n : j * size < n} :
          f = [id    |-> id,
               start |-> k * size,
               end   |-> IF n - k * size < size THEN n ELSE (k + 1) * size,
               mf    |-> n - k * size > Room]
  BY Zenon DEF Fragments
<1>2. k \in Nat /\ k * size < n
  BY <1>1
<1>3. size \in Nat /\ size > 0 /\ Room \in Nat
  <2>1. Unit \in Nat \ {0} /\ Room \in Nat /\ Room >= Unit
    BY ReassAssumption
  <2>2. Room \div Unit \in Nat /\ Room \div Unit > 0
    BY <2>1
  <2> DEFINE d == Room \div Unit
  <2> HIDE DEF d
  <2>3. d \in Nat /\ d > 0 => d * Unit \in Nat /\ d * Unit > 0
    BY <2>1
  <2> QED
    BY <2>1, <2>2, <2>3 DEF d
<1>w. WholeUnits => size = Room
  BY DEF WholeUnits
<1> HIDE DEF size
<1> DEFINE s == k * size
<1>4. s \in Nat /\ s < n /\ (k + 1) * size = s + size
  BY <1>2, <1>3
<1>5. /\ f.id = id /\ f.start = s /\ f.mf = (n - s > Room)
      /\ f.end = IF n - s < size THEN n ELSE s + size
  BY <1>1, <1>4
<1> HIDE DEF s
<1>6. f.mf \in BOOLEAN
  BY <1>5
<1>7. f.start \in Nat /\ f.end \in Nat /\ f.start < f.end /\ f.end <= n
  BY <1>3, <1>4, <1>5
<1>8. WholeUnits /\ ~f.mf => f.end = n
  <2> SUFFICES ASSUME WholeUnits, ~f.mf PROVE f.end = n
    OBVIOUS
  <2>1. size = Room
    BY <1>w
  <2>2. ~(n - s > Room)
    BY <1>5, Zenon
  <2> QED
    BY <1>3, <1>4, <1>5, <2>1, <2>2
<1> QED
  BY <1>5, <1>6, <1>7, <1>8

\* Sending a datagram leaves the others as they were: nothing of it is in the list yet.
LEMMA SendInv ==
    ASSUME ReassInv, NEW id \in Ids, NEW n \in Lens, Send(id, n)
    PROVE  ReassInv'
<1>0. n \in Nat
  BY ReassAssumption
<1>1. /\ len[id] = 0 /\ len' = [len EXCEPT ![id] = n]
      /\ out' = {} /\ list' = list /\ count' = count
      /\ \A f \in net' : f \in net \/ f \in Fragments(id, n)
  BY DEF Send
<1>2. /\ len \in [Ids -> Nat] /\ \A f \in net : FragOK(f, len)
      /\ Rows(list, len) /\ Len(list) <= NumReass
      /\ Counted(list, count) /\ count <= MaxPbufs
      /\ \A i \in DOMAIN list : Waits(list[i])
  BY DEF ReassInv
<1>3. /\ len' \in [Ids -> Nat] /\ len'[id] = n
      /\ \A x \in Ids : x # id => len'[x] = len[x]
  BY <1>0, <1>1, <1>2
<1>4. ASSUME NEW i \in DOMAIN list PROVE EntryOK(list[i], len')
  <2> DEFINE e == list[i]
  <2>1. EntryOK(e, len) /\ e.frags # <<>>
    BY <1>2, Zenon DEF Rows, Waits
  <2> HIDE DEF e
  <2>2. e.id # id
    <3> SUFFICES ASSUME e.id = id PROVE FALSE
      OBVIOUS
    <3>1. Ordered(e.frags) /\ \A j \in DOMAIN e.frags : e.frags[j].end <= len[id]
      BY <2>1, Zenon DEF EntryOK
    <3>2. e.frags \in Seq(Frag) /\ 1 \in DOMAIN e.frags
      BY <2>1, <3>1 DEF Ordered
    <3>3. e.frags[1] \in Frag /\ e.frags[1].start < e.frags[1].end /\ e.frags[1].end <= 0
      BY <1>1, <3>1, <3>2 DEF Ordered
    <3> QED
      BY <3>3 DEF Frag
  <2>3. e.id \in Ids => len'[e.id] = len[e.id]
    BY <1>3, <2>2, Zenon
  <2> QED
    BY <2>1, <2>3, Zenon DEF EntryOK, e
<1>5. Rows(list, len')
  BY <1>2, <1>4, Zenon DEF Rows
<1>6. ASSUME NEW f \in net' PROVE FragOK(f, len')
  <2>1. CASE f \in net
    <3>1. FragOK(f, len)
      BY <1>2, <2>1
    <3>2. f.id # id
      BY <1>1, <3>1 DEF FragOK
    <3>3. f.id \in Ids => len'[f.id] = len[f.id]
      BY <1>3, <3>2, Zenon
    <3> QED
      BY <3>1, <3>3, Zenon DEF FragOK
  <2>2. CASE f \in Fragments(id, n)
    <3>1. /\ f.id = id /\ f.start \in Nat /\ f.end \in Nat /\ f.start < f.end /\ f.end <= n
          /\ f.mf \in BOOLEAN
          /\ WholeUnits /\ ~f.mf => f.end = n
      BY <1>0, <2>2, FragmentsAre
    <3>2. f.id \in AllIds /\ len'[f.id] = n
      BY <1>3, <3>1 DEF AllIds
    <3> QED
      BY <3>1, <3>2, Zenon DEF FragOK
  <2> QED
    BY <1>1, <2>1, <2>2, Zenon
<1> QED
  BY <1>1, <1>2, <1>3, <1>5, <1>6, Zenon DEF ReassInv

\* Nothing is in reassembly at the start.
LEMMA InitInv ==
    ASSUME Init
    PROVE  ReassInv
<1>1. len \in [Ids -> Nat] /\ list = <<>> /\ count = 0 /\ out = {} /\ net = Foreign
  BY DEF Init
<1>2. ASSUME NEW f \in net PROVE FragOK(f, len)
  BY <1>1, <1>2, ForeignAssumption DEF FragOK, AllIds
<1>3. Rows(list, len) /\ Len(list) <= NumReass
  BY <1>1, ReassAssumption DEF Rows
<1>4. Bufs(list, DOMAIN list) = {}
  <2>1. \A x : ~IsBuf(x, list, DOMAIN list)
    BY <1>1 DEF IsBuf
  <2> QED
    BY <2>1, BufsAre, Zenon
<1>5. Counted(list, count) /\ count <= MaxPbufs
  BY <1>1, <1>4, FS_EmptySet, ReassAssumption DEF Counted, Pbufs
<1>6. \A i \in DOMAIN list : Waits(list[i])
  BY <1>1
<1>7. \A d \in out : OutOK(d, len)
  BY <1>1
<1> QED
  BY <1>1, <1>2, <1>3, <1>5, <1>6, <1>7 DEF ReassInv

\* A step that changes nothing.
LEMMA StutterInv ==
    ASSUME ReassInv, UNCHANGED vars
    PROVE  ReassInv'
<1>1. len' = len /\ net' = net /\ list' = list /\ count' = count /\ out' = out
  BY DEF vars
<1> QED
  BY <1>1 DEF ReassInv

\* ReassInv is an invariant of fragmentation, the network and reassembly.
THEOREM Reassembly == Spec => []ReassInv
<1>1. Init => ReassInv
  BY InitInv
<1>2. ReassInv /\ [Next]_vars => ReassInv'
  <2> SUFFICES ASSUME ReassInv, [Next]_vars PROVE ReassInv'
    OBVIOUS
  <2>1. CASE \E id \in Ids, n \in Lens : Send(id, n)
    BY <2>1, SendInv
  <2>2. CASE \E f \in net : Input(f)
    BY <2>2, InputInv
  <2>3. CASE Tmr
    BY <2>3, TmrInv
  <2>4. CASE UNCHANGED vars
    BY <2>4, StutterInv
  <2> QED
    BY <2>1, <2>2, <2>3, <2>4 DEF Next
<1> QED
  BY <1>1, <1>2, PTL DEF Spec

-----------------------------------------------------------------------------
(* The properties.                                                         *)

\* The list of ip4_reass() is well formed and ip_reass_pbufcount is what it holds,
\* whatever was evicted, timed out, dropped or handed over, for any number of
\* entries, pbufs and datagrams and any loss, repetition and order of fragments.
THEOREM ListIsSound == Spec => []ListSound
<1>1. ReassInv => ListSound
  <2> SUFFICES ASSUME ReassInv PROVE ListSound
    OBVIOUS
  <2>1. /\ Rows(list, len) /\ Len(list) <= NumReass /\ Counted(list, count) /\ count <= MaxPbufs
        /\ \A i \in DOMAIN list : Waits(list[i])
    BY DEF ReassInv
  <2>2. \A i \in DOMAIN list : list[i].frags # <<>> /\ Disjoint(list[i].frags)
    BY <2>1, Zenon DEF Rows, EntryOK, Ordered, Waits
  <2>3. \A i \in DOMAIN list : list[i].frags[1].start = 0 => list[i].first
    BY <2>1, <2>2, Zenon DEF Rows, EntryOK
  <2>4. QueueShape
    BY <2>1, <2>2, <2>3, Zenon DEF QueueShape, Rows
  <2>5. count = Pbufs(list, DOMAIN list) /\ count \in Nat
    BY <2>1, FS_CardinalityType, Zenon DEF Counted, Pbufs
  <2>6. PbufsCounted
    BY <2>1, <2>5, ReassAssumption DEF PbufsCounted
  <2> QED
    BY <2>4, <2>6 DEF ListSound
<1> QED
  BY <1>1, Reassembly, PTL

\* No datagram of which everything is here stays in the list: the walk of
\* ip_reass_chain_frag_into_datagram_and_validate() finds every completion.
THEOREM NoCompletionMissed == Spec => []NothingCompleteWaits
<1>1. ReassInv => NothingCompleteWaits
  BY Zenon DEF ReassInv, NothingCompleteWaits, Waits
<1> QED
  BY <1>1, Reassembly, PTL

\* With an MTU that is a whole number of fragment units (1500 is), what ip4_reass()
\* returns is what ip4_frag() was given, and has no byte twice, for every MTU, length
\* and order of arrival.
THEOREM DeliveryIsExact ==
    ASSUME (Room \div Unit) * Unit = Room
    PROVE  Spec => []DeliveredIsSent
<1>1. ReassInv => DeliveredIsSent
  BY Zenon DEF ReassInv, DeliveredIsSent, OutOK, WholeUnits
<1> QED
  BY <1>1, Reassembly, PTL

\* The oldest entry is always the last one of the list, which answers the question
\* in ip_reass_remove_oldest_datagram() whether it could simply remove that one: the
\* comparison of timers picks no other.
OldestIsLast == \A i, j \in DOMAIN list : Older(list, i, j) <=> i > j

\* New entries go to the front with the full timer, and all timers run together.
THEOREM OldestLast == Spec => []OldestIsLast
<1>1. ReassInv => OldestIsLast
  <2> SUFFICES ASSUME ReassInv, NEW i \in DOMAIN list, NEW j \in DOMAIN list
               PROVE  Older(list, i, j) <=> i > j
    BY DEF OldestIsLast
  <2>1. list \in Seq(Entry) /\ \A a, b \in DOMAIN list : a < b => list[a].timer >= list[b].timer
    BY DEF ReassInv, Rows
  <2>2. list[i] \in Entry /\ list[j] \in Entry /\ i \in Nat /\ j \in Nat
    BY <2>1
  <2>3. list[i].timer \in Int /\ list[j].timer \in Int
    BY <2>2, ReassAssumption DEF Entry
  <2> QED
    BY <2>1, <2>2, <2>3 DEF Older
<1> QED
  BY <1>1, Reassembly, PTL
=============================================================================
