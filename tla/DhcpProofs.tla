----------------------------- MODULE DhcpProofs -----------------------------
(***************************************************************************)
(* Proofs about Dhcp, for every set of addresses and leases and every      *)
(* limit: a link-local address is on the interface only while AutoIP holds *)
(* it, ACD probes only for a client that checks the address, the client    *)
(* never waits for something that is not going to happen, and acd_remove   *)
(* finds the client it is told to remove.                                  *)
(*                                                                         *)
(* The functions of the code are operators from a netif to a netif, so     *)
(* there is a lemma for each that says what it leaves alone and what it    *)
(* sets, and the steps are put together from those.                        *)
(***************************************************************************)
EXTENDS Dhcp, TLAPS

Clients == {"dhcp", "autoip"}

\* A function on S, whatever its values.
Fcn(f, S) == f = [x \in S |-> f[x]]

\* The fields of the structs.
NetifFields == {"link", "addr", "dhcp", "acd", "acd_list", "autoip", "wire"}
DhcpFields == {"state", "tries", "timeout", "offered", "lease", "used", "t0", "t1_renew",
               "t2", "t2_rebind"}
AcdFields == {"state", "ipaddr", "sent", "lastconflict", "conflicts"}
AutoipFields == {"state", "llipaddr", "tried"}

\* A list of ACD clients, none twice.
GoodList(l) ==
  /\ l \in Seq(Clients)
  /\ \A i, j \in 1 .. Len(l) : l[i] = l[j] => i = j

Shape(n) ==
  /\ Fcn(n, NetifFields) /\ Fcn(n.dhcp, DhcpFields) /\ Fcn(n.autoip, AutoipFields)
  /\ Fcn(n.acd, Clients) /\ \A m \in Clients : Fcn(n.acd[m], AcdFields)
  /\ GoodList(n.acd_list)

\* What LinkLocalHeld says, of any netif.
Held(n) ==
  n.addr \in LL => n.autoip.state = "BOUND" /\ n.autoip.llipaddr = n.addr

Probes(n) == n.acd["dhcp"].state \in Probing \cup {"ANNOUNCING"}

\* The DHCP client of r is the one of n, and so is its ACD client.
SameDhcp(n, r) ==
  /\ r.link = n.link /\ r.dhcp = n.dhcp /\ r.acd["dhcp"] = n.acd["dhcp"]
  /\ Listed(r, "dhcp") <=> Listed(n, "dhcp")

\* What AutoIP and its ACD client may do to a netif.
AutoStep(n, r) == Shape(r) /\ SameDhcp(n, r) /\ (Held(n) => Held(r))

\* r is like n but for the fields of dhcp.
OnlyDhcp(n, r) ==
  /\ Shape(r) /\ r.link = n.link /\ r.addr = n.addr /\ r.acd = n.acd
  /\ r.acd_list = n.acd_list /\ r.autoip = n.autoip

\* r is like n but for the ACD client m.
OnlyAcd(n, r, m) ==
  /\ Shape(r) /\ r.link = n.link /\ r.addr = n.addr /\ r.dhcp = n.dhcp
  /\ r.acd_list = n.acd_list /\ r.autoip = n.autoip
  /\ \A k \in Clients : k # m => r.acd[k] = n.acd[k]

(***************************************************************************)
(* The list of ACD clients.                                                *)
(***************************************************************************)

\* acd_add puts the client in front, unless it is there.
LEMMA ListAdd ==
  ASSUME NEW l, GoodList(l), NEW m \in Clients, ~OnList(l, m)
  PROVE  /\ GoodList(<<m>> \o l)
         /\ \A k : OnList(<<m>> \o l, k) <=> OnList(l, k) \/ k = m
<1>1. l \in Seq(Clients) /\ Len(l) \in Nat
  BY DEF GoodList
<1> DEFINE r == <<m>> \o l
<1>2. r \in Seq(Clients) /\ Len(r) = Len(l) + 1
  BY <1>1
<1>3. r[1] = m /\ \A i \in 1 .. Len(l) : r[i + 1] = l[i]
  BY <1>1
<1> HIDE DEF r
<1>4. \A i \in 1 .. Len(r) : i = 1 \/ (i - 1 \in 1 .. Len(l) /\ r[i] = l[i - 1])
  BY <1>1, <1>2, <1>3
<1>5. \A i, j \in 1 .. Len(r) : r[i] = r[j] => i = j
  <2>1. \A i \in 1 .. Len(l) : l[i] # m
    BY Zenon DEF OnList
  <2>2. \A i, j \in 1 .. Len(l) : l[i] = l[j] => i = j
    BY Zenon DEF GoodList
  <2>3. ASSUME NEW i \in 1 .. Len(r), NEW j \in 1 .. Len(r), r[i] = r[j] PROVE i = j
    <3>1. CASE i = 1 /\ j # 1
      BY <1>3, <1>4, <2>1, <2>3, <3>1, ZenonT(30)
    <3>2. CASE i # 1 /\ j = 1
      BY <1>3, <1>4, <2>1, <2>3, <3>2, ZenonT(30)
    <3>3. CASE i # 1 /\ j # 1
      <4>1. i - 1 = j - 1
        BY <1>4, <2>2, <2>3, <3>3, Zenon
      <4> QED
        BY <1>1, <1>2, <4>1
    <3> QED
      BY <3>1, <3>2, <3>3, Zenon
  <2> QED
    BY <2>3, Zenon
<1>6. \A k : OnList(r, k) <=> OnList(l, k) \/ k = m
  <2>1. ASSUME NEW k, OnList(r, k) PROVE OnList(l, k) \/ k = m
    BY <1>3, <1>4, <2>1 DEF OnList
  <2>2. ASSUME NEW k, OnList(l, k) \/ k = m PROVE OnList(r, k)
    <3>1. CASE k = m
      BY <1>1, <1>2, <1>3, <3>1 DEF OnList
    <3>2. CASE OnList(l, k)
      <4>1. PICK i \in 1 .. Len(l) : l[i] = k
        BY <3>2, Zenon DEF OnList
      <4>2. i + 1 \in 1 .. Len(r) /\ r[i + 1] = k
        BY <1>1, <1>2, <1>3, <4>1
      <4> QED
        BY <4>2, Zenon DEF OnList
    <3> QED
      BY <2>2, <3>1, <3>2, Zenon
  <2> QED
    BY <2>1, <2>2, Zenon
<1> QED
  BY <1>2, <1>5, <1>6, Zenon DEF GoodList, r

\* acd_remove takes the client out and leaves the others.
LEMMA ListRemove ==
  ASSUME NEW l, GoodList(l), NEW i \in 1 .. Len(l)
  PROVE  GoodList(Without(l, i)) /\ ~OnList(Without(l, i), l[i])
<1>1. l \in Seq(Clients) /\ Len(l) \in Nat /\ \A a, b \in 1 .. Len(l) : l[a] = l[b] => a = b
  BY DEF GoodList
<1> DEFINE r == Without(l, i)
<1>2. /\ SubSeq(l, 1, i - 1) \in Seq(Clients) /\ Len(SubSeq(l, 1, i - 1)) = i - 1
      /\ \A a \in 1 .. i - 1 : SubSeq(l, 1, i - 1)[a] = l[a]
  BY <1>1
<1>3. /\ SubSeq(l, i + 1, Len(l)) \in Seq(Clients) /\ Len(SubSeq(l, i + 1, Len(l))) = Len(l) - i
      /\ \A a \in 1 .. Len(l) - i : SubSeq(l, i + 1, Len(l))[a] = l[i + a]
  BY <1>1
<1>4. /\ r \in Seq(Clients) /\ Len(r) = Len(l) - 1
      /\ \A a \in 1 .. Len(r) : r[a] = IF a < i THEN l[a] ELSE l[a + 1]
  <2> DEFINE s == SubSeq(l, 1, i - 1)
             t == SubSeq(l, i + 1, Len(l))
  <2> HIDE DEF s, t
  <2>0. i \in 1 .. Len(l) /\ Len(l) \in Nat
    BY <1>1, Zenon
  <2>1. s \in Seq(Clients) /\ t \in Seq(Clients) /\ Len(s) = i - 1 /\ Len(t) = Len(l) - i
    BY <1>2, <1>3, Zenon DEF s, t
  <2>2. r = s \o t
    BY Zenon DEF s, t, Without
  <2>3. s \o t \in Seq(Clients) /\ Len(s \o t) = Len(s) + Len(t)
        /\ \A a \in 1 .. Len(s) + Len(t) : (s \o t)[a] = IF a <= Len(s) THEN s[a] ELSE t[a - Len(s)]
    BY <2>1, SMTT(30)
  <2>4. ASSUME NEW a \in 1 .. Len(l) - 1 PROVE r[a] = IF a < i THEN l[a] ELSE l[a + 1]
    <3>1. CASE a < i
      BY <1>2, <2>0, <2>1, <2>2, <2>3, <3>1 DEF s
    <3>2. CASE a >= i
      <4>1. r[a] = t[a - (i - 1)] /\ a - (i - 1) \in 1 .. Len(l) - i
        BY <2>0, <2>1, <2>2, <2>3, <3>2
      <4>2. t[a - (i - 1)] = l[i + (a - (i - 1))]
        BY <1>3, <4>1, Zenon DEF t
      <4>3. i + (a - (i - 1)) = a + 1
        BY <2>0
      <4> QED
        BY <2>0, <3>2, <4>1, <4>2, <4>3
    <3> QED
      BY <2>0, <3>1, <3>2
  <2>5. r \in Seq(Clients) /\ Len(r) = Len(l) - 1
    BY <2>0, <2>1, <2>2, <2>3
  <2> HIDE DEF r
  <2> QED
    BY <2>4, <2>5, Zenon
<1> HIDE DEF r
<1> DEFINE at(a) == IF a < i THEN a ELSE a + 1
<1>5. \A a \in 1 .. Len(r) : r[a] = l[at(a)] /\ at(a) \in 1 .. Len(l) /\ at(a) # i
  BY <1>1, <1>4
<1>6. \A a, b \in 1 .. Len(r) : at(a) = at(b) => a = b
  BY <1>1, <1>4
<1> HIDE DEF at
<1>7. GoodList(r)
  BY <1>1, <1>4, <1>5, <1>6 DEF GoodList
<1>8. ~OnList(r, l[i])
  BY <1>1, <1>5, Zenon DEF OnList
<1> QED
  BY <1>7, <1>8, Zenon DEF r

\* dhcp_start cuts the list behind the client.
LEMMA ListCut ==
  ASSUME NEW l, GoodList(l), NEW i \in 1 .. Len(l)
  PROVE  GoodList(SubSeq(l, 1, i)) /\ OnList(SubSeq(l, 1, i), l[i])
<1>1. l \in Seq(Clients) /\ Len(l) \in Nat /\ \A a, b \in 1 .. Len(l) : l[a] = l[b] => a = b
  BY DEF GoodList
<1>2. /\ SubSeq(l, 1, i) \in Seq(Clients) /\ Len(SubSeq(l, 1, i)) = i
      /\ \A a \in 1 .. i : SubSeq(l, 1, i)[a] = l[a]
  BY <1>1
<1> QED
  BY <1>1, <1>2 DEF GoodList, OnList

(***************************************************************************)
(* ACD clients.                                                            *)
(***************************************************************************)

\* A step that leaves the list alone leaves alone who is on it.
LEMMA ListedSame == \A n, r, m : r.acd_list = n.acd_list => (Listed(r, m) <=> Listed(n, m))
  BY Zenon DEF Listed

\* acd_add.
LEMMA AcdAddIs ==
  ASSUME NEW n, Shape(n), NEW m \in Clients, NEW r, r = AcdAdd(n, m)
  PROVE  /\ Shape(r) /\ r.link = n.link /\ r.addr = n.addr /\ r.dhcp = n.dhcp
         /\ r.acd = n.acd /\ r.autoip = n.autoip
         /\ \A k : Listed(r, k) <=> Listed(n, k) \/ k = m
<1>1. CASE Listed(n, m)
  BY <1>1, Zenon DEF AcdAdd
<1>2. CASE ~Listed(n, m)
  <2> DEFINE l == <<m>> \o n.acd_list
  <2>1. r = [n EXCEPT !.acd_list = l]
    BY <1>2, Zenon DEF AcdAdd
  <2>2. GoodList(l) /\ \A k : OnList(l, k) <=> OnList(n.acd_list, k) \/ k = m
    BY <1>2, ListAdd, Zenon DEF Shape, Listed
  <2> HIDE DEF l
  <2>3. /\ Shape(r) /\ r.link = n.link /\ r.addr = n.addr /\ r.dhcp = n.dhcp
        /\ r.acd = n.acd /\ r.autoip = n.autoip /\ r.acd_list = l
    BY <2>1, <2>2 DEF Shape, Fcn, NetifFields
  <2> QED
    BY <2>2, <2>3, Zenon DEF Listed
<1> QED
  BY <1>1, <1>2, Zenon

\* acd_remove.
LEMMA AcdRemoveIs ==
  ASSUME NEW n, Shape(n), NEW m \in Clients, NEW r, r = AcdRemove(n, m)
  PROVE  /\ Shape(r) /\ r.link = n.link /\ r.addr = n.addr /\ r.dhcp = n.dhcp
         /\ r.acd = n.acd /\ r.autoip = n.autoip
         /\ ~Listed(r, m)
<1>1. CASE ~Listed(n, m)
  BY <1>1, Zenon DEF AcdRemove
<1>2. CASE Listed(n, m)
  <2>1. AcdAt(n, m) \in 1 .. Len(n.acd_list) /\ n.acd_list[AcdAt(n, m)] = m
    BY <1>2, Zenon DEF Listed, OnList, AcdAt
  <2> DEFINE l == Without(n.acd_list, AcdAt(n, m))
  <2>2. r = [n EXCEPT !.acd_list = l]
    BY <1>2, Zenon DEF AcdRemove
  <2>3. GoodList(l) /\ ~OnList(l, m)
    BY <2>1, ListRemove, Zenon DEF Shape
  <2> HIDE DEF l
  <2>4. /\ Shape(r) /\ r.link = n.link /\ r.addr = n.addr /\ r.dhcp = n.dhcp
        /\ r.acd = n.acd /\ r.autoip = n.autoip /\ r.acd_list = l
    BY <2>2, <2>3 DEF Shape, Fcn, NetifFields
  <2> QED
    BY <2>3, <2>4, Zenon DEF Listed
<1> QED
  BY <1>1, <1>2, Zenon

\* acd_start.
LEMMA AcdStartIs ==
  ASSUME NEW n, Shape(n), NEW m \in Clients, NEW a, NEW r, r = AcdStart(n, m, a)
  PROVE  OnlyAcd(n, r, m) /\ r.acd[m].state = "PROBE_WAIT" /\ r.acd[m].ipaddr = a
  BY Zenon DEF Shape, Fcn, AcdStart, OnlyAcd, Clients, NetifFields, AcdFields

\* acd_stop.
LEMMA AcdStopIs ==
  ASSUME NEW n, Shape(n), NEW m \in Clients, NEW r, r = AcdStop(n, m)
  PROVE  OnlyAcd(n, r, m) /\ r.acd[m].state = "OFF"
  BY Zenon DEF Shape, Fcn, AcdStop, OnlyAcd, Clients, NetifFields, AcdFields

\* The fields of an ACD client that its steps change: state,
LEMMA AcdState ==
  ASSUME NEW n, Shape(n), NEW m \in Clients, NEW s, NEW r, r = [n EXCEPT !.acd[m].state = s]
  PROVE  OnlyAcd(n, r, m) /\ r.acd[m].state = s
  BY Zenon DEF Shape, Fcn, OnlyAcd, Clients, NetifFields, AcdFields

\* number of conflicts,
LEMMA AcdCount ==
  ASSUME NEW n, Shape(n), NEW m \in Clients, NEW k, NEW r,
         r = [n EXCEPT !.acd[m].conflicts = k]
  PROVE  /\ OnlyAcd(n, r, m)
         /\ r.acd[m].state = n.acd[m].state /\ r.acd[m].ipaddr = n.acd[m].ipaddr
  BY SMTT(30) DEF Shape, Fcn, OnlyAcd, Clients, NetifFields, AcdFields

\* and time of the last one.
LEMMA AcdFlag ==
  ASSUME NEW n, Shape(n), NEW m \in Clients, NEW k, NEW r,
         r = [n EXCEPT !.acd[m].lastconflict = k]
  PROVE  /\ OnlyAcd(n, r, m)
         /\ r.acd[m].state = n.acd[m].state /\ r.acd[m].ipaddr = n.acd[m].ipaddr
  BY SMTT(30) DEF Shape, Fcn, OnlyAcd, Clients, NetifFields, AcdFields

(***************************************************************************)
(* AutoIP leaves the DHCP client alone, and what it does to the address of *)
(* the interface it knows.                                                 *)
(***************************************************************************)

\* Steps that leave the DHCP client alone follow each other.
LEMMA AutoThen == \A n, x, r : AutoStep(n, x) /\ AutoStep(x, r) => AutoStep(n, r)
  BY DEF AutoStep, SameDhcp

\* Its own ACD client is not the DHCP client's.
LEMMA AutoAcd == \A n, r : OnlyAcd(n, r, "autoip") => AutoStep(n, r)
  BY ListedSame, Zenon DEF OnlyAcd, AutoStep, SameDhcp, Held, Clients

\* The address ANY is no link-local one.
LEMMA AnyNotLL == AddrAny \notin LL
  BY DhcpAssumption DEF AddrAny, LL

\* autoip_start.
LEMMA AutoipStartIs ==
  ASSUME NEW n, Shape(n)
  PROVE  AutoStep(n, AutoipStart(n))
<1>1. CASE n.autoip.state # "OFF"
  BY <1>1, Zenon DEF AutoipStart, AutoStep, SameDhcp
<1>2. CASE n.autoip.state = "OFF"
  <2> DEFINE ll == IF n.autoip.llipaddr \in LL THEN n.autoip.llipaddr ELSE AutoipCreateAddr(n)
             x == AcdAdd(n, "autoip")
             y == [x EXCEPT !.autoip.state = "CHECKING", !.autoip.llipaddr = ll]
             r == AcdStart(y, "autoip", ll)
  <2>1. AutoipStart(n) = r
    BY <1>2, Zenon DEF AutoipStart
  <2> HIDE DEF ll
  <2>2. Shape(x) /\ SameDhcp(n, x) /\ x.addr = n.addr
    BY AcdAddIs, Zenon DEF SameDhcp, Clients
  <2> HIDE DEF x
  <2>3. Shape(y) /\ SameDhcp(x, y) /\ y.addr = x.addr
    BY <2>2, ZenonT(30) DEF Shape, Fcn, SameDhcp, Listed, NetifFields, AutoipFields
  <2> HIDE DEF y
  <2>4. OnlyAcd(y, r, "autoip")
    BY <2>3, AcdStartIs, Zenon DEF Clients
  <2>5. AutoStep(y, r) /\ r.addr = y.addr
    BY <2>4, AutoAcd, Zenon DEF OnlyAcd
  <2> HIDE DEF r
  <2> QED
    BY <1>2, <2>1, <2>2, <2>3, <2>5, ZenonT(30) DEF AutoStep, SameDhcp, Held
<1> QED
  BY <1>1, <1>2, Zenon

\* autoip_restart.
LEMMA AutoipRestartIs ==
  ASSUME NEW n, Shape(n)
  PROVE  AutoStep(n, AutoipRestart(n))
<1> DEFINE x == [n EXCEPT !.autoip.tried = (n.autoip.tried + 1) % LinkLocals]
<1>1. AutoipRestart(n) = AutoipStart(x)
  BY Zenon DEF AutoipRestart
<1>2. AutoStep(n, x)
  BY Zenon DEF AutoStep, Held, Shape, Fcn, SameDhcp, Listed, NetifFields, AutoipFields
<1> HIDE DEF x
<1> QED
  BY <1>1, <1>2, AutoipStartIs, AutoThen, Zenon DEF AutoStep

\* The address of the interface alone.
LEMMA AddrSet ==
  ASSUME NEW n, Shape(n), NEW a, NEW r, r = [n EXCEPT !.addr = a]
  PROVE  Shape(r) /\ SameDhcp(n, r) /\ r.addr = a /\ r.autoip = n.autoip
  BY Zenon DEF Shape, Fcn, SameDhcp, Listed, NetifFields

\* The state of AutoIP alone.
LEMMA OffSet ==
  ASSUME NEW n, Shape(n), NEW s, NEW r, r = [n EXCEPT !.autoip.state = s]
  PROVE  /\ Shape(r) /\ SameDhcp(n, r)
         /\ r.autoip.state = s /\ r.autoip.llipaddr = n.autoip.llipaddr
  BY Zenon DEF Shape, Fcn, SameDhcp, Listed, NetifFields, AutoipFields

\* autoip_stop leaves no link-local address.
LEMMA AutoipStopIs ==
  ASSUME NEW n, Shape(n)
  PROVE  /\ Shape(AutoipStop(n)) /\ SameDhcp(n, AutoipStop(n))
         /\ AutoipStop(n).addr \notin LL
<1> DEFINE a == IF n.addr \in LL THEN AddrAny ELSE n.addr
           x == [n EXCEPT !.autoip.state = "OFF"]
           r == [x EXCEPT !.addr = a]
<1>1. AutoipStop(n) = r
  BY Zenon DEF AutoipStop, Shape, Fcn, NetifFields
<1>2. a \notin LL
  BY AnyNotLL, Zenon
<1>3. Shape(x) /\ SameDhcp(n, x)
  BY OffSet, Zenon
<1> HIDE DEF a, x
<1>4. Shape(r) /\ SameDhcp(x, r) /\ r.addr = a
  BY <1>3, AddrSet, SMTT(30)
<1> HIDE DEF r
<1> QED
  BY <1>1, <1>2, <1>3, <1>4, Zenon DEF SameDhcp

\* Nor does declining it.
LEMMA AutoipDeclineIs ==
  ASSUME NEW n, Shape(n), NEW r, r = AutoipDecline(n)
  PROVE  Shape(r) /\ SameDhcp(n, r) /\ r.addr \notin LL
<1> DEFINE x == [n EXCEPT !.autoip.llipaddr = AddrAny]
<1>1. r = AutoipStop(x)
  BY Zenon DEF AutoipDecline
<1>2. Shape(x) /\ SameDhcp(n, x)
  BY Zenon DEF Shape, Fcn, SameDhcp, Listed, NetifFields, AutoipFields
<1> HIDE DEF x
<1>3. Shape(r) /\ SameDhcp(x, r) /\ r.addr \notin LL
  BY <1>1, <1>2, AutoipStopIs, Zenon
<1> QED
  BY <1>2, <1>3, Zenon DEF SameDhcp

\* acd_put_in_passive_mode, for AutoIP's client.
LEMMA PassiveIs ==
  ASSUME NEW n, Shape(n), NEW r, r = PutInPassiveMode(n, "autoip")
  PROVE  Shape(r) /\ SameDhcp(n, r)
<1>1. CASE n.acd["autoip"].state \in Probing \cup {"RATE_LIMIT"}
  <2> DEFINE x == AcdStop(n, "autoip")
  <2>1. r = AutoipDecline(x)
    BY <1>1, Zenon DEF PutInPassiveMode, Probing
  <2>2. AutoStep(n, x)
    BY AcdStopIs, AutoAcd, Zenon DEF Clients
  <2> HIDE DEF x
  <2>3. Shape(r) /\ SameDhcp(x, r)
    BY <2>1, <2>2, AutoipDeclineIs, ZenonT(30) DEF AutoStep
  <2> QED
    BY <2>2, <2>3, Zenon DEF AutoStep, SameDhcp
<1>2. CASE n.acd["autoip"].state \in {"ANNOUNCING", "ONGOING"}
  <2>1. r = [n EXCEPT !.acd["autoip"].state = "PASSIVE_ONGOING"]
    BY <1>2, Zenon DEF PutInPassiveMode, Probing
  <2> QED
    BY <2>1 DEF Shape, Fcn, SameDhcp, Listed, NetifFields, AcdFields, Clients
<1>3. CASE n.acd["autoip"].state \notin Probing \cup {"RATE_LIMIT", "ANNOUNCING", "ONGOING"}
  <2>1. r = n
    BY <1>3, Zenon DEF PutInPassiveMode, Probing
  <2> QED
    BY <2>1, Zenon DEF SameDhcp
<1> QED
  BY <1>1, <1>2, <1>3, Zenon

\* netif_set_addr.
LEMMA SetAddrIs ==
  ASSUME NEW n, Shape(n), NEW a, NEW r, r = SetAddr(n, a)
  PROVE  Shape(r) /\ SameDhcp(n, r) /\ r.addr = a /\ (a \in LL => r.autoip = n.autoip)
<1> DEFINE passive == /\ n.addr \in LL /\ a \notin LL \cup {AddrAny}
                      /\ Listed(n, "autoip") /\ n.acd["autoip"].ipaddr = n.addr
           x == IF passive THEN PutInPassiveMode(n, "autoip") ELSE n
<1>1. r = [x EXCEPT !.addr = a]
  BY Zenon DEF SetAddr
<1>2. Shape(x) /\ SameDhcp(n, x) /\ (a \in LL => x = n)
  <2>1. CASE passive
    BY <2>1, PassiveIs, Zenon
  <2>2. CASE ~passive
    BY <2>2, Zenon DEF SameDhcp
  <2> QED
    BY <2>1, <2>2, Zenon
<1> HIDE DEF x, passive
<1>3. Shape(r) /\ SameDhcp(x, r) /\ r.addr = a /\ r.autoip = x.autoip
  BY <1>1, <1>2, AddrSet
<1> QED
  BY <1>2, <1>3, Zenon DEF SameDhcp

\* autoip_bind gives the interface the address AutoIP holds from now on.
LEMMA AutoipBindIs ==
  ASSUME NEW n, Shape(n), NEW r, r = AutoipBind(n)
  PROVE  AutoStep(n, r)
<1> DEFINE x == [n EXCEPT !.autoip.state = "BOUND"]
<1>1. r = SetAddr(x, n.autoip.llipaddr)
  BY Zenon DEF AutoipBind
<1>2. /\ Shape(x) /\ SameDhcp(n, x)
      /\ x.autoip.state = "BOUND" /\ x.autoip.llipaddr = n.autoip.llipaddr
  BY Zenon DEF Shape, Fcn, SameDhcp, Listed, NetifFields, AutoipFields
<1> HIDE DEF x
<1>3. /\ Shape(r) /\ SameDhcp(x, r) /\ r.addr = n.autoip.llipaddr
      /\ n.autoip.llipaddr \in LL => r.autoip = x.autoip
  BY <1>1, <1>2, SetAddrIs
<1> QED
  BY <1>2, <1>3, Zenon DEF AutoStep, SameDhcp, Held


(***************************************************************************)
(* The invariant.                                                          *)
(***************************************************************************)

\* What every function of the client keeps, the one that is half done too.
Core(n) ==
  /\ Shape(n) /\ Held(n)
  /\ n.dhcp.offered \in {AddrAny} \cup Pool
  /\ n.dhcp.state = "OFF" <=> ~Listed(n, "dhcp")
  /\ n.acd["dhcp"].state # "PASSIVE_ONGOING"

\* No probe is under way for the client.
Idle(n) == Listed(n, "dhcp") => ~Probes(n)

\* What ProbesForCheck says, and that ACD does not probe without a link.
ProbesOK(n) ==
  Listed(n, "dhcp") /\ Probes(n) =>
    n.dhcp.state = "CHECKING" /\ n.acd["dhcp"].ipaddr = n.dhcp.offered /\ n.link

\* What NeverWedged says, one state at a time.
WaitsOK(n) ==
  n.link =>
    /\ n.dhcp.state \in {"SELECTING", "REQUESTING", "REBOOTING"} => n.dhcp.timeout
    /\ n.dhcp.state = "CHECKING" =>
         Listed(n, "dhcp") /\ Probes(n) /\ n.acd["dhcp"].ipaddr = n.dhcp.offered
    /\ n.dhcp.state = "BACKING_OFF" =>
         n.dhcp.timeout \/ (Listed(n, "dhcp") /\ n.acd["dhcp"].state = "RATE_LIMIT")
    /\ n.dhcp.state # "INIT"

Good(n) == Core(n) /\ ProbesOK(n) /\ WaitsOK(n)

\* The client of r is in state s, and nothing else has changed but the address.
Becomes(n, r, s) ==
  /\ Shape(r) /\ (Held(n) => Held(r)) /\ r.link = n.link
  /\ r.acd["dhcp"] = n.acd["dhcp"] /\ (Listed(r, "dhcp") <=> Listed(n, "dhcp"))
  /\ r.dhcp.state = s

(***************************************************************************)
(* The functions of the DHCP client.                                       *)
(***************************************************************************)

\* dhcp_set_state.
LEMMA SetStateIs ==
  ASSUME NEW n, Shape(n), NEW s, NEW r, r = SetState(n, s)
  PROVE  OnlyDhcp(n, r) /\ r.dhcp.state = s /\ r.dhcp.offered = n.dhcp.offered
<1>1. CASE n.dhcp.state = s
  BY <1>1, Zenon DEF SetState, OnlyDhcp
<1>2. CASE n.dhcp.state # s
  <2> DEFINE d == [n.dhcp EXCEPT !.state = s, !.tries = 0, !.timeout = FALSE]
  <2>1. r = [n EXCEPT !.dhcp = d]
    BY <1>2, Zenon DEF SetState, Shape, Fcn, NetifFields
  <2>2. Fcn(d, DhcpFields) /\ d.state = s /\ d.offered = n.dhcp.offered
    BY Zenon DEF Shape, Fcn, DhcpFields
  <2> HIDE DEF d
  <2> QED
    BY <2>1, <2>2 DEF OnlyDhcp, Shape, Fcn, NetifFields
<1> QED
  BY <1>1, <1>2, Zenon

\* dhcp_create_msg and the sending of the message.
LEMMA CreateMsgIs ==
  ASSUME NEW n, Shape(n), NEW type, NEW a, NEW r, r = CreateMsg(n, type, a)
  PROVE  OnlyDhcp(n, r) /\ r.dhcp = n.dhcp
<1>1. PICK w : r = [n EXCEPT !.wire = w]
  BY Zenon DEF CreateMsg
<1> QED
  BY <1>1 DEF OnlyDhcp, Shape, Fcn, NetifFields

\* The count of tries and the request timer.
LEMMA RetryIs ==
  ASSUME NEW n, Shape(n), NEW r, r = Retry(n)
  PROVE  /\ OnlyDhcp(n, r) /\ r.dhcp.timeout = TRUE
         /\ r.dhcp.state = n.dhcp.state /\ r.dhcp.offered = n.dhcp.offered
<1> DEFINE t == IF n.dhcp.tries < MaxTries THEN n.dhcp.tries + 1 ELSE n.dhcp.tries
           d == [n.dhcp EXCEPT !.tries = t, !.timeout = TRUE]
<1>1. r = [n EXCEPT !.dhcp = d]
  BY Zenon DEF Retry, Shape, Fcn, NetifFields, DhcpFields
<1> HIDE DEF t
<1>2. /\ Fcn(d, DhcpFields) /\ d.timeout = TRUE
      /\ d.state = n.dhcp.state /\ d.offered = n.dhcp.offered
  BY Zenon DEF Shape, Fcn, DhcpFields
<1> HIDE DEF d
<1> QED
  BY <1>1, <1>2 DEF OnlyDhcp, Shape, Fcn, NetifFields

\* A step on the fields of dhcp alone is one of the client.
LEMMA OnlyDhcpBecomes == \A n, r : OnlyDhcp(n, r) => Becomes(n, r, r.dhcp.state)
  BY ListedSame, Zenon DEF OnlyDhcp, Becomes, Held

\* The client of r asks for something in state s, and the timer is set.
Asks(n, r, s) ==
  /\ OnlyDhcp(n, r) /\ r.dhcp.state = s /\ r.dhcp.timeout = TRUE
  /\ r.dhcp.offered = n.dhcp.offered

\* dhcp_select, dhcp_reboot, dhcp_renew, dhcp_rebind: another state, a message
\* and the timer.
LEMMA RequestIs ==
  ASSUME NEW n, Shape(n), NEW s, NEW type, NEW a
  PROVE  Asks(n, Request(n, s, type, a), s)
<1> DEFINE r == Request(n, s, type, a)
           x == SetState(n, s)
           y == CreateMsg(x, type, a)
<1>1. r = Retry(y)
  BY Zenon DEF Request, Then
<1>2. OnlyDhcp(n, x) /\ x.dhcp.state = s /\ x.dhcp.offered = n.dhcp.offered
  BY SetStateIs, Zenon
<1> HIDE DEF x
<1>3. OnlyDhcp(x, y) /\ y.dhcp = x.dhcp
  BY <1>2, CreateMsgIs DEF OnlyDhcp
<1> HIDE DEF y
<1>4. /\ OnlyDhcp(y, r) /\ r.dhcp.timeout = TRUE
      /\ r.dhcp.state = y.dhcp.state /\ r.dhcp.offered = y.dhcp.offered
  BY <1>1, <1>3, RetryIs, ZenonT(30) DEF OnlyDhcp
<1> HIDE DEF r
<1>5. Asks(n, r, s)
  BY <1>2, <1>3, <1>4, ZenonT(30) DEF Asks, OnlyDhcp
<1> QED
  BY <1>5, Zenon DEF r

\* dhcp_discover.
LEMMA DiscoverIs ==
  ASSUME NEW n, Shape(n), NEW r, r = Discover(n)
  PROVE  Becomes(n, r, "SELECTING") /\ r.dhcp.timeout = TRUE /\ r.dhcp.offered = AddrAny
<1> DEFINE coop == IF n.dhcp.tries >= CoopTries THEN AutoipStart(n) ELSE n
           x == [coop EXCEPT !.dhcp.offered = AddrAny]
<1>0. r = Then(x, LAMBDA y : Request(y, "SELECTING", "DISCOVER", AddrAny))
  BY Zenon DEF Discover
<1>2. AutoStep(n, coop)
  <2>1. CASE n.dhcp.tries >= CoopTries
    BY <2>1, AutoipStartIs, Zenon
  <2>2. CASE ~(n.dhcp.tries >= CoopTries)
    BY <2>2, Zenon DEF AutoStep, SameDhcp
  <2> QED
    BY <2>1, <2>2, Zenon
<1> HIDE DEF coop
<1>3. OnlyDhcp(coop, x) /\ x.dhcp.offered = AddrAny
  BY <1>2, ZenonT(30) DEF AutoStep, OnlyDhcp, Shape, Fcn, NetifFields, DhcpFields
<1> HIDE DEF x
<1>1. r = Request(x, "SELECTING", "DISCOVER", AddrAny)
  BY <1>0, Zenon DEF Then
<1>x. Shape(x)
  BY <1>3, Zenon DEF OnlyDhcp
<1>4. Asks(x, r, "SELECTING")
  BY <1>1, <1>x, RequestIs, ZenonT(30)
<1> QED
  BY <1>2, <1>3, <1>4, ListedSame DEF Asks, Becomes, OnlyDhcp, AutoStep, SameDhcp, Held

\* dhcp_bind.
LEMMA BindIs ==
  ASSUME NEW n, Shape(n), n.dhcp.offered \notin LL, NEW r, r = Bind(n)
  PROVE  Becomes(n, r, "BOUND") /\ r.dhcp.offered = n.dhcp.offered
<1>1. PICK b : /\ r = SetAddr(SetState([n EXCEPT !.dhcp = b], "BOUND"), n.dhcp.offered)
               /\ Fcn(b, DhcpFields) /\ b.offered = n.dhcp.offered
  <2> DEFINE o  == n.dhcp.lease
             d  == n.dhcp
             t2 == SetTimeout(d.t2, o.t2)
             b  == [d EXCEPT !.used = 0, !.t0 = SetTimeout(@, o.t0),
                             !.t1_renew = SetTimeout(@, o.t1), !.t2 = t2,
                             !.t2_rebind = IF o.t2 = Infinite THEN @ ELSE t2]
             x  == SetState([n EXCEPT !.dhcp = b], "BOUND")
  <2>0. r = Then(x, LAMBDA y : SetAddr(y, n.dhcp.offered))
    BY Zenon DEF Bind
  <2>2. Fcn(b, DhcpFields) /\ b.offered = n.dhcp.offered
    BY Zenon DEF Shape, Fcn, DhcpFields
  <2> HIDE DEF x
  <2>1. r = SetAddr(x, n.dhcp.offered)
    BY <2>0, Zenon DEF Then
  <2> HIDE DEF b
  <2> QED
    BY <2>1, <2>2, Zenon DEF x
<1> DEFINE x == [n EXCEPT !.dhcp = b]
           y == SetState(x, "BOUND")
<1>2. OnlyDhcp(n, x) /\ x.dhcp = b
  BY <1>1, Zenon DEF OnlyDhcp, Shape, Fcn, NetifFields
<1>3. r = SetAddr(y, n.dhcp.offered)
  BY <1>1, Zenon
<1> HIDE DEF x
<1>4. OnlyDhcp(x, y) /\ y.dhcp.state = "BOUND" /\ y.dhcp.offered = n.dhcp.offered
  BY <1>1, <1>2, SetStateIs DEF OnlyDhcp
<1> HIDE DEF y
<1>5. Shape(r) /\ SameDhcp(y, r) /\ r.addr \notin LL
  BY <1>3, <1>4, SetAddrIs DEF OnlyDhcp
<1> QED
  BY <1>2, <1>4, <1>5, ListedSame, ZenonT(30) DEF Becomes, OnlyDhcp, SameDhcp, Held

\* dhcp_release_and_stop takes the client's ACD client off the list.
LEMMA ReleaseIs ==
  ASSUME NEW n, Core(n), NEW r, r = ReleaseAndStop(n)
  PROVE  Good(r) /\ r.dhcp.state = "OFF" /\ r.link = n.link
<1>1. CASE n.dhcp.state = "OFF"
  BY <1>1, Zenon DEF ReleaseAndStop, Good, Core, ProbesOK, WaitsOK
<1>2. CASE n.dhcp.state # "OFF"
  <2> DEFINE d     == [n.dhcp EXCEPT !.offered = AddrAny, !.lease = NoLease, !.t1_renew = 0,
                                     !.t2_rebind = 0, !.used = 0, !.t0 = 0]
             clean == [n EXCEPT !.dhcp = d]
             set   == SetState(clean, "OFF")
             off   == [set EXCEPT !.wire = {}]
             bare  == IF Supplied(n) THEN SetAddr(off, AddrAny) ELSE off
  <2>1. r = AcdRemove(bare, "dhcp")
    BY <1>2, Zenon DEF ReleaseAndStop, Shape, Core, Fcn, NetifFields
  <2>2. Fcn(d, DhcpFields) /\ d.offered = AddrAny
    BY Zenon DEF Core, Shape, Fcn, DhcpFields
  <2> HIDE DEF d
  <2>3. OnlyDhcp(n, clean) /\ clean.dhcp.offered = AddrAny
    BY <2>2, Zenon DEF Core, OnlyDhcp, Shape, Fcn, NetifFields
  <2> HIDE DEF clean
  <2>4. OnlyDhcp(clean, set) /\ set.dhcp.state = "OFF" /\ set.dhcp.offered = AddrAny
    BY <2>3, SetStateIs DEF OnlyDhcp
  <2> HIDE DEF set
  <2>5. OnlyDhcp(set, off) /\ off.dhcp = set.dhcp
    BY <2>4, Zenon DEF OnlyDhcp, Shape, Fcn, NetifFields
  <2> HIDE DEF off
  <2>6. Shape(bare) /\ SameDhcp(off, bare) /\ Held(bare)
    <3>1. CASE Supplied(n)
      BY <2>5, <3>1, SetAddrIs, AnyNotLL, SMTT(30) DEF OnlyDhcp, Held
    <3>2. CASE ~Supplied(n)
      BY <2>3, <2>4, <2>5, <3>2, ZenonT(30) DEF OnlyDhcp, SameDhcp, Core, Held
    <3> QED
      BY <3>1, <3>2, ZenonT(30)
  <2> HIDE DEF bare
  <2>7. /\ Shape(r) /\ r.link = bare.link /\ r.addr = bare.addr /\ r.dhcp = bare.dhcp
        /\ r.acd = bare.acd /\ r.autoip = bare.autoip /\ ~Listed(r, "dhcp")
    BY <2>1, <2>6, AcdRemoveIs, ZenonT(30) DEF Clients
  <2>8. /\ r.link = n.link /\ r.dhcp.state = "OFF" /\ r.dhcp.offered = AddrAny
        /\ r.acd["dhcp"] = n.acd["dhcp"] /\ Held(r)
    BY <2>3, <2>4, <2>5, <2>6, <2>7, ZenonT(30) DEF OnlyDhcp, SameDhcp, Held
  <2> QED
    BY <2>7, <2>8 DEF Good, Core, ProbesOK, WaitsOK
<1> QED
  BY <1>1, <1>2, Zenon

\* A client that is asking, or waits for a timer, is good.
LEMMA GoodBecomes ==
  ASSUME NEW n, Core(n), Idle(n), n.dhcp.state # "OFF", NEW r, NEW s, Becomes(n, r, s),
         s \notin {"OFF", "CHECKING", "INIT"}, r.dhcp.offered \in {AddrAny} \cup Pool,
         \/ s \notin {"SELECTING", "REQUESTING", "REBOOTING", "BACKING_OFF"}
         \/ r.dhcp.timeout = TRUE
  PROVE  Good(r)
  BY Zenon DEF Good, Core, Idle, Becomes, ProbesOK, WaitsOK, Probes

\* dhcp_start.
LEMMA StartIs ==
  ASSUME NEW n, Shape(n), Held(n), NEW r, r = Start(n)
  PROVE  Good(r)
<1> DEFINE cut == IF Listed(n, "dhcp")
                  THEN SubSeq(n.acd_list, 1, AcdAt(n, "dhcp")) ELSE n.acd_list
           clear == [n EXCEPT !.dhcp = NewDhcp, !.acd["dhcp"] = NewAcd,
                              !.acd_list = cut, !.wire = {}]
           added == AcdAdd(clear, "dhcp")
<1>0. r = IF n.link THEN Then(added, Discover) ELSE SetState(added, "INIT")
  BY Zenon DEF Start
<1>1. GoodList(cut)
  <2>1. CASE Listed(n, "dhcp")
    <3>1. AcdAt(n, "dhcp") \in 1 .. Len(n.acd_list) /\ n.acd_list[AcdAt(n, "dhcp")] = "dhcp"
      BY <2>1, Zenon DEF Listed, OnList, AcdAt
    <3> QED
      BY <2>1, <3>1, ListCut, ZenonT(30) DEF Shape
  <2>2. CASE ~Listed(n, "dhcp")
    BY <2>2, Zenon DEF Shape
  <2> QED
    BY <2>1, <2>2, Zenon
<1> HIDE DEF cut
<1>2. /\ Shape(clear) /\ Held(clear) /\ clear.link = n.link /\ clear.dhcp = NewDhcp
      /\ clear.acd["dhcp"] = NewAcd
  <2> DEFINE acd == [n.acd EXCEPT !["dhcp"] = NewAcd]
             half == [n EXCEPT !.dhcp = NewDhcp, !.acd = acd]
  <2>1. clear = [half EXCEPT !.acd_list = cut, !.wire = {}]
    BY Zenon
  <2>2. Fcn(NewDhcp, DhcpFields) /\ Fcn(NewAcd, AcdFields)
    BY Zenon DEF Fcn, NewDhcp, NewAcd, DhcpFields, AcdFields
  <2>3. /\ Fcn(acd, Clients) /\ acd["dhcp"] = NewAcd
        /\ \A m \in Clients : Fcn(acd[m], AcdFields)
    BY <2>2, Zenon DEF Shape, Fcn, Clients
  <2> HIDE DEF acd
  <2>4. /\ Shape(half) /\ half.link = n.link /\ half.dhcp = NewDhcp /\ half.acd = acd
        /\ half.addr = n.addr /\ half.autoip = n.autoip
    BY <2>2, <2>3, Zenon DEF Shape, Fcn, NetifFields
  <2> HIDE DEF half, clear
  <2>5. /\ Shape(clear) /\ clear.link = n.link /\ clear.dhcp = NewDhcp /\ clear.acd = acd
        /\ clear.addr = n.addr /\ clear.autoip = n.autoip
    BY <1>1, <2>1, <2>4, ZenonT(30) DEF Shape, Fcn, NetifFields
  <2> QED
    BY <2>3, <2>5, Zenon DEF Held
<1> HIDE DEF clear
<1>3. /\ Shape(added) /\ Held(added) /\ added.link = n.link /\ added.dhcp = NewDhcp
      /\ added.acd["dhcp"] = NewAcd /\ Listed(added, "dhcp")
  BY <1>2, AcdAddIs DEF Held, Clients
<1> HIDE DEF added
<1>4. CASE n.link
  <2>1. r = Discover(added)
    BY <1>0, <1>4, Zenon DEF Then
  <2>2. Becomes(added, r, "SELECTING") /\ r.dhcp.timeout = TRUE /\ r.dhcp.offered = AddrAny
    BY <1>3, <2>1, DiscoverIs, ZenonT(30)
  <2> QED
    BY <1>3, <2>2 DEF Becomes, Good, Core, ProbesOK, WaitsOK, Probes, Probing, NewAcd
<1>5. CASE ~n.link
  <2>1. OnlyDhcp(added, r) /\ r.dhcp.state = "INIT" /\ r.dhcp.offered = AddrAny
    BY <1>0, <1>3, <1>5, SetStateIs, SMTT(30) DEF NewDhcp
  <2> QED
    BY <1>3, <1>5, <2>1, ListedSame, SMTT(30)
       DEF OnlyDhcp, Held, Good, Core, ProbesOK, WaitsOK, Probes, Probing, NewAcd
<1> QED
  BY <1>4, <1>5, Zenon

(***************************************************************************)
(* What the client is told.                                                *)
(***************************************************************************)

\* An address the server gives is no link-local one.
LEMMA PoolNotLL == \A a \in {AddrAny} \cup Pool : a \notin LL
  BY DhcpAssumption DEF AddrAny, LL

\* AutoIP and its ACD client leave a good client good.
LEMMA AutoGood == \A n, r : Good(n) /\ AutoStep(n, r) => Good(r)
  BY DEF Good, Core, AutoStep, SameDhcp, ProbesOK, WaitsOK, Probes

\* dhcp_check.
LEMMA CheckIs ==
  ASSUME NEW n, Core(n), n.link, n.dhcp.state # "OFF", NEW r, r = Check(n)
  PROVE  Good(r)
<1> DEFINE x == SetState(n, "CHECKING")
<1>1. r = AcdStart(x, "dhcp", n.dhcp.offered)
  BY Zenon DEF Check
<1>2. OnlyDhcp(n, x) /\ x.dhcp.state = "CHECKING" /\ x.dhcp.offered = n.dhcp.offered
  BY SetStateIs, ZenonT(30) DEF Core
<1> HIDE DEF x
<1>3. /\ OnlyAcd(x, r, "dhcp") /\ r.acd["dhcp"].state = "PROBE_WAIT"
      /\ r.acd["dhcp"].ipaddr = n.dhcp.offered
  BY <1>1, <1>2, AcdStartIs DEF OnlyDhcp, Clients
<1>4. Shape(r) /\ r.link = n.link /\ r.addr = n.addr /\ r.dhcp = x.dhcp
      /\ r.acd_list = n.acd_list /\ r.autoip = n.autoip
  BY <1>2, <1>3, Zenon DEF OnlyDhcp, OnlyAcd
<1> QED
  BY <1>2, <1>3, <1>4, ListedSame, ZenonT(30) DEF Good, Core, Held, ProbesOK, WaitsOK, Probes,
     Probing

\* Losing the address, as dhcp_handle_nak and a conflict have it.
LEMMA AddrLost ==
  ASSUME NEW n, Shape(n)
  PROVE  /\ Becomes(n, SetAddr(n, AddrAny), n.dhcp.state)
         /\ SetAddr(n, AddrAny).dhcp = n.dhcp
<1> DEFINE r == SetAddr(n, AddrAny)
<1>1. Shape(r) /\ SameDhcp(n, r) /\ r.addr = AddrAny
  BY SetAddrIs, ZenonT(30)
<1> HIDE DEF r
<1>2. Becomes(n, r, n.dhcp.state) /\ r.dhcp = n.dhcp
  BY <1>1, AnyNotLL, Zenon DEF SameDhcp, Becomes, Held
<1> QED
  BY <1>2, Zenon DEF r

\* dhcp_handle_nak.
LEMMA HandleNakIs ==
  ASSUME NEW n, Core(n), Idle(n), n.dhcp.state # "OFF", NEW r, r = HandleNak(n)
  PROVE  Good(r)
<1> DEFINE x == SetState(n, "BACKING_OFF")
           y == SetAddr(x, AddrAny)
<1>0. r = Then(y, Discover)
  BY Zenon DEF HandleNak
<1>1. OnlyDhcp(n, x)
  BY SetStateIs, Zenon DEF Core
<1> HIDE DEF x
<1>2. Becomes(x, y, x.dhcp.state)
  BY <1>1, AddrLost, Zenon DEF OnlyDhcp
<1> HIDE DEF y
<1>3. r = Discover(y)
  BY <1>0, Zenon DEF Then
<1>4. Becomes(y, r, "SELECTING") /\ r.dhcp.timeout = TRUE /\ r.dhcp.offered = AddrAny
  <2>1. Shape(y)
    BY <1>2, Zenon DEF Becomes
  <2> QED
    BY <1>3, <2>1, DiscoverIs, ZenonT(30)
<1>5. Becomes(n, x, x.dhcp.state)
  BY <1>1, OnlyDhcpBecomes, ZenonT(30)
<1>6. Becomes(n, r, "SELECTING")
  BY <1>2, <1>4, <1>5, ZenonT(30) DEF Becomes
<1> QED
  BY <1>4, <1>6, GoodBecomes, ZenonT(30)

\* dhcp_conflict_callback, when ACD has found the address free.
LEMMA ConflictOk ==
  ASSUME NEW n, Core(n), Idle(n), n.dhcp.state # "OFF", NEW r,
         r = Conflict(n, "dhcp", "IP_OK")
  PROVE  Good(r)
<1>1. r = Bind(n)
  BY Zenon DEF Conflict
<1>2. Becomes(n, r, "BOUND") /\ r.dhcp.offered = n.dhcp.offered
  BY <1>1, BindIs, PoolNotLL, ZenonT(30) DEF Core
<1>3. r.dhcp.offered \in {AddrAny} \cup Pool
  BY <1>2, Zenon DEF Core
<1>4. /\ "BOUND" \notin {"OFF", "CHECKING", "INIT"}
      /\ "BOUND" \notin {"SELECTING", "REQUESTING", "REBOOTING", "BACKING_OFF"}
  BY Zenon
<1> QED
  BY <1>2, <1>3, <1>4, GoodBecomes, ZenonT(30)

\* The same when the client is to start over.
LEMMA ConflictRestart ==
  ASSUME NEW n, Core(n), Idle(n), n.dhcp.state # "OFF", NEW r,
         r = Conflict(n, "dhcp", "RESTART")
  PROVE  Good(r)
<1> DEFINE x == SetState(n, "BACKING_OFF")
<1>1. r = [x EXCEPT !.dhcp.timeout = TRUE]
  BY Zenon DEF Conflict
<1>2. OnlyDhcp(n, x) /\ x.dhcp.state = "BACKING_OFF" /\ x.dhcp.offered = n.dhcp.offered
  BY SetStateIs, ZenonT(30) DEF Core
<1> HIDE DEF x
<1>3. /\ OnlyDhcp(x, r) /\ r.dhcp.state = "BACKING_OFF" /\ r.dhcp.offered = x.dhcp.offered
      /\ r.dhcp.timeout = TRUE
  BY <1>1, <1>2 DEF OnlyDhcp, Shape, Fcn, NetifFields, DhcpFields
<1>4. Becomes(n, r, "BACKING_OFF")
  BY <1>2, <1>3, ListedSame, ZenonT(30) DEF OnlyDhcp, Becomes, Held
<1> QED
  BY <1>2, <1>3, <1>4, GoodBecomes, ZenonT(30) DEF Core

\* The same when it is to decline the address.
LEMMA ConflictDecline ==
  ASSUME NEW n, Shape(n), NEW r, r = Conflict(n, "dhcp", "DECLINE")
  PROVE  Becomes(n, r, "BACKING_OFF") /\ r.dhcp.offered = n.dhcp.offered
<1> DEFINE x == SetAddr(n, AddrAny)
           y == SetState(x, "BACKING_OFF")
<1>0. r = Then(x, Decline)
  BY Zenon DEF Conflict
<1>1. Becomes(n, x, n.dhcp.state) /\ x.dhcp = n.dhcp
  BY AddrLost, Zenon
<1> HIDE DEF x
<1>2. r = CreateMsg(y, "DECLINE", x.dhcp.offered)
  BY <1>0, Zenon DEF Then, Decline
<1>3. OnlyDhcp(x, y) /\ y.dhcp.state = "BACKING_OFF" /\ y.dhcp.offered = n.dhcp.offered
  BY <1>1, SetStateIs DEF Becomes
<1> HIDE DEF y
<1>4. OnlyDhcp(y, r) /\ r.dhcp = y.dhcp
  BY <1>2, <1>3, CreateMsgIs, SMTT(30) DEF OnlyDhcp
<1> QED
  BY <1>1, <1>3, <1>4, ListedSame, ZenonT(30) DEF OnlyDhcp, Becomes, Held

\* AutoIP's callback.
LEMMA ConflictAuto ==
  ASSUME NEW n, Shape(n), NEW event \in {"IP_OK", "RESTART", "DECLINE"}, NEW r,
         r = Conflict(n, "autoip", event)
  PROVE  AutoStep(n, r)
<1>1. CASE event = "IP_OK"
  BY <1>1, AutoipBindIs, ZenonT(30) DEF Conflict
<1>2. CASE event = "RESTART"
  BY <1>2, AutoipRestartIs, ZenonT(30) DEF Conflict
<1>3. CASE event = "DECLINE"
  BY <1>3, AutoipDeclineIs, ZenonT(30) DEF Conflict, AutoStep, Held
<1> QED
  BY <1>1, <1>2, <1>3, ZenonT(30)

(***************************************************************************)
(* ACD: its timer, and an ARP packet about its address.                    *)
(***************************************************************************)

\* A step of the ACD client of a client that stays as it is.
LEMMA AcdCore ==
  ASSUME NEW n, Core(n), NEW r, OnlyAcd(n, r, "dhcp"),
         r.acd["dhcp"].state # "PASSIVE_ONGOING"
  PROVE  /\ Core(r) /\ (Listed(r, "dhcp") <=> Listed(n, "dhcp"))
         /\ r.dhcp = n.dhcp /\ r.link = n.link
  BY ListedSame, Zenon DEF OnlyAcd, Core, Held

\* It goes on probing, or it stays as it is but for its counters.
LEMMA AcdGood ==
  ASSUME NEW n, Good(n), NEW r, OnlyAcd(n, r, "dhcp"),
         r.acd["dhcp"].ipaddr = n.acd["dhcp"].ipaddr,
         \/ r.acd["dhcp"].state = n.acd["dhcp"].state
         \/ Listed(n, "dhcp") /\ Probes(n) /\ Probes(r)
  PROVE  Good(r)
<1>1. r.acd["dhcp"].state # "PASSIVE_ONGOING"
  BY Zenon DEF Good, Core, Probes, Probing
<1>2. /\ Core(r) /\ (Listed(r, "dhcp") <=> Listed(n, "dhcp"))
      /\ r.dhcp = n.dhcp /\ r.link = n.link
  BY <1>1, AcdCore, ZenonT(30) DEF Good
<1>3. CASE r.acd["dhcp"].state = n.acd["dhcp"].state
  BY <1>2, <1>3, ZenonT(30) DEF Good, ProbesOK, WaitsOK, Probes
<1>4. CASE Listed(n, "dhcp") /\ Probes(n) /\ Probes(r)
  BY <1>2, <1>4, ZenonT(30) DEF Good, ProbesOK, WaitsOK
<1> QED
  BY <1>3, <1>4, ZenonT(30)

\* acd_tmr, for the client of DHCP.
LEMMA AcdTickIs ==
  ASSUME NEW n, Good(n), Listed(n, "dhcp"),
         n.acd["dhcp"].state \in Probing \cup {"ANNOUNCING", "RATE_LIMIT"},
         NEW r, r = AcdTick(n, "dhcp")
  PROVE  Good(r)
<1> DEFINE c == n.acd["dhcp"]
           sent == c.sent + 1
           To(s, k) == [n EXCEPT !.acd["dhcp"].state = s, !.acd["dhcp"].sent = k]
           fresh(x) == IF c.sent = 0 THEN [x EXCEPT !.acd["dhcp"].conflicts = 0] ELSE x
<1>0. Shape(n) /\ Core(n) /\ n.dhcp.state # "OFF"
  BY Zenon DEF Good, Core
<1>1. \A s, k : /\ OnlyAcd(n, To(s, k), "dhcp") /\ To(s, k).acd["dhcp"].state = s
                /\ To(s, k).acd["dhcp"].ipaddr = c.ipaddr
  <2> SUFFICES ASSUME NEW s, NEW k
               PROVE  /\ OnlyAcd(n, To(s, k), "dhcp") /\ To(s, k).acd["dhcp"].state = s
                      /\ To(s, k).acd["dhcp"].ipaddr = c.ipaddr
    BY Zenon
  <2> QED
    BY <1>0, Zenon DEF Shape, Fcn, OnlyAcd, Clients, NetifFields, AcdFields
<1> HIDE DEF To
<1>2. ASSUME NEW s, NEW k
      PROVE  /\ OnlyAcd(n, fresh(To(s, k)), "dhcp")
             /\ fresh(To(s, k)).acd["dhcp"].state = s
             /\ fresh(To(s, k)).acd["dhcp"].ipaddr = c.ipaddr
  <2> DEFINE x == To(s, k)
             y == [x EXCEPT !.acd["dhcp"].conflicts = 0]
  <2>1. OnlyAcd(n, x, "dhcp") /\ x.acd["dhcp"].state = s /\ x.acd["dhcp"].ipaddr = c.ipaddr
    BY <1>1, ZenonT(30)
  <2> HIDE DEF x
  <2>2. /\ OnlyAcd(x, y, "dhcp") /\ y.acd["dhcp"].state = s
        /\ y.acd["dhcp"].ipaddr = c.ipaddr
    BY <2>1, AcdCount DEF OnlyAcd, Clients
  <2>3. fresh(x) = IF c.sent = 0 THEN y ELSE x
    BY Zenon
  <2> HIDE DEF y, fresh
  <2>4. OnlyAcd(n, y, "dhcp")
    BY <2>1, <2>2, ZenonT(30) DEF OnlyAcd
  <2>5. /\ OnlyAcd(n, fresh(x), "dhcp") /\ fresh(x).acd["dhcp"].state = s
        /\ fresh(x).acd["dhcp"].ipaddr = c.ipaddr
    BY <2>1, <2>2, <2>3, <2>4, ZenonT(30)
  <2> QED
    BY <2>5, Zenon DEF x
<1> DEFINE up == fresh(To("ONGOING", 0))
<1>3. CASE c.state \in {"PROBE_WAIT", "PROBING"}
  <2>1. r = IF sent >= ProbeNum THEN To("ANNOUNCE_WAIT", 0) ELSE To("PROBING", sent)
    BY <1>3, ZenonT(30) DEF AcdTick, To
  <2> HIDE DEF sent
  <2>2. OnlyAcd(n, r, "dhcp") /\ r.acd["dhcp"].ipaddr = c.ipaddr /\ Probes(r)
    BY <1>1, <2>1 DEF Probes, Probing
  <2> QED
    BY <1>3, <2>2, AcdGood, ZenonT(30) DEF Probes, Probing
<1>4. CASE c.state \in {"ANNOUNCE_WAIT", "ANNOUNCING"} /\ ~(sent >= AnnounceNum)
  <2>1. r = fresh(To("ANNOUNCING", sent))
    BY <1>4, ZenonT(30) DEF AcdTick, To
  <2> HIDE DEF sent, fresh
  <2>2. OnlyAcd(n, r, "dhcp") /\ r.acd["dhcp"].ipaddr = c.ipaddr /\ Probes(r)
    BY <1>2, <2>1 DEF Probes, Probing
  <2> QED
    BY <1>4, <2>2, AcdGood, ZenonT(30) DEF Probes, Probing
<1>5. CASE c.state \in {"ANNOUNCE_WAIT", "ANNOUNCING"} /\ sent >= AnnounceNum
  <2>1. r = Then(up, LAMBDA x : Conflict(x, "dhcp", "IP_OK"))
    BY <1>5, Zenon DEF AcdTick, To
  <2>2. OnlyAcd(n, up, "dhcp") /\ up.acd["dhcp"].state = "ONGOING"
    BY <1>2, Zenon
  <2> HIDE DEF up
  <2>3. Core(up) /\ Idle(up) /\ up.dhcp.state # "OFF"
    BY <1>0, <2>2, AcdCore, ZenonT(30) DEF Idle, Probes, Probing
  <2>4. r = Conflict(up, "dhcp", "IP_OK")
    BY <2>1, Zenon DEF Then
  <2> QED
    BY <2>3, <2>4, ConflictOk, ZenonT(30)
<1>6. CASE c.state = "RATE_LIMIT"
  <2> DEFINE off == AcdStop(n, "dhcp")
  <2>1. r = Conflict(off, "dhcp", "RESTART")
    BY <1>6, Zenon DEF AcdTick
  <2>2. OnlyAcd(n, off, "dhcp") /\ off.acd["dhcp"].state = "OFF"
    BY <1>0, AcdStopIs, ZenonT(30) DEF Clients
  <2> HIDE DEF off
  <2>3. Core(off) /\ Idle(off) /\ off.dhcp.state # "OFF"
    BY <1>0, <2>2, AcdCore, ZenonT(30) DEF Idle, Probes, Probing
  <2> QED
    BY <2>1, <2>3, ConflictRestart, ZenonT(30)
<1> QED
  BY <1>3, <1>4, <1>5, <1>6, ZenonT(30) DEF Probing

\* acd_tmr, for the client of AutoIP.
LEMMA AcdTickAuto ==
  ASSUME NEW n, Shape(n),
         n.acd["autoip"].state \in Probing \cup {"ANNOUNCING", "RATE_LIMIT"},
         NEW r, r = AcdTick(n, "autoip")
  PROVE  AutoStep(n, r)
<1> DEFINE c == n.acd["autoip"]
           sent == c.sent + 1
           To(s, k) == [n EXCEPT !.acd["autoip"].state = s, !.acd["autoip"].sent = k]
           fresh(x) == IF c.sent = 0 THEN [x EXCEPT !.acd["autoip"].conflicts = 0] ELSE x
<1>1. \A s, k : AutoStep(n, To(s, k))
  <2> SUFFICES ASSUME NEW s, NEW k PROVE AutoStep(n, To(s, k))
    BY Zenon
  <2>1. OnlyAcd(n, To(s, k), "autoip")
    BY Zenon DEF Shape, Fcn, OnlyAcd, Clients, NetifFields, AcdFields
  <2> HIDE DEF To
  <2> QED
    BY <2>1, AutoAcd, ZenonT(30)
<1> HIDE DEF To
<1>2. \A s, k : AutoStep(n, fresh(To(s, k)))
  <2> SUFFICES ASSUME NEW s, NEW k PROVE AutoStep(n, fresh(To(s, k)))
    BY Zenon
  <2> DEFINE x == To(s, k)
             y == [x EXCEPT !.acd["autoip"].conflicts = 0]
  <2>1. AutoStep(n, x)
    BY <1>1, Zenon
  <2> HIDE DEF x
  <2>2. OnlyAcd(x, y, "autoip")
    BY <2>1, AcdCount, ZenonT(30) DEF AutoStep, Clients
  <2>3. fresh(x) = IF c.sent = 0 THEN y ELSE x
    BY Zenon
  <2> HIDE DEF y, fresh
  <2>4. AutoStep(n, y)
    BY <2>1, <2>2, AutoAcd, AutoThen, ZenonT(30)
  <2>5. AutoStep(n, fresh(x))
    BY <2>1, <2>3, <2>4, ZenonT(30)
  <2> QED
    BY <2>5, Zenon DEF x
<1>3. CASE c.state \in {"PROBE_WAIT", "PROBING"}
  <2>1. r = IF sent >= ProbeNum THEN To("ANNOUNCE_WAIT", 0) ELSE To("PROBING", sent)
    BY <1>3, Zenon DEF AcdTick, To
  <2> QED
    BY <1>1, <2>1, Zenon
<1>4. CASE c.state \in {"ANNOUNCE_WAIT", "ANNOUNCING"} /\ ~(sent >= AnnounceNum)
  <2>1. r = fresh(To("ANNOUNCING", sent))
    BY <1>4, Zenon DEF AcdTick, To
  <2> HIDE DEF sent, fresh
  <2> QED
    BY <1>2, <2>1, ZenonT(30)
<1>5. CASE c.state \in {"ANNOUNCE_WAIT", "ANNOUNCING"} /\ sent >= AnnounceNum
  <2> DEFINE up == fresh(To("ONGOING", 0))
  <2>1. r = Then(up, LAMBDA x : Conflict(x, "autoip", "IP_OK"))
    BY <1>5, Zenon DEF AcdTick, To
  <2>2. AutoStep(n, up)
    BY <1>2, Zenon
  <2> HIDE DEF up
  <2>3. r = Conflict(up, "autoip", "IP_OK")
    BY <2>1, Zenon DEF Then
  <2> QED
    BY <2>2, <2>3, ConflictAuto, AutoThen, ZenonT(30) DEF AutoStep
<1>6. CASE c.state = "RATE_LIMIT"
  <2> DEFINE off == AcdStop(n, "autoip")
  <2>1. r = Conflict(off, "autoip", "RESTART")
    BY <1>6, Zenon DEF AcdTick
  <2>2. AutoStep(n, off)
    BY AcdStopIs, AutoAcd, ZenonT(30) DEF Clients
  <2> HIDE DEF off
  <2> QED
    BY <2>1, <2>2, ConflictAuto, AutoThen, ZenonT(30) DEF AutoStep
<1> QED
  BY <1>3, <1>4, <1>5, <1>6, ZenonT(30) DEF Probing

\* acd_restart, for the client of DHCP: it is told to decline the address, and
\* then either waits for the rate limit or is told to start over.
LEMMA AcdRestartIs ==
  ASSUME NEW n, Core(n), Listed(n, "dhcp"), NEW r, r = AcdRestart(n, "dhcp")
  PROVE  Good(r)
<1> DEFINE k    == n.acd["dhcp"].conflicts + 1
           up   == [n EXCEPT !.acd["dhcp"].conflicts = k]
           told == Conflict(up, "dhcp", "DECLINE")
           off  == AcdStop(told, "dhcp")
<1>1. r = IF told.acd["dhcp"].conflicts >= MaxConflicts
          THEN [told EXCEPT !.acd["dhcp"].state = "RATE_LIMIT"]
          ELSE Then(off, LAMBDA x : Conflict(x, "dhcp", "RESTART"))
  BY Zenon DEF AcdRestart, Core, Shape, Fcn, NetifFields, AcdFields, Clients
<1> HIDE DEF k
<1>2. OnlyAcd(n, up, "dhcp") /\ up.acd["dhcp"].state = n.acd["dhcp"].state
  BY AcdCount DEF Core, Clients
<1> HIDE DEF up
<1>3. Core(up) /\ Listed(up, "dhcp")
  BY <1>2, AcdCore, ZenonT(30) DEF Core
<1>4. Becomes(up, told, "BACKING_OFF") /\ told.dhcp.offered = up.dhcp.offered
  BY <1>3, ConflictDecline, ZenonT(30) DEF Core
<1> HIDE DEF told
<1>5. Core(told) /\ Listed(told, "dhcp") /\ told.dhcp.state = "BACKING_OFF"
  BY <1>3, <1>4, ZenonT(30) DEF Core, Becomes
<1>6. CASE told.acd["dhcp"].conflicts >= MaxConflicts
  <2>1. OnlyAcd(told, r, "dhcp") /\ r.acd["dhcp"].state = "RATE_LIMIT"
    BY <1>1, <1>5, <1>6, AcdState, SMTT(30) DEF Core, Clients
  <2>2. Core(r) /\ Listed(r, "dhcp") /\ r.dhcp.state = "BACKING_OFF"
    BY <1>5, <2>1, AcdCore, ZenonT(30)
  <2> QED
    BY <2>1, <2>2, ZenonT(30) DEF Good, ProbesOK, WaitsOK, Probes, Probing
<1>7. CASE ~(told.acd["dhcp"].conflicts >= MaxConflicts)
  <2>1. OnlyAcd(told, off, "dhcp") /\ off.acd["dhcp"].state = "OFF"
    BY <1>5, AcdStopIs, ZenonT(30) DEF Core, Clients
  <2> HIDE DEF off
  <2>2. Core(off) /\ Idle(off) /\ off.dhcp.state # "OFF"
    BY <1>5, <2>1, AcdCore, ZenonT(30) DEF Idle, Probes, Probing
  <2>3. r = Conflict(off, "dhcp", "RESTART")
    BY <1>1, <1>7, ZenonT(30) DEF Then
  <2> QED
    BY <2>2, <2>3, ConflictRestart, ZenonT(30)
<1> QED
  BY <1>6, <1>7, Zenon

\* acd_restart, for the client of AutoIP.
LEMMA AcdRestartAuto ==
  ASSUME NEW n, Shape(n), NEW r, r = AcdRestart(n, "autoip")
  PROVE  AutoStep(n, r)
<1> DEFINE k    == n.acd["autoip"].conflicts + 1
           up   == [n EXCEPT !.acd["autoip"].conflicts = k]
           told == Conflict(up, "autoip", "DECLINE")
           off  == AcdStop(told, "autoip")
<1>1. r = IF told.acd["autoip"].conflicts >= MaxConflicts
          THEN [told EXCEPT !.acd["autoip"].state = "RATE_LIMIT"]
          ELSE Then(off, LAMBDA x : Conflict(x, "autoip", "RESTART"))
  BY Zenon DEF AcdRestart, Shape, Fcn, NetifFields, AcdFields, Clients
<1> HIDE DEF k
<1>2. AutoStep(n, up)
  BY AcdCount, AutoAcd, ZenonT(30) DEF Clients
<1> HIDE DEF up
<1>3. AutoStep(n, told)
  BY <1>2, ConflictAuto, AutoThen, SMTT(30) DEF AutoStep
<1> HIDE DEF told
<1>4. CASE told.acd["autoip"].conflicts >= MaxConflicts
  <2>1. OnlyAcd(told, r, "autoip")
    BY <1>1, <1>3, <1>4, AcdState, ZenonT(30) DEF AutoStep, Clients
  <2> QED
    BY <1>3, <2>1, AutoAcd, AutoThen, ZenonT(30)
<1>5. CASE ~(told.acd["autoip"].conflicts >= MaxConflicts)
  <2>1. OnlyAcd(told, off, "autoip")
    BY <1>3, AcdStopIs, ZenonT(30) DEF AutoStep, Clients
  <2>2. AutoStep(n, off)
    BY <1>3, <2>1, AutoAcd, AutoThen, ZenonT(30)
  <2> HIDE DEF off
  <2>3. r = Conflict(off, "autoip", "RESTART")
    BY <1>1, <1>5, ZenonT(30) DEF Then
  <2> QED
    BY <2>2, <2>3, ConflictAuto, AutoThen, ZenonT(30) DEF AutoStep
<1> QED
  BY <1>4, <1>5, ZenonT(30)

\* acd_arp_reply and acd_handle_arp_conflict, for the client of DHCP, which is
\* never put in passive mode.
LEMMA ArpReplyIs ==
  ASSUME NEW n, Good(n), Listed(n, "dhcp"), NEW probe \in BOOLEAN,
         NEW r, r = ArpReply(n, "dhcp", probe)
  PROVE  Good(r)
<1>0. Core(n) /\ Shape(n) /\ n.acd["dhcp"].state # "PASSIVE_ONGOING"
  BY Zenon DEF Good, Core
<1>1. \/ r = AcdRestart(n, "dhcp") \/ r = n
      \/ r = [n EXCEPT !.acd["dhcp"].lastconflict = TRUE]
  BY <1>0, Zenon DEF ArpReply, HandleArpConflict, Probing
<1>2. CASE r = AcdRestart(n, "dhcp")
  BY <1>0, <1>2, AcdRestartIs, ZenonT(30)
<1>3. CASE r = [n EXCEPT !.acd["dhcp"].lastconflict = TRUE]
  <2>1. /\ OnlyAcd(n, r, "dhcp") /\ r.acd["dhcp"].state = n.acd["dhcp"].state
        /\ r.acd["dhcp"].ipaddr = n.acd["dhcp"].ipaddr
    BY <1>0, <1>3, AcdFlag, SMTT(30) DEF Clients
  <2> QED
    BY <2>1, AcdGood, ZenonT(30)
<1> QED
  BY <1>1, <1>2, <1>3, ZenonT(30)

\* The same for the client of AutoIP.
LEMMA ArpReplyAuto ==
  ASSUME NEW n, Shape(n), NEW probe \in BOOLEAN, NEW r, r = ArpReply(n, "autoip", probe)
  PROVE  AutoStep(n, r)
<1> DEFINE off == AcdStop(n, "autoip")
<1>1. \/ r = AcdRestart(n, "autoip") \/ r = n \/ r = Conflict(off, "autoip", "DECLINE")
      \/ r = [n EXCEPT !.acd["autoip"].lastconflict = TRUE]
  BY DEF ArpReply, HandleArpConflict, Probing
<1>2. CASE r = AcdRestart(n, "autoip")
  BY <1>2, AcdRestartAuto, ZenonT(30)
<1>3. CASE r = [n EXCEPT !.acd["autoip"].lastconflict = TRUE]
  BY <1>3, AcdFlag, AutoAcd, ZenonT(30) DEF Clients
<1>4. CASE r = Conflict(off, "autoip", "DECLINE")
  <2>1. AutoStep(n, off)
    BY AcdStopIs, AutoAcd, ZenonT(30) DEF Clients
  <2> HIDE DEF off
  <2> QED
    BY <1>4, <2>1, ConflictAuto, AutoThen, ZenonT(30) DEF AutoStep
<1>5. CASE r = n
  BY <1>5, Zenon DEF AutoStep, SameDhcp
<1> QED
  BY <1>1, <1>2, <1>3, <1>4, <1>5, ZenonT(30)

(***************************************************************************)
(* The timers of the client, and the link.                                 *)
(***************************************************************************)

\* A request from a state in which no probe is under way.
LEMMA AsksGood ==
  ASSUME NEW n, Core(n), Idle(n), n.dhcp.state # "OFF", NEW r,
         NEW s \in {"REQUESTING", "REBOOTING", "RENEWING", "REBINDING"}, Asks(n, r, s)
  PROVE  Good(r)
<1>1. Becomes(n, r, s) /\ r.dhcp.timeout = TRUE /\ r.dhcp.offered \in {AddrAny} \cup Pool
  BY OnlyDhcpBecomes, Zenon DEF Asks, Core
<1>2. s \notin {"OFF", "CHECKING", "INIT"}
  BY Zenon
<1> QED
  BY <1>1, <1>2, GoodBecomes, ZenonT(30)

\* dhcp_discover from such a state.
LEMMA DiscoverGood ==
  ASSUME NEW n, Core(n), Idle(n), n.dhcp.state # "OFF", NEW r, r = Discover(n)
  PROVE  Good(r)
<1>1. Becomes(n, r, "SELECTING") /\ r.dhcp.timeout = TRUE /\ r.dhcp.offered = AddrAny
  BY DiscoverIs, Zenon DEF Core
<1>2. "SELECTING" \notin {"OFF", "CHECKING", "INIT"} /\ AddrAny \in {AddrAny} \cup Pool
  BY Zenon
<1> QED
  BY <1>1, <1>2, GoodBecomes, ZenonT(30)

\* No probe is under way outside CHECKING.
LEMMA GoodIdle == \A n : Good(n) /\ n.dhcp.state # "CHECKING" => Core(n) /\ Idle(n)
  BY Zenon DEF Good, ProbesOK, Idle

\* A change of other fields of dhcp.
LEMMA DhcpSame ==
  ASSUME NEW n, NEW r, OnlyDhcp(n, r), r.dhcp.state = n.dhcp.state,
         r.dhcp.offered = n.dhcp.offered
  PROVE  /\ Core(n) => Core(r)
         /\ Core(n) /\ Idle(n) => Core(r) /\ Idle(r)
         /\ Good(n) /\ r.dhcp.timeout = n.dhcp.timeout => Good(r)
<1>1. \A m : Listed(r, m) <=> Listed(n, m)
  BY ListedSame, Zenon DEF OnlyDhcp
<1>2. Core(n) => Core(r)
  BY <1>1, Zenon DEF OnlyDhcp, Core, Held
<1> QED
  BY <1>1, <1>2, ZenonT(30) DEF OnlyDhcp, Good, ProbesOK, WaitsOK, Probes, Idle

\* dhcp_t1_timeout.
LEMMA T1Is ==
  ASSUME NEW n, Good(n), NEW r, r = T1Timeout(n)
  PROVE  Good(r)
<1>1. CASE n.dhcp.state \in {"REQUESTING", "BOUND", "RENEWING"}
  <2> DEFINE next == (n.dhcp.t2 - n.dhcp.used) \div 2
             x == Renew(n)
             t == IF next >= NextThreshold THEN next ELSE x.dhcp.t1_renew
  <2>0. Core(n) /\ Shape(n) /\ Idle(n)
    BY <1>1, GoodIdle, ZenonT(30) DEF Core
  <2>1. Asks(n, x, "RENEWING")
    BY <2>0, RequestIs, ZenonT(30) DEF Renew
  <2>2. Good(x)
    BY <1>1, <2>0, <2>1, AsksGood, ZenonT(30)
  <2>3. r = [x EXCEPT !.dhcp.t1_renew = t]
    BY <1>1, <2>1, ZenonT(30) DEF T1Timeout, Asks, OnlyDhcp, Shape, Fcn, NetifFields, DhcpFields
  <2> HIDE DEF x, t
  <2>4. /\ OnlyDhcp(x, r) /\ r.dhcp.state = x.dhcp.state /\ r.dhcp.offered = x.dhcp.offered
        /\ r.dhcp.timeout = x.dhcp.timeout
    BY <2>1, <2>3 DEF Asks, OnlyDhcp, Shape, Fcn, NetifFields, DhcpFields
  <2> QED
    BY <2>2, <2>4, DhcpSame, ZenonT(30)
<1>2. CASE n.dhcp.state \notin {"REQUESTING", "BOUND", "RENEWING"}
  BY <1>2, Zenon DEF T1Timeout
<1> QED
  BY <1>1, <1>2, ZenonT(30)

\* dhcp_t2_timeout.
LEMMA T2Is ==
  ASSUME NEW n, Good(n), NEW r, r = T2Timeout(n)
  PROVE  Good(r)
<1>1. CASE n.dhcp.state \in {"REQUESTING", "BOUND", "RENEWING", "REBINDING"}
  <2> DEFINE next == (n.dhcp.t0 - n.dhcp.used) \div 2
             x == Rebind(n)
             t == IF next >= NextThreshold THEN next ELSE x.dhcp.t2_rebind
  <2>0. Core(n) /\ Shape(n) /\ Idle(n)
    BY <1>1, GoodIdle, ZenonT(30) DEF Core
  <2>1. Asks(n, x, "REBINDING")
    BY <2>0, RequestIs, ZenonT(30) DEF Rebind
  <2>2. Good(x)
    BY <1>1, <2>0, <2>1, AsksGood, ZenonT(30)
  <2>3. r = [x EXCEPT !.dhcp.t2_rebind = t]
    BY <1>1, <2>1, ZenonT(30) DEF T2Timeout, Asks, OnlyDhcp, Shape, Fcn, NetifFields, DhcpFields
  <2> HIDE DEF x, t
  <2>4. /\ OnlyDhcp(x, r) /\ r.dhcp.state = x.dhcp.state /\ r.dhcp.offered = x.dhcp.offered
        /\ r.dhcp.timeout = x.dhcp.timeout
    BY <2>1, <2>3 DEF Asks, OnlyDhcp, Shape, Fcn, NetifFields, DhcpFields
  <2> QED
    BY <2>2, <2>4, DhcpSame, Zenon
<1>2. CASE n.dhcp.state \notin {"REQUESTING", "BOUND", "RENEWING", "REBINDING"}
  BY <1>2, Zenon DEF T2Timeout
<1> QED
  BY <1>1, <1>2, ZenonT(30)

\* One field of the lease times.
LEMMA TimeSet ==
  ASSUME NEW n, Good(n), NEW f \in {"used", "t1_renew", "t2_rebind"}, NEW t, NEW r,
         r = [n EXCEPT !.dhcp = [n.dhcp EXCEPT ![f] = t]]
  PROVE  Good(r)
<1> DEFINE d == [n.dhcp EXCEPT ![f] = t]
<1>1. /\ Fcn(d, DhcpFields) /\ d.state = n.dhcp.state /\ d.offered = n.dhcp.offered
      /\ d.timeout = n.dhcp.timeout
  BY Zenon DEF Good, Core, Shape, Fcn, DhcpFields
<1>2. r = [n EXCEPT !.dhcp = d]
  BY Zenon
<1> HIDE DEF d
<1>3. OnlyDhcp(n, r) /\ r.dhcp = d
  BY <1>1, <1>2 DEF OnlyDhcp, Good, Core, Shape, Fcn, NetifFields
<1> QED
  BY <1>1, <1>3, DhcpSame, ZenonT(30)

\* dhcp_coarse_tmr.
LEMMA CoarseIs ==
  ASSUME NEW n, Good(n), NEW r, r = CoarseTick(n)
  PROVE  Good(r)
<1> DEFINE d     == n.dhcp
           used  == IF d.t0 > 0 THEN d.used + 1 ELSE d.used
           aged  == [n EXCEPT !.dhcp = [n.dhcp EXCEPT !["used"] = used]]
           u     == Decremented(aged.dhcp.t2_rebind)
           after == [aged EXCEPT !.dhcp = [aged.dhcp EXCEPT !["t2_rebind"] = u]]
           v     == Decremented(after.dhcp.t1_renew)
           last  == [after EXCEPT !.dhcp = [after.dhcp EXCEPT !["t1_renew"] = v]]
           stop  == ReleaseAndStop(aged)
<1>1. aged = [n EXCEPT !.dhcp.used = used]
  BY Zenon DEF Good, Core, Shape, Fcn, NetifFields
<1>2. Good(aged)
  BY TimeSet, Zenon
<1> HIDE DEF aged
<1>3. after = [aged EXCEPT !.dhcp.t2_rebind = Decremented(@)]
  BY <1>2, Zenon DEF Good, Core, Shape, Fcn, NetifFields, DhcpFields
<1>4. Good(after)
  BY <1>2, TimeSet, ZenonT(30)
<1> HIDE DEF after
<1>5. last = [after EXCEPT !.dhcp.t1_renew = Decremented(@)]
  BY <1>4, Zenon DEF Good, Core, Shape, Fcn, NetifFields, DhcpFields
<1>6. Good(last)
  BY <1>4, TimeSet, ZenonT(30)
<1> HIDE DEF last
<1>7. \/ r = Then(stop, Start) \/ r = Then(after, T2Timeout) \/ r = Then(last, T1Timeout)
      \/ r = last
  BY <1>1, <1>3, <1>5, ZenonT(30) DEF CoarseTick
<1>8. Good(stop)
  BY <1>2, ReleaseIs, ZenonT(30) DEF Good
<1> HIDE DEF stop
<1>9. Good(Start(stop))
  BY <1>8, StartIs, ZenonT(30) DEF Good, Core
<1>10. Good(T2Timeout(after)) /\ Good(T1Timeout(last))
  BY <1>4, <1>6, T1Is, T2Is, ZenonT(30)
<1>11. /\ Then(stop, Start) = Start(stop) /\ Then(after, T2Timeout) = T2Timeout(after)
       /\ Then(last, T1Timeout) = T1Timeout(last)
  BY Zenon DEF Then
<1> QED
  BY <1>6, <1>7, <1>9, <1>10, <1>11, ZenonT(30)

\* dhcp_timeout, called when the request timer has run out.
LEMMA TimeoutIs ==
  ASSUME NEW n, Good(n), NEW x, x = [n EXCEPT !.dhcp.timeout = FALSE], NEW r, r = Timeout(x)
  PROVE  Good(r)
<1>1. OnlyDhcp(n, x) /\ x.dhcp.state = n.dhcp.state /\ x.dhcp.offered = n.dhcp.offered
  BY Zenon DEF Good, Core, OnlyDhcp, Shape, Fcn, NetifFields, DhcpFields
<1>2. Core(x) /\ Shape(x)
  <2>1. Core(n)
    BY Zenon DEF Good
  <2>2. Core(x)
    BY <1>1, <2>1, DhcpSame, Zenon
  <2> QED
    BY <2>2, Zenon DEF Core
<1>3. x.dhcp.state # "CHECKING" => Idle(x)
  BY <1>1, GoodIdle, DhcpSame, Zenon
<1>4. ASSUME x.dhcp.state \notin {"CHECKING", "OFF"} PROVE Good(Discover(x))
  BY <1>2, <1>3, <1>4, DiscoverGood, Zenon
<1>5. ASSUME x.dhcp.state \notin {"CHECKING", "OFF"} PROVE Good(Select(x)) /\ Good(Reboot(x))
  <2>1. Asks(x, Select(x), "REQUESTING") /\ Asks(x, Reboot(x), "REBOOTING")
    BY <1>2, RequestIs, Zenon DEF Select, Reboot
  <2> QED
    BY <1>2, <1>3, <1>5, <2>1, AsksGood, Zenon
<1>6. Good(Then(ReleaseAndStop(x), Start))
  <2> DEFINE stop == ReleaseAndStop(x)
  <2>1. Good(stop)
    BY <1>2, ReleaseIs, ZenonT(30)
  <2> HIDE DEF stop
  <2>2. Good(Start(stop))
    BY <2>1, StartIs, ZenonT(30) DEF Good, Core
  <2>3. Then(stop, Start) = Start(stop)
    BY Zenon DEF Then
  <2> QED
    BY <2>2, <2>3, Zenon DEF stop
<1>7. CASE x.dhcp.state \in {"BACKING_OFF", "SELECTING"}
  BY <1>4, <1>7, ZenonT(30) DEF Timeout
<1>8. CASE x.dhcp.state = "REQUESTING"
  BY <1>5, <1>6, <1>8, ZenonT(30) DEF Timeout
<1>9. CASE x.dhcp.state = "REBOOTING"
  BY <1>4, <1>5, <1>9, ZenonT(30) DEF Timeout
<1>10. CASE x.dhcp.state \notin {"BACKING_OFF", "SELECTING", "REQUESTING", "REBOOTING"}
  <2>1. r = x
    BY <1>10, Zenon DEF Timeout
  <2>2. \A m : Listed(x, m) <=> Listed(n, m)
    BY <1>1, ListedSame, ZenonT(30) DEF OnlyDhcp
  <2>3. x.link = n.link /\ x.acd = n.acd
    BY <1>1, Zenon DEF OnlyDhcp
  <2>4. ProbesOK(x) /\ WaitsOK(x)
    BY <1>1, <1>10, <2>2, <2>3, ZenonT(30) DEF Good, ProbesOK, WaitsOK, Probes
  <2> QED
    BY <1>2, <2>1, <2>4, ZenonT(30) DEF Good
<1> QED
  BY <1>7, <1>8, <1>9, <1>10, ZenonT(30)

\* The link of the interface alone.
LEMMA LinkSet ==
  ASSUME NEW n, Core(n), NEW up, NEW r, r = [n EXCEPT !.link = up]
  PROVE  /\ Core(r) /\ r.dhcp = n.dhcp /\ r.acd = n.acd /\ r.link = up
         /\ Listed(r, "dhcp") <=> Listed(n, "dhcp")
<1>1. /\ Shape(r) /\ r.dhcp = n.dhcp /\ r.acd = n.acd /\ r.link = up /\ r.addr = n.addr
      /\ r.acd_list = n.acd_list /\ r.autoip = n.autoip
  BY Zenon DEF Core, Shape, Fcn, NetifFields
<1> QED
  BY <1>1, ListedSame, ZenonT(30) DEF Core, Held

\* The count of tries alone.
LEMMA TriesSet ==
  ASSUME NEW n, Shape(n), NEW r, r = [n EXCEPT !.dhcp.tries = 0]
  PROVE  OnlyDhcp(n, r) /\ r.dhcp.state = n.dhcp.state /\ r.dhcp.offered = n.dhcp.offered
  BY Zenon DEF OnlyDhcp, Shape, Fcn, NetifFields, DhcpFields

\* dhcp_network_changed_link_up.
LEMMA LinkUpIs ==
  ASSUME NEW x, Core(x), Idle(x), NEW r, r = NetworkChangedLinkUp(x)
  PROVE  Good(r)
<1> DEFINE first == [x EXCEPT !.dhcp.tries = 0]
<1>3. /\ OnlyDhcp(x, first) /\ first.dhcp.state = x.dhcp.state
      /\ first.dhcp.offered = x.dhcp.offered
  BY TriesSet, Zenon DEF Core
<1>4. \/ r = Then(first, Reboot) /\ x.dhcp.state # "OFF"
      \/ r = x /\ x.dhcp.state = "OFF"
      \/ r = Then(first, Discover) /\ x.dhcp.state # "OFF"
  BY Zenon DEF NetworkChangedLinkUp, Supplied
<1> HIDE DEF first
<1>5. Core(first) /\ Idle(first)
  BY <1>3, DhcpSame, ZenonT(30)
<1>6. Then(first, Reboot) = Reboot(first) /\ Then(first, Discover) = Discover(first)
  BY Zenon DEF Then
<1>7. CASE r = Then(first, Reboot) /\ x.dhcp.state # "OFF"
  <2>1. Asks(first, Reboot(first), "REBOOTING")
    BY <1>5, RequestIs, ZenonT(30) DEF Reboot, Core
  <2> QED
    BY <1>3, <1>5, <1>6, <1>7, <2>1, AsksGood, ZenonT(30)
<1>8. CASE r = x /\ x.dhcp.state = "OFF"
  BY <1>8, Zenon DEF Good, Core, ProbesOK, WaitsOK
<1>9. CASE r = Then(first, Discover) /\ x.dhcp.state # "OFF"
  BY <1>3, <1>5, <1>6, <1>9, DiscoverGood, ZenonT(30)
<1> QED
  BY <1>4, <1>7, <1>8, <1>9, ZenonT(30)

\* netif_set_link_down: AutoIP and both ACD clients stop.
LEMMA LinkDownIs ==
  ASSUME NEW n, Good(n), NEW off, off = [n EXCEPT !.link = FALSE],
         NEW auto, auto = IF off.autoip.state # "OFF" THEN AutoipStop(off) ELSE off,
         NEW x, x = IF Listed(auto, "autoip") THEN AcdStop(auto, "autoip") ELSE auto,
         NEW r, r = IF Listed(x, "dhcp") THEN AcdStop(x, "dhcp") ELSE x
  PROVE  Good(r)
<1>1. Core(off) /\ off.link = FALSE
  BY LinkSet DEF Good
<1>2. AutoStep(off, auto)
  <2>1. CASE off.autoip.state # "OFF"
    BY <1>1, <2>1, AutoipStopIs, ZenonT(30) DEF Core, AutoStep, Held
  <2>2. CASE off.autoip.state = "OFF"
    BY <1>1, <2>2, ZenonT(30) DEF Core, AutoStep, SameDhcp
  <2> QED
    BY <2>1, <2>2, ZenonT(30)
<1>3. AutoStep(auto, x)
  <2>1. CASE Listed(auto, "autoip")
    BY <1>2, <2>1, AcdStopIs, AutoAcd, ZenonT(30) DEF AutoStep, Clients
  <2>2. CASE ~Listed(auto, "autoip")
    BY <1>2, <2>2, ZenonT(30) DEF AutoStep, SameDhcp
  <2> QED
    BY <2>1, <2>2, ZenonT(30)
<1>4. Core(x) /\ ~x.link
  BY <1>1, <1>2, <1>3, ZenonT(30) DEF Core, AutoStep, SameDhcp
<1>5. CASE ~Listed(x, "dhcp")
  BY <1>4, <1>5, ZenonT(30) DEF Good, ProbesOK, WaitsOK
<1>6. CASE Listed(x, "dhcp")
  <2>1. OnlyAcd(x, r, "dhcp") /\ r.acd["dhcp"].state = "OFF"
    BY <1>4, <1>6, AcdStopIs, ZenonT(30) DEF Core, Clients
  <2>2. Core(r) /\ ~r.link
    BY <1>4, <2>1, AcdCore, ZenonT(30)
  <2> QED
    BY <2>1, <2>2, ZenonT(30) DEF Good, ProbesOK, WaitsOK, Probes, Probing
<1> QED
  BY <1>5, <1>6, ZenonT(30)

(***************************************************************************)
(* The steps.                                                              *)
(***************************************************************************)

\* A call leaves what its function returns.
LEMMA Called ==
  ASSUME NEW n
  PROVE  Quiet(n) \/ Faulty(n) => netif' = n
  BY Zenon DEF Quiet, Faulty

\* At power-up the client is off and nothing is listed.
LEMMA GoodInit == Init => Good(netif)
<1> SUFFICES ASSUME Init PROVE Good(netif)
  BY Zenon
<1> DEFINE auto == [state |-> "OFF", llipaddr |-> AddrAny, tried |-> 0]
<1>1. /\ Fcn(netif, NetifFields) /\ netif.addr = AddrAny /\ netif.dhcp = NewDhcp
      /\ netif.acd \in [{"dhcp", "autoip"} -> {NewAcd}] /\ netif.acd_list = <<>>
      /\ netif.autoip = auto
  BY Zenon DEF Init, Fcn, NetifFields
<1>2. Fcn(NewDhcp, DhcpFields) /\ Fcn(NewAcd, AcdFields) /\ Fcn(auto, AutoipFields)
  BY Zenon DEF Fcn, NewDhcp, NewAcd, DhcpFields, AcdFields, AutoipFields
<1>3. Fcn(netif.acd, Clients) /\ \A m \in Clients : netif.acd[m] = NewAcd
  BY <1>1, Zenon DEF Fcn, Clients
<1>4. GoodList(<<>>) /\ ~OnList(<<>>, "dhcp")
  BY DEF GoodList, OnList
<1>5. Shape(netif) /\ Held(netif) /\ ~Listed(netif, "dhcp")
  BY <1>1, <1>2, <1>3, <1>4, AnyNotLL, ZenonT(30) DEF Shape, Held, Listed
<1> QED
  BY <1>1, <1>3, <1>5, SMTT(30) DEF Good, Core, ProbesOK, WaitsOK, NewDhcp, NewAcd, Clients

\* The calls of the application and of the driver.
LEMMA CallStep ==
  ASSUME Good(netif), DhcpStart \/ DhcpRestart \/ DhcpStop \/ SetLinkUp \/ SetLinkDown
  PROVE  Good(netif')
<1>1. CASE DhcpStart \/ DhcpRestart
  <2>1. netif' = Start(netif)
    BY <1>1, Called, ZenonT(30) DEF DhcpStart, DhcpRestart
  <2> QED
    BY <2>1, StartIs, ZenonT(30) DEF Good, Core
<1>2. CASE DhcpStop
  <2>1. netif' = ReleaseAndStop(netif)
    BY <1>2, Called, ZenonT(30) DEF DhcpStop
  <2> QED
    BY <2>1, ReleaseIs, ZenonT(30) DEF Good
<1>3. CASE SetLinkUp
  <2> DEFINE x == [netif EXCEPT !.link = TRUE]
  <2>1. netif' = NetworkChangedLinkUp(x) /\ ~netif.link
    BY <1>3, Called, ZenonT(30) DEF SetLinkUp
  <2>2. /\ Core(x) /\ x.dhcp = netif.dhcp /\ x.acd = netif.acd
        /\ Listed(x, "dhcp") <=> Listed(netif, "dhcp")
    BY LinkSet, ZenonT(30) DEF Good
  <2> HIDE DEF x
  <2>3. Idle(x)
    BY <2>1, <2>2, Zenon DEF Good, ProbesOK, Idle, Probes
  <2> QED
    BY <2>1, <2>2, <2>3, LinkUpIs, ZenonT(30)
<1>4. CASE SetLinkDown
  <2> DEFINE off  == [netif EXCEPT !.link = FALSE]
             auto == IF off.autoip.state # "OFF" THEN AutoipStop(off) ELSE off
             x    == IF Listed(auto, "autoip") THEN AcdStop(auto, "autoip") ELSE auto
             r    == IF Listed(x, "dhcp") THEN AcdStop(x, "dhcp") ELSE x
  <2>1. netif' = r
    BY <1>4, Zenon DEF SetLinkDown, Faulty
  <2>2. Good(r)
    <3> HIDE DEF off, auto, x, r
    <3> QED
      BY LinkDownIs, Zenon DEF off, auto, x, r
  <2> QED
    BY <2>1, <2>2, ZenonT(30)
<1> QED
  BY <1>1, <1>2, <1>3, <1>4, ZenonT(30)

\* The timers.
LEMMA TimerStep ==
  ASSUME Good(netif),
         FineTmr \/ CoarseTmr \/ \E m \in {"dhcp", "autoip"} : AcdTmr(m) \/ AcdDefended(m)
  PROVE  Good(netif')
<1>0. Shape(netif)
  BY Zenon DEF Good, Core
<1>1. CASE FineTmr
  <2> DEFINE x == [netif EXCEPT !.dhcp.timeout = FALSE]
  <2>1. netif' = Timeout(x)
    BY <1>1, Called, ZenonT(30) DEF FineTmr
  <2> QED
    BY <2>1, TimeoutIs, ZenonT(30)
<1>2. CASE CoarseTmr
  BY <1>2, Called, CoarseIs, ZenonT(30) DEF CoarseTmr
<1>3. CASE AcdTmr("dhcp")
  <2>1. netif' = AcdTick(netif, "dhcp")
    BY <1>3, Called, ZenonT(30) DEF AcdTmr
  <2> QED
    BY <1>3, <2>1, AcdTickIs, ZenonT(30) DEF AcdTmr
<1>4. CASE AcdTmr("autoip")
  <2>1. netif' = AcdTick(netif, "autoip")
    BY <1>4, Called, ZenonT(30) DEF AcdTmr
  <2> QED
    BY <1>0, <1>4, <2>1, AcdTickAuto, AutoGood, ZenonT(30) DEF AcdTmr
<1>5. ASSUME NEW m \in Clients, AcdDefended(m) PROVE Good(netif')
  <2>1. netif' = [netif EXCEPT !.acd[m].lastconflict = FALSE]
    BY <1>5, Called, ZenonT(30) DEF AcdDefended
  <2>2. /\ OnlyAcd(netif, netif', m) /\ netif'.acd[m].state = netif.acd[m].state
        /\ netif'.acd[m].ipaddr = netif.acd[m].ipaddr
    BY <1>0, <2>1, AcdFlag, SMTT(30)
  <2>3. CASE m = "dhcp"
    BY <2>2, <2>3, AcdGood, ZenonT(30)
  <2>4. CASE m = "autoip"
    BY <2>2, <2>4, AutoAcd, AutoGood, ZenonT(30)
  <2> QED
    BY <2>3, <2>4, ZenonT(30) DEF Clients
<1> QED
  BY <1>1, <1>2, <1>3, <1>4, <1>5, ZenonT(30) DEF Clients

\* Another offered address, from the server's pool.
LEMMA OfferCore ==
  ASSUME NEW n, Core(n), NEW a \in Pool, NEW r, OnlyDhcp(n, r),
         r.dhcp.state = n.dhcp.state, r.dhcp.offered = a
  PROVE  Core(r)
  BY ListedSame, Zenon DEF OnlyDhcp, Core, Held

\* What an OFFER fills in.
LEMMA OfferIs ==
  ASSUME NEW n, Core(n), NEW a \in Pool, NEW r,
         r = [n EXCEPT !.dhcp.timeout = FALSE, !.dhcp.offered = a]
  PROVE  OnlyDhcp(n, r) /\ r.dhcp.state = n.dhcp.state /\ Core(r)
<1>1. OnlyDhcp(n, r) /\ r.dhcp.state = n.dhcp.state /\ r.dhcp.offered = a
  BY Zenon DEF Core, OnlyDhcp, Shape, Fcn, NetifFields, DhcpFields
<1> QED
  BY <1>1, OfferCore, ZenonT(30)

\* dhcp_handle_ack.
LEMMA AckIs ==
  ASSUME NEW n, Core(n), NEW a \in Pool, NEW l, NEW r, r = HandleAck(n, a, l)
  PROVE  OnlyDhcp(n, r) /\ r.dhcp.state = n.dhcp.state /\ Core(r)
<1>1. PICK t : r = [n EXCEPT !.dhcp.offered = a, !.dhcp.lease = t]
  BY Zenon DEF HandleAck
<1> DEFINE d == [n.dhcp EXCEPT !.offered = a, !.lease = t]
<1>2. r = [n EXCEPT !.dhcp = d]
  BY <1>1, Zenon DEF Core, Shape, Fcn, NetifFields
<1>3. Fcn(d, DhcpFields) /\ d.state = n.dhcp.state /\ d.offered = a
  BY ZenonT(30) DEF Core, Shape, Fcn, DhcpFields
<1> HIDE DEF d
<1>4. OnlyDhcp(n, r) /\ r.dhcp = d
  BY <1>2, <1>3 DEF Core, OnlyDhcp, Shape, Fcn, NetifFields
<1> QED
  BY <1>3, <1>4, OfferCore, ZenonT(30)

\* The messages of the server, and their loss.
LEMMA MessageStep ==
  ASSUME Good(netif), Answered \/ RecvNak \/ \E msg \in netif.wire : Lose(msg)
  PROVE  Good(netif')
<1>0. Core(netif) /\ Shape(netif)
  BY Zenon DEF Good, Core
<1>1. ASSUME NEW a \in Pool, RecvOffer(a) PROVE Good(netif')
  <2> DEFINE x == [netif EXCEPT !.dhcp.timeout = FALSE, !.dhcp.offered = a]
  <2>1. netif' = Select(x) /\ netif.dhcp.state = "SELECTING"
    BY <1>1, Called, ZenonT(30) DEF RecvOffer
  <2>2. OnlyDhcp(netif, x) /\ x.dhcp.state = "SELECTING" /\ Core(x)
    BY <1>0, <2>1, OfferIs, ZenonT(30)
  <2> HIDE DEF x
  <2>3. Idle(x)
    BY <2>1, <2>2, GoodIdle, ListedSame, ZenonT(30) DEF OnlyDhcp, Idle, Probes
  <2>4. Asks(x, netif', "REQUESTING")
    BY <2>1, <2>2, RequestIs, ZenonT(30) DEF Select, Core
  <2> QED
    BY <2>2, <2>3, <2>4, AsksGood, ZenonT(30)
<1>2. ASSUME NEW a \in Pool, NEW l \in Leases, RecvAck(a, l) PROVE Good(netif')
  <2> DEFINE got == HandleAck(netif, a, l)
  <2>1. /\ netif.link
        /\ \/ netif.dhcp.state \in {"REQUESTING", "REBOOTING"} /\ netif' = Check(got)
           \/ netif.dhcp.state \in {"REBINDING", "RENEWING"} /\ netif' = Bind(got)
    BY <1>2, Called, ZenonT(30) DEF RecvAck
  <2>2. OnlyDhcp(netif, got) /\ got.dhcp.state = netif.dhcp.state /\ Core(got)
    BY <1>0, AckIs, ZenonT(30)
  <2> HIDE DEF got
  <2>3. CASE netif' = Check(got)
    BY <2>1, <2>2, <2>3, CheckIs, ZenonT(30) DEF OnlyDhcp
  <2>4. CASE netif' = Bind(got) /\ netif.dhcp.state \in {"REBINDING", "RENEWING"}
    <3>1. Idle(got) /\ got.dhcp.state # "OFF"
      BY <2>2, <2>4, GoodIdle, ListedSame, ZenonT(30) DEF OnlyDhcp, Idle, Probes
    <3>2. netif' = Conflict(got, "dhcp", "IP_OK")
      BY <2>4, Zenon DEF Conflict
    <3> QED
      BY <2>2, <3>1, <3>2, ConflictOk, ZenonT(30)
  <2> QED
    BY <2>1, <2>3, <2>4, ZenonT(30)
<1>3. CASE RecvNak
  <2>1. netif' = HandleNak(netif) /\ netif.dhcp.state \notin {"CHECKING", "OFF"}
    BY <1>3, Called, ZenonT(30) DEF RecvNak
  <2>2. Idle(netif)
    BY <2>1, GoodIdle, ZenonT(30)
  <2> QED
    BY <1>0, <2>1, <2>2, HandleNakIs, ZenonT(30)
<1>4. ASSUME NEW msg, Lose(msg) PROVE Good(netif')
  <2>1. PICK w : netif' = [netif EXCEPT !.wire = w]
    <3>1. netif' = [netif EXCEPT !.wire = @ \ {msg}]
      BY <1>4, Called, ZenonT(30) DEF Lose
    <3> QED
      BY <3>1, Zenon
  <2>2. OnlyDhcp(netif, netif') /\ netif'.dhcp = netif.dhcp
    BY <1>0, <2>1, ZenonT(30) DEF OnlyDhcp, Shape, Fcn, NetifFields
  <2> QED
    BY <2>2, DhcpSame, ZenonT(30)
<1> QED
  BY <1>1, <1>2, <1>3, <1>4, ZenonT(30) DEF Answered

\* Every step keeps the invariant.
LEMMA GoodNext == Good(netif) /\ [Next]_vars => Good(netif')
<1> SUFFICES ASSUME Good(netif), [Next]_vars PROVE Good(netif')
  BY Zenon
<1>0. Shape(netif)
  BY Zenon DEF Good, Core
<1>1. CASE DhcpStart \/ DhcpRestart \/ DhcpStop \/ SetLinkUp \/ SetLinkDown
  BY <1>1, CallStep, ZenonT(30)
<1>2. CASE FineTmr \/ CoarseTmr \/ \E m \in {"dhcp", "autoip"} : AcdTmr(m) \/ AcdDefended(m)
  BY <1>2, TimerStep, ZenonT(30)
<1>3. ASSUME NEW probe \in BOOLEAN, ArpConflict("dhcp", probe) PROVE Good(netif')
  <2>1. netif' = ArpReply(netif, "dhcp", probe) /\ Listed(netif, "dhcp")
    BY <1>3, Called, ZenonT(30) DEF ArpConflict
  <2> QED
    BY <2>1, ArpReplyIs, ZenonT(30)
<1>4. ASSUME NEW probe \in BOOLEAN, ArpConflict("autoip", probe) PROVE Good(netif')
  <2>1. netif' = ArpReply(netif, "autoip", probe)
    BY <1>4, Called, ZenonT(30) DEF ArpConflict
  <2> QED
    BY <1>0, <2>1, ArpReplyAuto, AutoGood, ZenonT(30)
<1>5. CASE Answered \/ RecvNak \/ \E msg \in netif.wire : Lose(msg)
  BY <1>5, MessageStep, ZenonT(30)
<1>6. CASE UNCHANGED vars
  BY <1>6, Zenon DEF vars
<1> QED
  BY <1>1, <1>2, <1>3, <1>4, <1>5, <1>6, ZenonT(30) DEF Next

(***************************************************************************)
(* The theorems.                                                           *)
(***************************************************************************)

\* dhcp_release_and_stop removes an ACD client that is listed: the assertion of
\* acd_remove holds.
RemoveFinds == netif.dhcp.state # "OFF" <=> Listed(netif, "dhcp")

\* The inductive invariant.
DhcpInv == Good(netif)

\* The invariant implies what the runs check.
LEMMA GoodMeans ==
  DhcpInv => NeverWedged /\ ProbesForCheck /\ LinkLocalHeld /\ RemoveFinds
<1> SUFFICES ASSUME DhcpInv
             PROVE  NeverWedged /\ ProbesForCheck /\ LinkLocalHeld /\ RemoveFinds
  BY Zenon
<1>1. NeverWedged
  BY Zenon DEF DhcpInv, Good, WaitsOK, Probes, Probing, NeverWedged, Running
<1>2. ProbesForCheck
  BY Zenon DEF DhcpInv, Good, ProbesOK, Probes, ProbesForCheck
<1>3. LinkLocalHeld /\ RemoveFinds
  BY Zenon DEF DhcpInv, Good, Core, Held, LinkLocalHeld, RemoveFinds
<1> QED
  BY <1>1, <1>2, <1>3, ZenonT(30)

\* The client stays good.
LEMMA StaysGood == Spec => []DhcpInv
<1>1. Init => DhcpInv
  BY GoodInit, Zenon DEF DhcpInv
<1>2. DhcpInv /\ [Next]_vars => DhcpInv'
  BY GoodNext, Zenon DEF DhcpInv
<1> QED
  BY <1>1, <1>2, PTL DEF Spec

\* With the link up the client never waits for something that is not going to
\* happen, whatever dhcp_fine_tmr, dhcp_coarse_tmr, acd_tmr, the server and other
\* hosts do in whatever order.
THEOREM NeverStuck == Spec => []NeverWedged
  BY StaysGood, GoodMeans, PTL

\* acd_tmr only ever calls dhcp_conflict_callback with ACD_IP_OK while the client
\* is checking the address that was probed.
THEOREM ProbesAreForCheck == Spec => []ProbesForCheck
  BY StaysGood, GoodMeans, PTL

\* netif_set_addr, autoip_stop and the two clients of ACD leave a link-local
\* address on the interface only while AutoIP holds it.
THEOREM LinkLocalIsHeld == Spec => []LinkLocalHeld
  BY StaysGood, GoodMeans, PTL

\* acd_remove never fails its assertion "acd not on list" for the DHCP client.
THEOREM RemoveFindsClient == Spec => []RemoveFinds
  BY StaysGood, GoodMeans, PTL
=============================================================================
