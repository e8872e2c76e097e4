-------------------------------- MODULE Dhcp --------------------------------
(***************************************************************************)
(* How an interface gets its IPv4 address: the DHCP client, the address    *)
(* conflict detection (ACD) it runs on an acknowledged address, and AutoIP,*)
(* the link-local fallback it starts when no server answers (core/ipv4/    *)
(* dhcp.c, acd.c, autoip.c, and the parts of core/netif.c that tie them    *)
(* together).  All of it runs under the core lock, so a timer, a received  *)
(* packet or an API call is one step; but within a step the three modules  *)
(* call each other back, and each keeps state about the address that the   *)
(* others may change under it.                                             *)
(*                                                                         *)
(* `netif' is the struct netif with the client data hanging off it; the    *)
(* functions of the code are operators from a netif to a netif.  How long  *)
(* a request timeout or an ACD wait lasts is left open (it fires at some   *)
(* moment); the lease is counted tick by tick as dhcp_coarse_tmr does.     *)
(* An answer can only be accepted while the transaction identifier it      *)
(* carries is still the client's, so `wire' keeps the messages of the      *)
(* current transaction: any of them may be answered late, twice, out of    *)
(* order or never.  Failing allocations and dhcp_inform are left out.      *)
(***************************************************************************)
EXTENDS Integers, Sequences

CONSTANTS
  Pool,          \* the addresses a DHCP server hands out
  LinkLocals,    \* how many link-local addresses AutoIP tries before it wraps
  Leases,        \* the leases a server grants: [t0, t1, t2] in seconds
  Infinite,      \* 0xffffffff: this timer of the lease is not set
  NotGiven,      \* the ACK has no such option
  CoarseSecs,    \* DHCP_COARSE_TIMER_SECS
  CoopTries,     \* LWIP_DHCP_AUTOIP_COOP_TRIES
  RequestTries,  \* the 5 of dhcp_timeout
  RebootTries,   \* REBOOT_TRIES
  MaxTries,      \* where dhcp->tries stops counting (255)
  ProbeNum, AnnounceNum, MaxConflicts,  \* of prot/acd.h
  MaxFaults      \* bound on link losses, conflicts, NAKs and restarts

ASSUME DhcpAssumption ==
  /\ LinkLocals \in Nat \ {0}
  /\ 0 \notin Pool /\ Pool \cap (100 .. 100 + LinkLocals - 1) = {}
  /\ RequestTries < MaxTries /\ RebootTries <= MaxTries /\ CoopTries <= MaxTries

VARIABLES netif, faults

vars == <<netif, faults>>

AddrAny == 0

\* One call after another: F on the netif that the call before left.
Then(n, F(_)) == CHOOSE r \in {F(x) : x \in {n}} : TRUE

\* 169.254.1.0 to 169.254.254.255
LL == 100 .. 100 + LinkLocals - 1

(***************************************************************************)
(* ACD clients (acd.c).  An address is only looked at while the client is  *)
(* not off, so a stopped client forgets it here.                           *)
(***************************************************************************)
Probing == {"PROBE_WAIT", "PROBING", "ANNOUNCE_WAIT"}

\* a walk along the list comes upon m; the list with its i-th client unlinked
OnList(l, m) == \E i \in 1 .. Len(l) : l[i] = m
Without(l, i) == SubSeq(l, 1, i - 1) \o SubSeq(l, i + 1, Len(l))

Listed(n, m) == OnList(n.acd_list, m)

AcdAdd(n, m) ==
  IF Listed(n, m) THEN n ELSE [n EXCEPT !.acd_list = <<m>> \o @]

\* where a walk along the list comes upon m
AcdAt(n, m) == CHOOSE i \in 1 .. Len(n.acd_list) : n.acd_list[i] = m

AcdRemove(n, m) ==
  IF Listed(n, m) THEN [n EXCEPT !.acd_list = Without(@, AcdAt(n, m))] ELSE n

AcdStart(n, m, a) ==
  [n EXCEPT !.acd[m] = [@ EXCEPT !.state = "PROBE_WAIT", !.ipaddr = a,
                                 !.sent = 0, !.lastconflict = FALSE]]

AcdStop(n, m) ==
  [n EXCEPT !.acd[m] = [@ EXCEPT !.state = "OFF", !.ipaddr = AddrAny,
                                 !.sent = 0, !.lastconflict = FALSE]]

(***************************************************************************)
(* AutoIP (autoip.c).                                                      *)
(***************************************************************************)
AutoipCreateAddr(n) == 100 + n.autoip.tried

AutoipStart(n) ==
  IF n.autoip.state # "OFF" THEN n
  ELSE LET ll == IF n.autoip.llipaddr \in LL THEN n.autoip.llipaddr
                 ELSE AutoipCreateAddr(n)
       IN  AcdStart([AcdAdd(n, "autoip") EXCEPT !.autoip.state = "CHECKING",
                                                !.autoip.llipaddr = ll],
                    "autoip", ll)

AutoipRestart(n) ==
  AutoipStart([n EXCEPT !.autoip.tried = (@ + 1) % LinkLocals])

\* Faulty: the address stays on the interface
AutoipStopKeeps(n) == [n EXCEPT !.autoip.state = "OFF"]

\* Setting the address to ANY tells no ACD client (see SetAddr).
AutoipStop(n) ==
  [n EXCEPT !.autoip.state = "OFF", !.addr = IF @ \in LL THEN AddrAny ELSE @]

AutoipDecline(n) == AutoipStop([n EXCEPT !.autoip.llipaddr = AddrAny])

(***************************************************************************)
(* netif_set_addr.  When a routable address takes the place of a           *)
(* link-local one, the ACD client of the latter goes passive.              *)
(***************************************************************************)
PutInPassiveMode(n, m) ==
  CASE n.acd[m].state \in Probing \cup {"RATE_LIMIT"} ->
         AutoipDecline(AcdStop(n, m))
    [] n.acd[m].state \in {"ANNOUNCING", "ONGOING"} ->
         [n EXCEPT !.acd[m].state = "PASSIVE_ONGOING"]
    [] OTHER -> n

SetAddr(n, a) ==
  LET passive == /\ n.addr \in LL /\ a \notin LL \cup {AddrAny}
                 /\ Listed(n, "autoip") /\ n.acd["autoip"].ipaddr = n.addr
  IN  [(IF passive THEN PutInPassiveMode(n, "autoip") ELSE n) EXCEPT !.addr = a]

AutoipBind(n) ==
  SetAddr([n EXCEPT !.autoip.state = "BOUND"], n.autoip.llipaddr)

(***************************************************************************)
(* DHCP: sending (dhcp.c).  A message other than a REQUEST, and the        *)
(* REQUEST of REBOOTING, takes a new transaction identifier on the first   *)
(* try, and with that no answer to an earlier message is accepted.         *)
(***************************************************************************)
SetState(n, state) ==
  IF n.dhcp.state = state THEN n
  ELSE [n EXCEPT !.dhcp.state = state, !.dhcp.tries = 0, !.dhcp.timeout = FALSE]

CreateMsg(n, type, a) ==
  LET new  == n.dhcp.tries = 0 /\ (type # "REQUEST" \/ n.dhcp.state = "REBOOTING")
      kept == IF new THEN {} ELSE n.wire
      msg  == [type |-> type, addr |-> a]
  IN  [n EXCEPT !.wire = IF n.link /\ type \in {"DISCOVER", "REQUEST"}
                         THEN kept \cup {msg} ELSE kept]

\* tries and request_timeout after a send
Retry(n) ==
  [n EXCEPT !.dhcp.tries = IF @ < MaxTries THEN @ + 1 ELSE @, !.dhcp.timeout = TRUE]

Request(n, state, type, a) ==
  Then(SetState(n, state), LAMBDA x : Retry(CreateMsg(x, type, a)))

Discover(n) ==
  LET coop == IF n.dhcp.tries >= CoopTries THEN AutoipStart(n) ELSE n
  IN  Then([coop EXCEPT !.dhcp.offered = AddrAny],
           LAMBDA x : Request(x, "SELECTING", "DISCOVER", AddrAny))

Select(n) == Request(n, "REQUESTING", "REQUEST", n.dhcp.offered)

Reboot(n) == Request(n, "REBOOTING", "REQUEST", n.dhcp.offered)

Renew(n) == Request(n, "RENEWING", "REQUEST", n.addr)

Rebind(n) == Request(n, "REBINDING", "REQUEST", n.addr)

Decline(n) == CreateMsg(SetState(n, "BACKING_OFF"), "DECLINE", n.dhcp.offered)

(***************************************************************************)
(* DHCP: binding, releasing, starting.                                     *)
(***************************************************************************)
Supplied(n) == n.dhcp.state \in {"BOUND", "RENEWING", "REBINDING"}

\* seconds offered, as coarse ticks: rounded, at least 1, at most 16 bits
SetTimeout(old, offered) ==
  LET ticks == (offered + CoarseSecs \div 2) \div CoarseSecs
  IN  CASE offered = Infinite -> old
        [] offered # Infinite /\ ticks = 0 -> 1
        [] offered # Infinite /\ ticks > 65535 -> 65535
        [] OTHER -> ticks

HandleAck(n, a, l) ==
  [n EXCEPT !.dhcp.offered = a,
            !.dhcp.lease = [t0 |-> l.t0,
                            t1 |-> IF l.t1 = NotGiven THEN l.t0 \div 2 ELSE l.t1,
                            t2 |-> IF l.t2 = NotGiven THEN (l.t0 * 7) \div 8 ELSE l.t2]]

Bind(n) ==
  LET o  == n.dhcp.lease
      d  == n.dhcp
      t2 == SetTimeout(d.t2, o.t2)
      b  == [d EXCEPT !.used = 0, !.t0 = SetTimeout(@, o.t0),
                      !.t1_renew = SetTimeout(@, o.t1), !.t2 = t2,
                      !.t2_rebind = IF o.t2 = Infinite THEN @ ELSE t2]
  IN  Then(SetState([n EXCEPT !.dhcp = b], "BOUND"), LAMBDA x : SetAddr(x, d.offered))

NoLease == [t0 |-> 0, t1 |-> 0, t2 |-> 0]

NewDhcp ==
  [state |-> "OFF", tries |-> 0, timeout |-> FALSE, offered |-> AddrAny,
   lease |-> NoLease, used |-> 0, t0 |-> 0, t1_renew |-> 0, t2 |-> 0,
   t2_rebind |-> 0]

NewAcd ==
  [state |-> "OFF", ipaddr |-> AddrAny, sent |-> 0, lastconflict |-> FALSE,
   conflicts |-> 0]

\* The pcb goes too, so no answer is received any more.
ReleaseAndStop(n) ==
  LET clean == [n EXCEPT !.dhcp = [@ EXCEPT !.offered = AddrAny, !.lease = NoLease,
                                            !.t1_renew = 0, !.t2_rebind = 0,
                                            !.used = 0, !.t0 = 0]]
      off   == [SetState(clean, "OFF") EXCEPT !.wire = {}]
      bare  == IF Supplied(n) THEN SetAddr(off, AddrAny) ELSE off
  IN  IF n.dhcp.state = "OFF" THEN n ELSE AcdRemove(bare, "dhcp")

\* The memset clears the list link inside dhcp->acd too: whatever stood behind
\* a client that is still listed is cut off.
Start(n) ==
  LET cut   == IF Listed(n, "dhcp")
               THEN SubSeq(n.acd_list, 1, AcdAt(n, "dhcp")) ELSE n.acd_list
      clear == [n EXCEPT !.dhcp = NewDhcp, !.acd["dhcp"] = NewAcd,
                         !.acd_list = cut, !.wire = {}]
      added == AcdAdd(clear, "dhcp")
  IN  IF n.link THEN Then(added, Discover) ELSE SetState(added, "INIT")

(***************************************************************************)
(* DHCP: what it is told by ACD, the server and the driver.                *)
(***************************************************************************)
Check(n) == AcdStart(SetState(n, "CHECKING"), "dhcp", n.dhcp.offered)

HandleNak(n) == Then(SetAddr(SetState(n, "BACKING_OFF"), AddrAny), Discover)

Conflict(n, m, event) ==
  CASE event = "IP_OK"   -> IF m = "dhcp" THEN Bind(n) ELSE AutoipBind(n)
    [] event = "RESTART" -> IF m = "dhcp"
                            THEN [SetState(n, "BACKING_OFF") EXCEPT !.dhcp.timeout = TRUE]
                            ELSE AutoipRestart(n)
    [] event = "DECLINE" -> IF m = "dhcp" THEN Then(SetAddr(n, AddrAny), Decline)
                            ELSE AutoipDecline(n)

NetworkChangedLinkUp(n) ==
  LET first == [n EXCEPT !.dhcp.tries = 0]
  IN  CASE Supplied(n) \/ n.dhcp.state = "REBOOTING" -> Then(first, Reboot)
        [] n.dhcp.state = "OFF" -> n
        [] OTHER -> Then(first, Discover)

(***************************************************************************)
(* DHCP: its timers.                                                       *)
(***************************************************************************)
\* DHCP_NEXT_TIMEOUT_THRESHOLD
NextThreshold == (60 + CoarseSecs \div 2) \div CoarseSecs

T1Timeout(n) ==
  LET next == (n.dhcp.t2 - n.dhcp.used) \div 2
  IN  IF n.dhcp.state \in {"REQUESTING", "BOUND", "RENEWING"}
      THEN [Renew(n) EXCEPT !.dhcp.t1_renew = IF next >= NextThreshold THEN next ELSE @]
      ELSE n

T2Timeout(n) ==
  LET next == (n.dhcp.t0 - n.dhcp.used) \div 2
  IN  IF n.dhcp.state \in {"REQUESTING", "BOUND", "RENEWING", "REBINDING"}
      THEN [Rebind(n) EXCEPT !.dhcp.t2_rebind = IF next >= NextThreshold THEN next ELSE @]
      ELSE n

Decremented(t) == IF t > 0 THEN t - 1 ELSE 0

CoarseTick(n) ==
  LET d     == n.dhcp
      used  == IF d.t0 > 0 THEN d.used + 1 ELSE d.used
      aged  == [n EXCEPT !.dhcp.used = used]
      after == [aged EXCEPT !.dhcp.t2_rebind = Decremented(@)]
      last  == [after EXCEPT !.dhcp.t1_renew = Decremented(@)]
  IN  CASE d.t0 > 0 /\ used = d.t0 -> Then(ReleaseAndStop(aged), Start)
        [] OTHER ->
             IF d.t2_rebind = 1 THEN Then(after, T2Timeout)
             ELSE IF d.t1_renew = 1 THEN Then(last, T1Timeout) ELSE last

\* Faulty: an unanswered DISCOVER is not repeated
TimeoutSilent(n) ==
  CASE n.dhcp.state = "SELECTING" -> [n EXCEPT !.dhcp.timeout = TRUE]
    [] n.dhcp.state = "BACKING_OFF" -> Discover(n)
    [] n.dhcp.state = "REQUESTING" ->
         IF n.dhcp.tries <= RequestTries THEN Select(n) ELSE Then(ReleaseAndStop(n), Start)
    [] n.dhcp.state = "REBOOTING" ->
         IF n.dhcp.tries < RebootTries THEN Reboot(n) ELSE Discover(n)
    [] OTHER -> n

Timeout(n) ==
  CASE n.dhcp.state \in {"BACKING_OFF", "SELECTING"} -> Discover(n)
    [] n.dhcp.state = "REQUESTING" ->
         IF n.dhcp.tries <= RequestTries THEN Select(n) ELSE Then(ReleaseAndStop(n), Start)
    [] n.dhcp.state = "REBOOTING" ->
         IF n.dhcp.tries < RebootTries THEN Reboot(n) ELSE Discover(n)
    [] OTHER -> n

(***************************************************************************)
(* ACD: its timer, and an ARP packet from another host about its address.  *)
(***************************************************************************)
AcdTick(n, m) ==
  LET c    == n.acd[m]
      sent == c.sent + 1
      To(state, k) == [n EXCEPT !.acd[m].state = state, !.acd[m].sent = k]
  IN  CASE c.state \in {"PROBE_WAIT", "PROBING"} ->
             IF sent >= ProbeNum THEN To("ANNOUNCE_WAIT", 0) ELSE To("PROBING", sent)
        [] c.state \in {"ANNOUNCE_WAIT", "ANNOUNCING"} ->
             LET fresh(x) == IF c.sent = 0 THEN [x EXCEPT !.acd[m].conflicts = 0] ELSE x
             IN  IF sent >= AnnounceNum
                 THEN Then(fresh(To("ONGOING", 0)), LAMBDA x : Conflict(x, m, "IP_OK"))
                 ELSE fresh(To("ANNOUNCING", sent))
        [] c.state = "RATE_LIMIT" -> Conflict(AcdStop(n, m), m, "RESTART")

\* Faulty: the client is not told to start over
AcdRestartQuiet(n, m) ==
  LET told == Conflict([n EXCEPT !.acd[m].conflicts = @ + 1], m, "DECLINE")
  IN  IF told.acd[m].conflicts >= MaxConflicts
      THEN [told EXCEPT !.acd[m].state = "RATE_LIMIT"] ELSE AcdStop(told, m)

AcdRestart(n, m) ==
  LET told == Conflict([n EXCEPT !.acd[m].conflicts = @ + 1], m, "DECLINE")
  IN  IF told.acd[m].conflicts >= MaxConflicts
      THEN [told EXCEPT !.acd[m].state = "RATE_LIMIT"]
      ELSE Then(AcdStop(told, m), LAMBDA x : Conflict(x, m, "RESTART"))

HandleArpConflict(n, m) ==
  CASE n.acd[m].state = "PASSIVE_ONGOING" -> Conflict(AcdStop(n, m), m, "DECLINE")
    [] n.acd[m].lastconflict -> AcdRestart(n, m)
    [] OTHER -> [n EXCEPT !.acd[m].lastconflict = TRUE]

ArpReply(n, m, probe) ==
  CASE n.acd[m].state \in Probing -> AcdRestart(n, m)
    [] n.acd[m].state \in {"ANNOUNCING", "ONGOING", "PASSIVE_ONGOING"} /\ ~probe ->
         HandleArpConflict(n, m)
    [] OTHER -> n

(***************************************************************************)
(* Steps.                                                                  *)
(***************************************************************************)
Init ==
  /\ netif \in [link : BOOLEAN, addr : {AddrAny}, dhcp : {NewDhcp},
                acd : [{"dhcp", "autoip"} -> {NewAcd}], acd_list : {<<>>},
                autoip : {[state |-> "OFF", llipaddr |-> AddrAny, tried |-> 0]},
                wire : {{}}]
  /\ faults = 0

Quiet(n) == UNCHANGED faults /\ \E m \in {n} : netif' = m

Faulty(n) == faults < MaxFaults /\ faults' = faults + 1 /\ \E m \in {n} : netif' = m

DhcpStart == netif.dhcp.state = "OFF" /\ Quiet(Start(netif))

DhcpRestart == netif.dhcp.state # "OFF" /\ Faulty(Start(netif))

DhcpStop == netif.dhcp.state # "OFF" /\ Faulty(ReleaseAndStop(netif))

SetLinkUp ==
  /\ ~netif.link
  /\ Quiet(NetworkChangedLinkUp([netif EXCEPT !.link = TRUE]))

\* Faulty: ACD goes on without a link
SetLinkDownKeepsAcd ==
  LET off == [netif EXCEPT !.link = FALSE]
  IN  /\ netif.link
      /\ Faulty(IF off.autoip.state # "OFF" THEN AutoipStop(off) ELSE off)

\* AutoIP works together with DHCP here, so it stops with the link.
SetLinkDown ==
  LET off  == [netif EXCEPT !.link = FALSE]
      auto == IF off.autoip.state # "OFF" THEN AutoipStop(off) ELSE off
      Stop(n, m) == IF Listed(n, m) THEN AcdStop(n, m) ELSE n
  IN  /\ netif.link
      /\ Faulty(Stop(Stop(auto, "autoip"), "dhcp"))

FineTmr ==
  /\ netif.dhcp.timeout
  /\ Quiet(Timeout([netif EXCEPT !.dhcp.timeout = FALSE]))

CoarseTmr ==
  /\ netif.dhcp.state # "OFF"
  /\ Quiet(CoarseTick(netif))

AcdTmr(m) ==
  /\ Listed(netif, m)
  /\ netif.acd[m].state \in Probing \cup {"ANNOUNCING", "RATE_LIMIT"}
  /\ Quiet(AcdTick(netif, m))

\* DEFEND_INTERVAL is over
AcdDefended(m) ==
  /\ Listed(netif, m) /\ netif.acd[m].lastconflict
  /\ Quiet([netif EXCEPT !.acd[m].lastconflict = FALSE])

ArpConflict(m, probe) ==
  /\ netif.link /\ Listed(netif, m)
  /\ ArpReply(netif, m, probe) # netif
  /\ Faulty(ArpReply(netif, m, probe))

RecvOffer(a) ==
  /\ netif.link /\ netif.dhcp.state = "SELECTING"
  /\ [type |-> "DISCOVER", addr |-> AddrAny] \in netif.wire
  /\ Quiet(Select([netif EXCEPT !.dhcp.timeout = FALSE, !.dhcp.offered = a]))

RecvAck(a, lease) ==
  LET got == HandleAck(netif, a, lease)
  IN  /\ netif.link
      /\ [type |-> "REQUEST", addr |-> a] \in netif.wire
      /\ \/ netif.dhcp.state \in {"REQUESTING", "REBOOTING"} /\ Quiet(Check(got))
         \/ netif.dhcp.state \in {"REBINDING", "RENEWING"} /\ Quiet(Bind(got))

RecvNak ==
  /\ netif.link
  /\ \E msg \in netif.wire : msg.type = "REQUEST"
  /\ netif.dhcp.state \in {"REBOOTING", "REQUESTING", "REBINDING", "RENEWING"}
  /\ Faulty(HandleNak(netif))

\* The network loses a message, or the last answer to it.
Lose(msg) == Quiet([netif EXCEPT !.wire = @ \ {msg}])

Answered == (\E a \in Pool : RecvOffer(a)) \/ (\E a \in Pool, l \in Leases : RecvAck(a, l))

Next ==
  \/ DhcpStart \/ DhcpRestart \/ DhcpStop
  \/ SetLinkUp \/ SetLinkDown
  \/ FineTmr \/ CoarseTmr
  \/ \E m \in {"dhcp", "autoip"} : AcdTmr(m) \/ AcdDefended(m)
  \/ \E m \in {"dhcp", "autoip"}, probe \in BOOLEAN : ArpConflict(m, probe)
  \/ Answered \/ RecvNak
  \/ \E msg \in netif.wire : Lose(msg)

Spec == Init /\ [][Next]_vars

\* The timers run (sys_check_timeouts).
TimersSpec ==
  /\ Spec
  /\ WF_vars(FineTmr \/ AcdTmr("dhcp")) /\ WF_vars(CoarseTmr)
  /\ WF_vars(AcdTmr("autoip"))

\* Besides, of the messages the client keeps sending some get an answer.
FairSpec ==
  /\ Spec
  /\ WF_vars(FineTmr \/ AcdTmr("dhcp")) /\ WF_vars(CoarseTmr)
  /\ SF_vars(\E a \in Pool : RecvOffer(a))
  /\ SF_vars(\E a \in Pool, l \in Leases : RecvAck(a, l))

(***************************************************************************)
(* Properties.                                                             *)
(***************************************************************************)

\* The types of the fields.
TypeOK ==
  /\ netif.addr \in {AddrAny} \cup Pool \cup LL
  /\ netif.dhcp.state \in {"OFF", "INIT", "SELECTING", "REQUESTING", "REBOOTING", "CHECKING",
                           "BOUND", "RENEWING", "REBINDING", "BACKING_OFF"}
  /\ netif.dhcp.tries \in 0 .. MaxTries
  /\ netif.dhcp.offered \in {AddrAny} \cup Pool
  /\ netif.autoip.state \in {"OFF", "CHECKING", "BOUND"}
  /\ netif.autoip.llipaddr \in {AddrAny} \cup LL
  /\ \A i, j \in 1 .. Len(netif.acd_list) : i # j => netif.acd_list[i] # netif.acd_list[j]

Running(m) ==
  Listed(netif, m) /\ netif.acd[m].state \in Probing \cup {"ANNOUNCING", "RATE_LIMIT"}

\* While the link is up the DHCP client never waits for something that is not
\* going to happen: it probes only with its ACD client running on the offered
\* address, it backs off only with a timer set or a rate limit running, and in
\* every other state before BOUND the request timer is set.
NeverWedged ==
  netif.link =>
    CASE netif.dhcp.state \in {"SELECTING", "REQUESTING", "REBOOTING"} -> netif.dhcp.timeout
      [] netif.dhcp.state = "CHECKING" ->
           /\ Running("dhcp") /\ netif.acd["dhcp"].ipaddr = netif.dhcp.offered
           /\ netif.acd["dhcp"].state # "RATE_LIMIT"
      [] netif.dhcp.state = "BACKING_OFF" -> netif.dhcp.timeout \/ Running("dhcp")
      [] OTHER -> netif.dhcp.state # "INIT"

\* ACD only ever tells the client to bind while the client is checking the
\* address that was probed.
ProbesForCheck ==
  /\ Listed(netif, "dhcp")
  /\ netif.acd["dhcp"].state \in Probing \cup {"ANNOUNCING"}
  => netif.dhcp.state = "CHECKING" /\ netif.acd["dhcp"].ipaddr = netif.dhcp.offered

\* A link-local address is on the interface only while AutoIP holds it.
LinkLocalHeld ==
  netif.addr \in LL => netif.autoip.state = "BOUND" /\ netif.autoip.llipaddr = netif.addr

\* With the link up and a server that answers, the client keeps getting bound.
Acquires ==
  []<>(netif.dhcp.state \in {"BOUND", "OFF"} \/ ~netif.link)

\* opt.h: after LWIP_DHCP_AUTOIP_COOP_TRIES unanswered DISCOVERs the client falls
\* back on AutoIP.  So a client that keeps looking for a server in vain ends up
\* with an address.
FallsBack ==
  <>[](netif.link /\ netif.dhcp.state = "SELECTING") => <>[](netif.addr # AddrAny)
=============================================================================
