--------------------------------- MODULE Net ----------------------------------
(***************************************************************************)
(* The input side of kernel/net.c below TCP: net_init with its ARP         *)
(* requests, net_handle_ip with the reassembly of fragments, and           *)
(* net_dns_lookup.  As in Http, whatever has been sent may arrive at any   *)
(* moment, any number of times and in any order, or never.                 *)
(*                                                                         *)
(* A datagram is a sequence of units, the pieces in which it may be cut.   *)
(* A unit of a DNS answer names the query it answers and its place; the    *)
(* code knows a query by dns_txid, of which the tick counter makes a new   *)
(* one for each attempt.                                                   *)
(***************************************************************************)
EXTENDS Integers, Sequences

CONSTANTS
  Hosts,          \* names to look up
  MaxLookups,     \* a bound on the look-ups
  Answers,        \* the units in which an answer may come, a set of lengths
  TcpDatagrams,   \* TCP datagrams on their way to this host: [id, data]
  Ids,            \* identifications the DNS server may use
  Cap,            \* units each reassembly buffer holds, by protocol
  ArpTries        \* 10: ARP requests of one net_init

Protocols == {"TCP", "UDP"}
Attempts  == 2
Queries   == 1 .. Attempts * MaxLookups

TcpUnits  == UNION {{d.data[i] : i \in DOMAIN d.data} : d \in TcpDatagrams}
Units(q)  == IF q = "TCP" THEN TcpUnits ELSE Queries \X Nat

ASSUME NetAssumption ==
  /\ MaxLookups \in Nat /\ Answers \subseteq Nat \ {0} /\ ArpTries \in Nat \ {0}
  /\ Cap \in [Protocols -> Nat \ {0}]
  /\ TcpDatagrams \subseteq [id : Nat, data : Seq(TcpUnits)] /\ Ids \subseteq Nat
  /\ \A d, e \in TcpDatagrams : d.id = e.id => d = e

VARIABLES
  pc,             \* "down", "arp" (in net_init), "idle", "dns" (in net_dns_lookup)
  tries,          \* net_init: requests made
  gw_mac_ok, s_net_ok,
  rasm,           \* ip_tcp_rasm and ip_udp_rasm; no data: length 0
  host, attempt,  \* net_dns_lookup: its argument and its loop counter
  asked,          \* the host of each query made; the last one is dns_txid
  answers,        \* what the server has sent: [query, id, size, positive]
  dns_rx_armed, dns_pkt,   \* the packet that set dns_done, or none
  found,          \* the query whose address the last look-up returned, 0 if it failed
  handed          \* ghost: the datagram that the last step handed to TCP or UDP

init    == <<tries, gw_mac_ok, s_net_ok>>
lookup  == <<host, attempt, asked, dns_rx_armed, dns_pkt, found>>
vars    == <<pc, init, rasm, answers, lookup, handed>>

None     == [proto |-> "none", data |-> <<>>]
Quiet    == handed' = None
Empty    == [id |-> 0, data |-> <<>>]
dns_txid == Len(asked)

----------------------------------------------------------------------------
(* What is under way: fragments of datagrams, or datagrams in one piece.   *)

Answer(a) == [id |-> a.id, data |-> [i \in 1 .. a.size |-> <<a.query, i>>]]

Fragments(proto, d) ==
  {[proto |-> proto, id |-> d.id, off |-> t[1], mf |-> t[2] < Len(d.data),
    data |-> SubSeq(d.data, t[1] + 1, t[2])] :
     t \in {u \in (0 .. Len(d.data) - 1) \X (1 .. Len(d.data)) : u[1] < u[2]}}

Datagrams(proto) == IF proto = "TCP" THEN TcpDatagrams ELSE {Answer(a) : a \in answers}

Arriving == UNION {UNION {Fragments(proto, d) : d \in Datagrams(proto)} : proto \in Protocols}

\* The DNS server answers a query, with an address or without.
Reply(q, id, size, positive) ==
  /\ q \in DOMAIN asked
  /\ \A a \in answers : a.id # id /\ a.query # q
  /\ answers' = answers \cup {[query |-> q, id |-> id, size |-> size, positive |-> positive]}
  /\ UNCHANGED <<pc, init, rasm, lookup>> /\ Quiet

----------------------------------------------------------------------------
(* net_handle_ip, called by spin_rx while anything waits.                  *)

(* The loops of net_http_get, between two look-ups, poll as well.          *)
Polling == pc \in {"arp", "dns"} \/ s_net_ok

\* Bug: any answer will do.
HandUdpAnyId(data) ==
  dns_pkt' = IF dns_rx_armed /\ dns_pkt = <<>> THEN data ELSE dns_pkt

(* net_handle_udp takes the first answer to the last query.  A positive    *)
(* answer has a unit of its own for the address, the last one.             *)
HandUdp(data) ==
  dns_pkt' = IF dns_rx_armed /\ dns_pkt = <<>> /\ data[1][1] = dns_txid THEN data ELSE dns_pkt

\* net_handle_tcp does nothing while no connection is open.
Hand(proto, data) ==
  /\ handed' = [proto |-> proto, data |-> data]
  /\ IF proto = "UDP" THEN HandUdp(data) ELSE UNCHANGED dns_pkt

KeepLookup == UNCHANGED <<pc, init, host, attempt, asked, dns_rx_armed, found, answers>>

WholePacket(p) ==
  /\ p.off = 0 /\ ~p.mf /\ Hand(p.proto, p.data)
  /\ KeepLookup /\ UNCHANGED rasm

\* A first fragment takes the buffer of its protocol and clears the other.
FirstFragment(p) ==
  /\ p.off = 0 /\ p.mf /\ Len(p.data) <= Cap[p.proto]
  /\ rasm' = [q \in Protocols |-> IF q = p.proto THEN [id |-> p.id, data |-> p.data] ELSE Empty]
  /\ KeepLookup /\ Quiet /\ UNCHANGED dns_pkt

\* Bug: the end of the buffer is not looked at.
ExpectedAnySize(p) ==
  /\ rasm[p.proto].data # <<>> /\ rasm[p.proto].id = p.id
  /\ p.off = Len(rasm[p.proto].data)

\* Bug: a fragment is appended wherever it belongs.
ExpectedAnywhere(p) ==
  /\ rasm[p.proto].data # <<>> /\ rasm[p.proto].id = p.id
  /\ Len(rasm[p.proto].data) + Len(p.data) <= Cap[p.proto]

Expected(p) ==
  /\ rasm[p.proto].data # <<>> /\ rasm[p.proto].id = p.id
  /\ p.off = Len(rasm[p.proto].data) /\ p.off + Len(p.data) <= Cap[p.proto]

NextFragment(p) ==
  /\ p.off # 0 /\ Expected(p)
  /\ LET data == rasm[p.proto].data \o p.data IN
       IF p.mf THEN rasm' = [rasm EXCEPT ![p.proto].data = data] /\ Quiet /\ UNCHANGED dns_pkt
               ELSE rasm' = [rasm EXCEPT ![p.proto] = Empty] /\ Hand(p.proto, data)
  /\ KeepLookup

\* A foreign fragment ends what UDP puts together, but not what TCP does.
WrongFragment(p) ==
  /\ p.off # 0 /\ ~Expected(p) /\ rasm[p.proto].data # <<>>
  /\ (p.proto = "UDP" \/ p.id = rasm[p.proto].id)
  /\ rasm' = [rasm EXCEPT ![p.proto] = Empty]
  /\ KeepLookup /\ Quiet /\ UNCHANGED dns_pkt

\* Neither TCP nor UDP, and in pieces.
OtherFragment ==
  /\ Polling /\ rasm' = [q \in Protocols |-> Empty]
  /\ KeepLookup /\ Quiet /\ UNCHANGED dns_pkt

net_handle_ip(p) ==
  Polling /\ (WholePacket(p) \/ FirstFragment(p) \/ NextFragment(p) \/ WrongFragment(p))

----------------------------------------------------------------------------
(* net_init.  The Browser calls it again as long as it has failed.         *)

StartInit ==
  /\ pc \in {"down", "idle"} /\ ~s_net_ok /\ pc' = "arp"
  /\ tries' = 1 /\ gw_mac_ok' = FALSE /\ s_net_ok' = FALSE
  /\ rasm' = [q \in Protocols |-> Empty] /\ dns_rx_armed' = FALSE /\ dns_pkt' = <<>>
  /\ UNCHANGED <<host, attempt, asked, found, answers>> /\ Quiet

ArpReply ==
  /\ Polling /\ gw_mac_ok' = TRUE
  /\ UNCHANGED <<pc, tries, s_net_ok, rasm, answers, lookup>> /\ Quiet

ArpAgain ==
  /\ pc = "arp" /\ ~gw_mac_ok /\ tries < ArpTries /\ tries' = tries + 1
  /\ UNCHANGED <<pc, gw_mac_ok, s_net_ok, rasm, answers, lookup>> /\ Quiet

EndInit ==
  /\ pc = "arp" /\ (gw_mac_ok \/ tries = ArpTries)
  /\ pc' = "idle" /\ s_net_ok' = gw_mac_ok
  /\ UNCHANGED <<tries, gw_mac_ok, rasm, answers, lookup>> /\ Quiet

----------------------------------------------------------------------------
(* net_dns_lookup, called by net_http_get, which clears both buffers.      *)

Ask(h) == asked' = Append(asked, h) /\ dns_rx_armed' = TRUE /\ dns_pkt' = <<>>

Lookup(h) ==
  /\ pc = "idle" /\ s_net_ok /\ Len(asked) + Attempts \in Queries
  /\ pc' = "dns" /\ host' = h /\ attempt' = 1 /\ Ask(h)
  /\ rasm' = [q \in Protocols |-> Empty]
  /\ UNCHANGED <<init, found, answers>> /\ Quiet

Positive(pkt) == pkt # <<>> /\ \E a \in answers : a.query = pkt[Len(pkt)][1] /\ a.positive

\* The loop over answer records finds an address.
Found ==
  /\ pc = "dns" /\ Positive(dns_pkt)
  /\ pc' = "idle" /\ dns_rx_armed' = FALSE /\ found' = dns_pkt[Len(dns_pkt)][1]
  /\ UNCHANGED <<init, rasm, host, attempt, asked, dns_pkt, answers>> /\ Quiet

\* Both waits, of 8000 and 4000 ticks, are over, or the answer has no address.
Fails ==
  /\ pc = "dns" /\ ~Positive(dns_pkt)
  /\ IF attempt < Attempts
       THEN /\ attempt' = attempt + 1 /\ Ask(host) /\ rasm' = [rasm EXCEPT !["UDP"] = Empty]
            /\ UNCHANGED <<pc, found>>
       ELSE /\ pc' = "idle" /\ dns_rx_armed' = FALSE /\ found' = 0
            /\ UNCHANGED <<rasm, attempt, asked, dns_pkt>>
  /\ UNCHANGED <<init, host, answers>> /\ Quiet

Init ==
  /\ pc = "down" /\ tries = 0 /\ gw_mac_ok = FALSE /\ s_net_ok = FALSE
  /\ rasm = [q \in Protocols |-> Empty]
  /\ host \in Hosts /\ attempt = 1 /\ asked = <<>> /\ answers = {}
  /\ dns_rx_armed = FALSE /\ dns_pkt = <<>> /\ found = 0
  /\ handed = None

Next ==
  \/ StartInit \/ ArpReply \/ ArpAgain \/ EndInit \/ Found \/ Fails \/ OtherFragment
  \/ \E h \in Hosts : Lookup(h)
  \/ \E p \in Arriving : net_handle_ip(p)
  \/ \E q \in Queries, id \in Ids, size \in Answers, positive \in BOOLEAN :
       Reply(q, id, size, positive)

Spec == Init /\ [][Next]_vars

----------------------------------------------------------------------------
Numbers == 0 .. Attempts * MaxLookups

TypeOK ==
  /\ pc \in {"down", "arp", "idle", "dns"} /\ tries \in 0 .. ArpTries
  /\ gw_mac_ok \in BOOLEAN /\ s_net_ok \in BOOLEAN /\ dns_rx_armed \in BOOLEAN
  /\ DOMAIN rasm = Protocols
  /\ \A q \in Protocols : rasm[q] \in [id : Nat, data : Seq(Units(q))] /\ Len(rasm[q].data) <= Cap[q]
  /\ host \in Hosts /\ attempt \in 1 .. Attempts /\ asked \in Seq(Hosts) /\ dns_txid \in Numbers
  /\ answers \subseteq [query : Queries, id : Ids, size : Answers, positive : BOOLEAN]
  /\ dns_pkt \in Seq(Queries \X Nat) /\ found \in Numbers

(* What is handed to TCP or UDP is one datagram as its sender made it,     *)
(* never a mixture or a part, in whatever order the fragments come: the    *)
(* buffers have no list of holes, only "next or give up".                  *)
WholeDatagrams ==
  handed # None => \E d \in Datagrams(handed.proto) : d.data = handed.data

(* A look-up returns the address of the name it was asked for: neither a   *)
(* late answer to its first attempt or to another look-up, nor a leftover  *)
(* in dns_pkt or in the reassembly buffer, is taken for the answer.        *)
AnswerIsForHost ==
  found # 0 /\ pc = "idle" => asked[found] = host /\ \E a \in answers : a.query = found /\ a.positive
=============================================================================
