---------------------------- MODULE PartsProofs ----------------------------
(***************************************************************************)
(* Proofs about parts that share nothing with the others (MCParts): the    *)
(* network's input, the disk driver, Pong, the puzzle, the browser's page, *)
(* the network card, a body in chunks and the calculator.  The network's   *)
(* theorems are about its own specification, Spec of Net.  A step of the   *)
(* parts is a step of one of them or leaves it alone (AtaStep, PongSteps,  *)
(* PuzzleSteps, PageSteps, CardSteps, BodySteps, CalcKeys), so an          *)
(* invariant of a part is one of the whole.                                *)
(***************************************************************************)
EXTENDS MCParts, SequenceTheorems, FiniteSetTheorems, WellFoundedInduction, TLAPS

(***************************************************************************)
(* The network's input: the reassembly of fragments and the look-ups.      *)
(***************************************************************************)
(* Answers with one identification are one answer.                         *)
UniqueIds == \A a, b \in answers : a.id = b.id => a = b

(* What a buffer holds is the beginning of the datagram of that            *)
(* identification.                                                         *)
BeginningOf(data, d) == Len(data) <= Len(d.data) /\ data = SubSeq(d.data, 1, Len(data))

Reassembling ==
  \A q \in Protocols : rasm[q].data # <<>> =>
    \E d \in Datagrams(q) : d.id = rasm[q].id /\ BeginningOf(rasm[q].data, d)

(* There are query numbers left for the attempts still to come.            *)
NumbersLeft == pc = "dns" => dns_txid + Attempts - attempt \in Numbers

NetInv == TypeOK /\ NumbersLeft /\ UniqueIds /\ Reassembling /\ WholeDatagrams

\* Datagrams have an identification, and units of their protocol.
LEMMA DatagramType ==
  ASSUME TypeOK, NEW q \in Protocols, NEW d \in Datagrams(q)
  PROVE  d.id \in Nat /\ d.data \in Seq(Units(q))
<1>1. CASE q = "TCP"
  BY <1>1, NetAssumption DEF Datagrams, Units
<1>2. CASE q # "TCP"
  <2>1. PICK a \in answers : d = Answer(a)
    BY <1>2 DEF Datagrams
  <2>2. a.query \in Queries /\ a.id \in Nat /\ a.size \in Nat
    BY NetAssumption DEF TypeOK
  <2>3. \A i \in 1 .. a.size : <<a.query, i>> \in Queries \X Nat
    BY <2>2
  <2>4. [i \in 1 .. a.size |-> <<a.query, i>>] \in Seq(Queries \X Nat)
    BY <2>2, <2>3
  <2> QED
    BY <1>2, <2>1, <2>2, <2>4 DEF Answer, Units
<1> QED
  BY <1>1, <1>2

\* A protocol has one datagram of an identification.
LEMMA OneDatagram ==
  ASSUME TypeOK, UniqueIds, NEW q \in Protocols, NEW d \in Datagrams(q), NEW e \in Datagrams(q),
         d.id = e.id
  PROVE  d = e
<1>1. CASE q = "TCP"
  BY <1>1, NetAssumption DEF Datagrams
<1>2. CASE q # "TCP"
  <2>1. PICK a \in answers, b \in answers : d = Answer(a) /\ e = Answer(b)
    BY <1>2 DEF Datagrams
  <2>2. a.id = b.id
    BY <2>1 DEF Answer
  <2> QED
    BY <2>1, <2>2 DEF UniqueIds
<1> QED
  BY <1>1, <1>2

\* What a fragment is a fragment of.
LEMMA FragmentOf ==
  ASSUME TypeOK, NEW p \in Arriving
  PROVE  /\ p.proto \in Protocols
         /\ \E d \in Datagrams(p.proto) :
              /\ p.id = d.id /\ p.id \in Nat
              /\ p.off \in 0 .. Len(d.data) - 1 /\ p.mf \in BOOLEAN
              /\ p.data \in Seq(Units(p.proto)) /\ Len(p.data) \in Nat /\ p.data # <<>>
              /\ p.off + Len(p.data) <= Len(d.data)
              /\ p.data = SubSeq(d.data, p.off + 1, p.off + Len(p.data))
              /\ ~p.mf => p.off + Len(p.data) = Len(d.data)
<1>0. PICK q \in Protocols : \E e \in Datagrams(q) : p \in Fragments(q, e)
  BY DEF Arriving
<1>1. PICK d \in Datagrams(q) : p \in Fragments(q, d)
  BY <1>0
<1>2. PICK i \in 0 .. Len(d.data) - 1, j \in 1 .. Len(d.data) :
        i < j /\ p = [proto |-> q, id |-> d.id, off |-> i, mf |-> j < Len(d.data),
                      data |-> SubSeq(d.data, i + 1, j)]
  BY <1>1 DEF Fragments
<1>3. d.id \in Nat /\ d.data \in Seq(Units(q))
  BY DatagramType
<1>4. Len(d.data) \in Nat
  BY <1>3
<1>5. \A k \in i + 1 .. j : d.data[k] \in Units(q)
  BY <1>2, <1>3, <1>4
<1>6. SubSeq(d.data, i + 1, j) \in Seq(Units(q)) /\ Len(SubSeq(d.data, i + 1, j)) = j - i
  BY <1>2, <1>4, <1>5, SubSeqProperties
<1>7. p.off = i /\ Len(p.data) = j - i /\ p.off + Len(p.data) = j
  BY <1>2, <1>4, <1>6
<1>8. p.data # <<>>
  <2>1. Len(p.data) # 0 /\ p.data \in Seq(Units(q))
    BY <1>2, <1>4, <1>6, <1>7
  <2> QED
    BY <2>1, EmptySeq
<1>9. /\ p.proto = q /\ p.id = d.id /\ p.id \in Nat /\ p.off \in 0 .. Len(d.data) - 1 /\ p.mf \in BOOLEAN
      /\ p.data = SubSeq(d.data, p.off + 1, p.off + Len(p.data)) /\ (~p.mf => p.off + Len(p.data) = Len(d.data))
  <2>1. p.proto = q /\ p.id = d.id /\ p.mf = (j < Len(d.data)) /\ p.data = SubSeq(d.data, i + 1, j)
    BY <1>2
  <2>3. ~(j < Len(d.data)) => j = Len(d.data)
    BY <1>2, <1>4
  <2>4. (j < Len(d.data)) \in BOOLEAN
    OBVIOUS
  <2>2. p.mf \in BOOLEAN /\ (~p.mf => j = Len(d.data))
    BY <2>1, <2>3, <2>4, Zenon
  <2> QED
    BY <1>2, <1>3, <1>4, <1>7, <2>1, <2>2
<1>10. p.data \in Seq(Units(q)) /\ Len(p.data) \in Nat /\ p.off + Len(p.data) <= Len(d.data)
  BY <1>2, <1>4, <1>6, <1>7
<1> QED
  BY <1>8, <1>9, <1>10

\* A fragment that is expected makes the beginning longer, or whole.
LEMMA Appended ==
  ASSUME TypeOK, UniqueIds, Reassembling, NEW p \in Arriving, Expected(p)
  PROVE  LET data == rasm[p.proto].data \o p.data IN
         /\ data \in Seq(Units(p.proto)) /\ data # <<>> /\ Len(data) <= Cap[p.proto]
         /\ \E d \in Datagrams(p.proto) :
              d.id = rasm[p.proto].id /\ BeginningOf(data, d) /\ (~p.mf => data = d.data)
<1> DEFINE q == p.proto  old == rasm[q].data  data == old \o p.data
<1>1. PICK d \in Datagrams(q) :
        /\ p.id = d.id
        /\ p.off \in 0 .. Len(d.data) - 1 /\ p.mf \in BOOLEAN
        /\ p.data \in Seq(Units(q)) /\ p.data # <<>>
        /\ p.off + Len(p.data) <= Len(d.data)
        /\ p.data = SubSeq(d.data, p.off + 1, p.off + Len(p.data))
        /\ ~p.mf => p.off + Len(p.data) = Len(d.data)
  BY FragmentOf
<1>2. q \in Protocols /\ old \in Seq(Units(q)) /\ rasm[q].id = p.id /\ Len(old) = p.off /\ old # <<>>
      /\ p.off + Len(p.data) <= Cap[q]
  BY FragmentOf DEF Expected, TypeOK
<1>3. PICK e \in Datagrams(q) : e.id = rasm[q].id /\ BeginningOf(old, e)
  BY <1>2 DEF Reassembling
<1>4. e = d
  BY <1>1, <1>2, <1>3, OneDatagram
<1>5. d.data \in Seq(Units(q))
  BY <1>2, DatagramType
<1>6. Len(old) \in Nat /\ Len(p.data) \in Nat /\ Len(d.data) \in Nat
  BY <1>1, <1>2, <1>5
<1>7. data = SubSeq(d.data, 1, Len(old) + Len(p.data))
  <2>1. old = SubSeq(d.data, 1, Len(old)) /\ p.data = SubSeq(d.data, Len(old) + 1, Len(old) + Len(p.data))
    BY <1>1, <1>2, <1>3, <1>4 DEF BeginningOf
  <2>2. Len(old) \in 0 .. Len(d.data) /\ Len(old) + Len(p.data) \in Len(old) .. Len(d.data)
    BY <1>1, <1>2, <1>6
  <2>3. SubSeq(d.data, 1, Len(old)) \o SubSeq(d.data, Len(old) + 1, Len(old) + Len(p.data))
          = SubSeq(d.data, 1, Len(old) + Len(p.data))
    <3>1. 1 \in 1 .. Len(d.data) + 1 /\ Len(old) \in 1 - 1 .. Len(d.data)
      BY <1>6, <2>2
    <3> QED
      BY <1>5, <2>2, <3>1, ConcatAdjacentSubSeq
  <2> QED
    BY <2>1, <2>3
<1>8. data \in Seq(Units(q)) /\ Len(data) = Len(old) + Len(p.data) /\ data # <<>>
  <2>1. old \in Seq(Units(q)) /\ p.data \in Seq(Units(q))
    BY <1>1, <1>2
  <2> HIDE DEF old
  <2>2. old \o p.data \in Seq(Units(q)) /\ Len(old \o p.data) = Len(old) + Len(p.data)
    BY <2>1, ConcatProperties
  <2>3. Len(old) # 0
    BY <1>2, <2>1, EmptySeq
  <2>4. Len(data) # 0
    BY <1>6, <2>2, <2>3
  <2> QED
    BY <2>2, <2>4, EmptySeq
<1>9. BeginningOf(data, d)
  BY <1>1, <1>2, <1>6, <1>7, <1>8 DEF BeginningOf
<1>10. ~p.mf => data = d.data
  <2>1. SubSeq(d.data, 1, Len(d.data)) = d.data
    BY <1>5, SubSeqFull
  <2> QED
    BY <1>1, <1>2, <1>7, <2>1
<1> QED
  BY <1>1, <1>2, <1>8, <1>9, <1>10

----------------------------------------------------------------------------
LEMMA EmptyBuffer ==
  /\ Empty.data = <<>>
  /\ \A q \in Protocols : Empty \in [id : Nat, data : Seq(Units(q))] /\ Len(Empty.data) <= Cap[q]
BY NetAssumption, EmptySeq DEF Empty

LEMMA NetInit == Init => NetInv
<1> SUFFICES ASSUME Init PROVE NetInv
  OBVIOUS
<1>1. \A q \in Protocols : rasm[q] = Empty
  BY DEF Init
<1>2. TypeOK
  <2>1. \A q \in Protocols : rasm[q] \in [id : Nat, data : Seq(Units(q))] /\ Len(rasm[q].data) <= Cap[q]
    BY <1>1, EmptyBuffer
  <2>2. DOMAIN rasm = Protocols /\ pc = "down" /\ gw_mac_ok = FALSE /\ s_net_ok = FALSE /\ dns_rx_armed = FALSE
        /\ host \in Hosts /\ attempt = 1 /\ answers = {}
    BY DEF Init
  <2>3. asked \in Seq(Hosts) /\ dns_pkt \in Seq(Queries \X Nat) /\ Len(asked) = 0
    BY EmptySeq DEF Init
  <2>4. tries \in 0 .. ArpTries /\ found \in Numbers /\ dns_txid \in Numbers /\ attempt \in 1 .. Attempts
    BY <2>2, <2>3, NetAssumption DEF Init, Numbers, dns_txid, Attempts
  <2> QED
    BY <2>1, <2>2, <2>3, <2>4 DEF TypeOK
<1>3. NumbersLeft /\ UniqueIds /\ WholeDatagrams
  BY DEF Init, NumbersLeft, UniqueIds, WholeDatagrams
<1>4. Reassembling
  BY <1>1 DEF Reassembling, Empty
<1> QED
  BY <1>2, <1>3, <1>4 DEF NetInv

\* Clearing buffers and handing nothing over does no harm.
LEMMA Cleared ==
  ASSUME NetInv, answers' = answers, handed' = None, DOMAIN rasm' = Protocols,
         \A q \in Protocols : rasm'[q] \in {rasm[q], Empty}
  PROVE  /\ DOMAIN rasm' = Protocols
         /\ \A q \in Protocols : rasm'[q] \in [id : Nat, data : Seq(Units(q))] /\ Len(rasm'[q].data) <= Cap[q]
         /\ UniqueIds' /\ Reassembling' /\ WholeDatagrams'
<1>2. \A q \in Protocols : rasm'[q] \in [id : Nat, data : Seq(Units(q))] /\ Len(rasm'[q].data) <= Cap[q]
  BY EmptyBuffer DEF NetInv, TypeOK
<1>3. Reassembling'
  BY EmptyBuffer DEF NetInv, Reassembling, Datagrams, BeginningOf
<1> QED
  BY <1>2, <1>3 DEF NetInv, UniqueIds, WholeDatagrams

\* A step of net_handle_ip.
LEMMA HandlePreserves ==
  ASSUME NetInv, NEW p \in Arriving, net_handle_ip(p)
  PROVE  NetInv'
<1> DEFINE Rest == /\ pc' = pc /\ init' = init /\ host' = host /\ attempt' = attempt /\ asked' = asked
                   /\ dns_rx_armed' = dns_rx_armed /\ found' = found /\ answers' = answers
<1>1. Rest
  BY DEF net_handle_ip, WholePacket, FirstFragment, NextFragment, WrongFragment, KeepLookup
<1>2. UniqueIds' /\ \A q : Datagrams(q)' = Datagrams(q)
  BY <1>1 DEF NetInv, UniqueIds, Datagrams
<1>3. NumbersLeft'
  BY <1>1 DEF NetInv, NumbersLeft, dns_txid
<1>4. SUFFICES /\ DOMAIN rasm' = Protocols
               /\ \A q \in Protocols : rasm'[q] \in [id : Nat, data : Seq(Units(q))] /\ Len(rasm'[q].data) <= Cap[q]
               /\ dns_pkt' \in Seq(Queries \X Nat) /\ Reassembling' /\ WholeDatagrams'
  BY <1>1, <1>2, <1>3 DEF NetInv, TypeOK, init, dns_txid
<1>5. p.proto \in Protocols /\ TypeOK /\ UniqueIds /\ Reassembling
  BY FragmentOf DEF NetInv
<1>6. ASSUME NEW data \in Seq(Units(p.proto)), Hand(p.proto, data),
             \E d \in Datagrams(p.proto) : d.data = data
      PROVE  dns_pkt' \in Seq(Queries \X Nat) /\ WholeDatagrams'
  BY <1>2, <1>5, <1>6 DEF Hand, HandUdp, Units, Protocols, TypeOK, WholeDatagrams
<1>7. PICK d \in Datagrams(p.proto) :
         /\ p.id = d.id /\ p.id \in Nat
         /\ p.off \in 0 .. Len(d.data) - 1 /\ p.mf \in BOOLEAN
         /\ p.data \in Seq(Units(p.proto)) /\ Len(p.data) \in Nat
         /\ p.off + Len(p.data) <= Len(d.data)
         /\ p.data = SubSeq(d.data, p.off + 1, p.off + Len(p.data))
         /\ ~p.mf => p.off + Len(p.data) = Len(d.data)
  BY <1>5, FragmentOf
<1>8. CASE WholePacket(p)
  <2>0. p.off = 0 /\ ~p.mf
    BY <1>8 DEF WholePacket
  <2>1. p.data \in Seq(Units(p.proto)) /\ p.data = SubSeq(d.data, 1, Len(p.data)) /\ Len(p.data) = Len(d.data)
    BY <1>7, <2>0
  <2>2. d.data \in Seq(Units(p.proto))
    BY <1>5, DatagramType
  <2>3. p.data = d.data
    BY <2>1, <2>2, SubSeqFull
  <2>4. dns_pkt' \in Seq(Queries \X Nat) /\ WholeDatagrams'
    BY <1>6, <1>8, <2>1, <2>3 DEF WholePacket
  <2>5. rasm' = rasm
    BY <1>8 DEF WholePacket
  <2> QED
    BY <1>2, <1>5, <2>4, <2>5 DEF Reassembling, BeginningOf, TypeOK
<1>9. CASE FirstFragment(p)
  <2>0. p.off = 0
    BY <1>9 DEF FirstFragment
  <2>1. /\ p.id = d.id /\ p.id \in Nat /\ p.data \in Seq(Units(p.proto)) /\ Len(p.data) \in Nat
        /\ p.data = SubSeq(d.data, 1, Len(p.data)) /\ Len(p.data) <= Len(d.data)
    BY <1>7, <2>0
  <2>2. /\ rasm' = [q \in Protocols |-> IF q = p.proto THEN [id |-> p.id, data |-> p.data] ELSE Empty]
        /\ Len(p.data) <= Cap[p.proto] /\ handed' = None /\ dns_pkt' = dns_pkt
    BY <1>9 DEF FirstFragment, Quiet
  <2>4. \A q \in Protocols : rasm'[q] \in [id : Nat, data : Seq(Units(q))] /\ Len(rasm'[q].data) <= Cap[q]
    BY <2>1, <2>2, EmptyBuffer
  <2>5. Reassembling'
    BY <1>2, <2>1, <2>2 DEF Reassembling, BeginningOf, Empty
  <2> QED
    BY <1>5, <2>2, <2>4, <2>5 DEF WholeDatagrams, TypeOK
<1>10. CASE NextFragment(p)
  <2> DEFINE data == rasm[p.proto].data \o p.data
  <2>1. Expected(p)
    BY <1>10 DEF NextFragment
  <2>2. PICK e \in Datagrams(p.proto) :
          e.id = rasm[p.proto].id /\ BeginningOf(data, e) /\ (~p.mf => data = e.data)
    BY <1>5, <2>1, Appended
  <2>3. data \in Seq(Units(p.proto)) /\ Len(data) <= Cap[p.proto]
    BY <1>5, <2>1, Appended
  <2> HIDE DEF data
  <2>4. CASE p.mf
    <3>1. rasm' = [rasm EXCEPT ![p.proto].data = data] /\ handed' = None /\ dns_pkt' = dns_pkt
      BY <1>10, <2>4 DEF NextFragment, Quiet, data
    <3>2. \A q \in Protocols : rasm'[q] = IF q = p.proto THEN [rasm[q] EXCEPT !.data = data] ELSE rasm[q]
      BY <1>5, <3>1 DEF TypeOK
    <3>3. rasm'[p.proto].id = rasm[p.proto].id /\ rasm'[p.proto].data = data
      BY <1>5, <3>2 DEF TypeOK
    <3>4. DOMAIN rasm' = Protocols
      BY <1>5, <3>1 DEF TypeOK
    <3>5. \A q \in Protocols : rasm'[q] \in [id : Nat, data : Seq(Units(q))] /\ Len(rasm'[q].data) <= Cap[q]
      BY <1>5, <2>3, <3>2, <3>3 DEF TypeOK
    <3>6. Reassembling'
      BY <1>2, <1>5, <2>2, <3>2, <3>3 DEF Reassembling
    <3> QED
      BY <1>5, <3>1, <3>4, <3>5, <3>6 DEF WholeDatagrams, TypeOK
  <2>5. CASE ~p.mf
    <3>1. rasm' = [rasm EXCEPT ![p.proto] = Empty] /\ Hand(p.proto, data)
      BY <1>10, <2>5 DEF NextFragment, data
    <3>2. dns_pkt' \in Seq(Queries \X Nat) /\ WholeDatagrams'
      BY <1>6, <2>2, <2>3, <2>5, <3>1
    <3>3. \A q \in Protocols : rasm'[q] = IF q = p.proto THEN Empty ELSE rasm[q]
      BY <1>5, <3>1 DEF TypeOK
    <3>4. DOMAIN rasm' = Protocols
      BY <1>5, <3>1 DEF TypeOK
    <3>5. \A q \in Protocols : rasm'[q] \in [id : Nat, data : Seq(Units(q))] /\ Len(rasm'[q].data) <= Cap[q]
      BY <1>5, <3>3, EmptyBuffer DEF TypeOK
    <3>6. Reassembling'
      BY <1>2, <1>5, <3>3 DEF Reassembling, Empty
    <3> QED
      BY <3>2, <3>4, <3>5, <3>6
  <2> QED
    BY <2>4, <2>5
<1>11. CASE WrongFragment(p)
  <2>1. rasm' = [rasm EXCEPT ![p.proto] = Empty] /\ handed' = None /\ dns_pkt' = dns_pkt
    BY <1>11 DEF WrongFragment, Quiet
  <2>2. \A q \in Protocols : rasm'[q] \in {rasm[q], Empty}
    BY <1>5, <2>1 DEF TypeOK
  <2>3. DOMAIN rasm' = Protocols
    BY <1>5, <2>1 DEF TypeOK
  <2> QED
    BY <1>1, <1>5, <2>1, <2>2, <2>3, Cleared DEF TypeOK
<1> QED
  BY <1>8, <1>9, <1>10, <1>11 DEF net_handle_ip

\* An answer of the DNS server makes more datagrams.
LEMMA ReplyPreserves ==
  ASSUME NetInv, NEW q \in Queries, NEW id \in Ids, NEW room \in Answers, NEW positive \in BOOLEAN,
         Reply(q, id, room, positive)
  PROVE  NetInv'
<1> DEFINE new == [query |-> q, id |-> id, size |-> room, positive |-> positive]
<1>1. /\ answers' = answers \cup {new} /\ handed' = None /\ rasm' = rasm
      /\ \A a \in answers : a.id # id
      /\ pc' = pc /\ UNCHANGED init /\ UNCHANGED lookup
  BY DEF Reply, Quiet
<1>2. TypeOK'
  BY <1>1 DEF NetInv, TypeOK, init, lookup, dns_txid
<1>3. UniqueIds' /\ NumbersLeft' /\ WholeDatagrams'
  BY <1>1 DEF NetInv, UniqueIds, NumbersLeft, WholeDatagrams, lookup, dns_txid
<1>4. \A p : Datagrams(p) \subseteq Datagrams(p)'
  BY <1>1 DEF Datagrams
<1>5. Reassembling'
  BY <1>1, <1>4 DEF NetInv, Reassembling
<1> QED
  BY <1>2, <1>3, <1>5 DEF NetInv

LEMMA NetNext == NetInv /\ [Next]_vars => NetInv'
<1> SUFFICES ASSUME NetInv, [Next]_vars PROVE NetInv'
  OBVIOUS
<1> DEFINE Buffers == /\ answers' = answers /\ handed' = None /\ \A q \in Protocols : rasm'[q] \in {rasm[q], Empty}
                      /\ DOMAIN rasm' = Protocols
           Others == /\ pc' \in {"down", "arp", "idle", "dns"} /\ tries' \in 0 .. ArpTries
                     /\ gw_mac_ok' \in BOOLEAN /\ s_net_ok' \in BOOLEAN /\ dns_rx_armed' \in BOOLEAN
                     /\ host' \in Hosts /\ attempt' \in 1 .. Attempts
                     /\ asked' \in Seq(Hosts) /\ Len(asked') \in Numbers
                     /\ dns_pkt' \in Seq(Queries \X Nat) /\ found' \in Numbers
                     /\ (pc' = "dns" => Len(asked') + Attempts - attempt' \in Numbers)
           AllEmpty == rasm' = [q \in Protocols |-> Empty]
           Same == rasm' = rasm
<1>1. ASSUME Buffers, Others PROVE NetInv'
  BY <1>1, Cleared DEF NetInv, TypeOK, NumbersLeft, dns_txid
<1>2. ASSUME AllEmpty \/ Same, answers' = answers, handed' = None PROVE Buffers
  BY <1>2 DEF NetInv, TypeOK, Protocols
<1>3. CASE StartInit
  <2>1. <<>> \in Seq(Queries \X Nat) /\ 1 \in 0 .. ArpTries
    BY NetAssumption, EmptySeq
  <2>2. Others
    BY <1>3, <2>1 DEF StartInit, NetInv, TypeOK, dns_txid
  <2> QED
    BY <1>1, <1>2, <1>3, <2>2 DEF StartInit, Quiet
<1>4. CASE ArpReply
  <2>1. Others
    BY <1>4 DEF ArpReply, NetInv, TypeOK, NumbersLeft, dns_txid, lookup
  <2> QED
    BY <1>1, <1>2, <1>4, <2>1 DEF ArpReply, Quiet
<1>5. CASE ArpAgain
  <2>1. Others
    BY <1>5, NetAssumption DEF ArpAgain, NetInv, TypeOK, NumbersLeft, dns_txid, lookup
  <2> QED
    BY <1>1, <1>2, <1>5, <2>1 DEF ArpAgain, Quiet
<1>6. CASE EndInit
  <2>1. Others
    BY <1>6 DEF EndInit, NetInv, TypeOK, dns_txid, lookup
  <2> QED
    BY <1>1, <1>2, <1>6, <2>1 DEF EndInit, Quiet
<1>7. CASE Found
  <2>1. dns_pkt # <<>> /\ dns_pkt \in Seq(Queries \X Nat)
    BY <1>7 DEF Found, Positive, NetInv, TypeOK
  <2>2. Len(dns_pkt) \in 1 .. Len(dns_pkt)
    BY <2>1, EmptySeq
  <2>3. dns_pkt[Len(dns_pkt)] \in Queries \X Nat
    BY <2>1, <2>2, ElementOfSeq
  <2>4. found' \in Numbers
    BY <1>7, <2>3, NetAssumption DEF Found, Queries, Numbers, Attempts
  <2>5. Others
    BY <1>7, <2>4 DEF Found, NetInv, TypeOK, dns_txid, init
  <2> QED
    BY <1>1, <1>2, <1>7, <2>5 DEF Found, Quiet
<1>8. CASE Fails
  <2>1. Len(asked) \in Nat /\ asked \in Seq(Hosts) /\ host \in Hosts
    BY DEF NetInv, TypeOK
  <2>2. Append(asked, host) \in Seq(Hosts) /\ Len(Append(asked, host)) = Len(asked) + 1
    BY <2>1, AppendProperties
  <2>3. <<>> \in Seq(Queries \X Nat)
    BY EmptySeq
  <2>4. CASE attempt < Attempts
    <3>1. /\ attempt' = attempt + 1 /\ asked' = Append(asked, host) /\ dns_rx_armed' = TRUE /\ dns_pkt' = <<>>
          /\ rasm' = [rasm EXCEPT !["UDP"] = Empty] /\ answers' = answers /\ handed' = None
          /\ pc = "dns" /\ pc' = pc /\ found' = found /\ UNCHANGED init /\ host' = host
      BY <1>8, <2>4 DEF Fails, Ask, Quiet
    <3>2. Buffers
      BY <3>1 DEF NetInv, TypeOK, Protocols
    <3>3. attempt = 1 /\ Len(asked) + 1 \in Numbers
      BY <2>1, <2>4, <3>1, NetAssumption DEF NetInv, TypeOK, NumbersLeft, dns_txid, Attempts, Numbers
    <3>4. attempt' = 2 /\ Len(asked') \in Numbers /\ Len(asked') + Attempts - attempt' \in Numbers
      BY <2>1, <2>2, <3>1, <3>3 DEF Attempts, Numbers
    <3>5. Others
      BY <2>2, <2>3, <3>1, <3>4 DEF NetInv, TypeOK, init, Attempts
    <3> QED
      BY <1>1, <3>2, <3>5
  <2>5. CASE ~(attempt < Attempts)
    <3>1. /\ pc' = "idle" /\ dns_rx_armed' = FALSE /\ found' = 0 /\ host' = host /\ UNCHANGED init
          /\ UNCHANGED <<rasm, attempt, asked, dns_pkt, answers>> /\ handed' = None
      BY <1>8, <2>5 DEF Fails, Quiet
    <3>2. 0 \in Numbers
      BY NetAssumption DEF Numbers, Attempts
    <3>3. Others
      BY <3>1, <3>2 DEF NetInv, TypeOK, dns_txid, init
    <3> QED
      BY <1>1, <1>2, <3>1, <3>3
  <2> QED
    BY <2>4, <2>5
<1>9. CASE OtherFragment
  <2>1. Others
    BY <1>9 DEF OtherFragment, KeepLookup, NetInv, TypeOK, NumbersLeft, dns_txid, init
  <2> QED
    BY <1>1, <1>2, <1>9, <2>1 DEF OtherFragment, KeepLookup, Quiet
<1>10. ASSUME NEW h \in Hosts, Lookup(h) PROVE NetInv'
  <2>1. Len(asked) \in Nat /\ asked \in Seq(Hosts) /\ Len(asked) + 2 \in Queries
    BY <1>10 DEF Lookup, NetInv, TypeOK, Attempts
  <2>2. Append(asked, h) \in Seq(Hosts) /\ Len(Append(asked, h)) = Len(asked) + 1
    BY <2>1, AppendProperties
  <2>3. /\ attempt' = 1 /\ asked' = Append(asked, h) /\ dns_rx_armed' = TRUE /\ dns_pkt' = <<>>
        /\ pc' = "dns" /\ found' = found /\ UNCHANGED init /\ host' = h
    BY <1>10 DEF Lookup, Ask
  <2>4. Len(asked') \in Numbers /\ Len(asked') + Attempts - attempt' \in Numbers /\ 1 \in 1 .. Attempts
    BY <2>1, <2>2, <2>3, NetAssumption DEF Numbers, Attempts, Queries
  <2>5. <<>> \in Seq(Queries \X Nat)
    BY EmptySeq
  <2>6. Others
    <3>1. tries' = tries /\ gw_mac_ok' = gw_mac_ok /\ s_net_ok' = s_net_ok /\ attempt' \in 1 .. Attempts
      BY <2>3, <2>4 DEF init
    <3>2. asked' \in Seq(Hosts) /\ dns_pkt' \in Seq(Queries \X Nat)
      BY <2>2, <2>3, <2>5
    <3> QED
      BY <2>3, <2>4, <3>1, <3>2 DEF NetInv, TypeOK
  <2> QED
    BY <1>1, <1>2, <1>10, <2>6 DEF Lookup, Quiet
<1>11. CASE UNCHANGED vars
  <2>1. \A q : Datagrams(q)' = Datagrams(q)
    BY <1>11 DEF vars, Datagrams
  <2> QED
    BY <1>11, <2>1 DEF vars, init, lookup, NetInv, TypeOK, NumbersLeft, UniqueIds, Reassembling, WholeDatagrams, dns_txid
<1> QED
  BY <1>3, <1>4, <1>5, <1>6, <1>7, <1>8, <1>9, <1>10, <1>11, HandlePreserves, ReplyPreserves DEF Next

(* Every variable keeps its type; no buffer of net_handle_ip is overrun,   *)
(* whatever fragments arrive in whatever order.                            *)
THEOREM NetTypeCorrect == Spec => []TypeOK
<1>1. NetInv => TypeOK
  BY DEF NetInv
<1> QED
  BY NetInit, NetNext, <1>1, PTL DEF Spec

(* For every set of datagrams and all sizes of fragments: what is handed   *)
(* to TCP or UDP is a datagram as its sender made it.                      *)
THEOREM ReassemblySafe == Spec => []WholeDatagrams
<1>1. NetInv => WholeDatagrams
  BY DEF NetInv
<1> QED
  BY NetInit, NetNext, <1>1, PTL DEF Spec

----------------------------------------------------------------------------
(* The look-up: the stored packet is a whole answer to the last query,     *)
(* which asked for host.                                                   *)
AsksForHost == pc = "dns" => Len(asked) # 0 /\ asked[Len(asked)] = host
PacketIsAnswer == dns_pkt # <<>> => \E a \in answers : dns_pkt = Answer(a).data /\ a.query = dns_txid
FoundForHost ==
  found # 0 /\ pc # "dns" => asked[found] = host /\ \E a \in answers : a.query = found /\ a.positive

LookupInv == AsksForHost /\ PacketIsAnswer /\ FoundForHost

\* Every unit of an answer names its query.
LEMMA AnswerUnits ==
  ASSUME TypeOK, NEW a \in answers
  PROVE  /\ Answer(a).data # <<>> /\ Len(Answer(a).data) \in 1 .. Len(Answer(a).data)
         /\ \A i \in 1 .. Len(Answer(a).data) : Answer(a).data[i][1] = a.query
<1>1. a.size \in Nat \ {0}
  BY NetAssumption DEF TypeOK
<1>2. Answer(a).data = [i \in 1 .. a.size |-> <<a.query, i>>]
  BY DEF Answer
<1>3. Answer(a) \in Datagrams("UDP") /\ "UDP" \in Protocols
  BY DEF Datagrams, Protocols
<1>4. Answer(a).data \in Seq(Units("UDP"))
  BY <1>3, DatagramType
<1>5. Len(Answer(a).data) = a.size
  BY <1>1, <1>2, <1>4, LenProperties
<1>6. Answer(a).data # <<>>
  BY <1>1, <1>5, EmptySeq
<1>7. \A i \in 1 .. a.size : Answer(a).data[i][1] = a.query
  BY <1>2
<1> QED
  BY <1>1, <1>5, <1>6, <1>7

LEMMA LookupNext == NetInv /\ NetInv' /\ LookupInv /\ [Next]_vars => LookupInv'
<1> SUFFICES ASSUME NetInv, NetInv', LookupInv, [Next]_vars PROVE LookupInv'
  OBVIOUS
<1>1. ASSUME UNCHANGED <<pc, host, asked, found>>, answers \subseteq answers', dns_pkt' \in {dns_pkt, <<>>}
      PROVE  LookupInv'
  BY <1>1 DEF LookupInv, AsksForHost, PacketIsAnswer, FoundForHost, dns_txid
<1>2. ASSUME UNCHANGED <<host, asked, found, answers>>, pc # "dns", pc' # "dns", dns_pkt' \in {dns_pkt, <<>>}
      PROVE  LookupInv'
  BY <1>2 DEF LookupInv, AsksForHost, PacketIsAnswer, FoundForHost, dns_txid
<1>3. CASE StartInit
  BY <1>2, <1>3 DEF StartInit
<1>4. CASE ArpReply \/ ArpAgain
  BY <1>1, <1>4 DEF ArpReply, ArpAgain, lookup
<1>5. CASE EndInit
  BY <1>2, <1>5 DEF EndInit, lookup
<1>6. CASE Found
  <2>1. PICK a \in answers : dns_pkt = Answer(a).data /\ a.query = dns_txid
    BY <1>6 DEF Found, Positive, LookupInv, PacketIsAnswer
  <2>2. dns_pkt[Len(dns_pkt)][1] = dns_txid
    BY <2>1, AnswerUnits DEF NetInv
  <2>3. found' = dns_txid /\ asked' = asked /\ host' = host /\ answers' = answers /\ dns_pkt' = dns_pkt
        /\ pc = "dns" /\ pc' = "idle" /\ \E b \in answers : b.query = dns_txid /\ b.positive
    BY <1>6, <2>2 DEF Found, Positive
  <2> QED
    BY <2>3 DEF LookupInv, AsksForHost, PacketIsAnswer, FoundForHost, dns_txid
<1>7. CASE Fails
  <2>1. CASE attempt < Attempts
    <3>1. asked' = Append(asked, host) /\ dns_pkt' = <<>> /\ host' = host /\ pc' = pc /\ pc = "dns"
      BY <1>7, <2>1 DEF Fails, Ask
    <3>2. asked \in Seq(Hosts) /\ host \in Hosts
      BY DEF NetInv, TypeOK
    <3>3. Len(asked') = Len(asked) + 1 /\ asked'[Len(asked) + 1] = host /\ Len(asked) \in Nat
      BY <3>1, <3>2, AppendProperties
    <3> QED
      BY <3>1, <3>3 DEF LookupInv, AsksForHost, PacketIsAnswer, FoundForHost
  <2>2. CASE ~(attempt < Attempts)
    <3>1. found' = 0 /\ pc' = "idle" /\ UNCHANGED <<asked, dns_pkt, answers>>
      BY <1>7, <2>2 DEF Fails
    <3> QED
      BY <3>1 DEF LookupInv, AsksForHost, PacketIsAnswer, FoundForHost, dns_txid
  <2> QED
    BY <2>1, <2>2
<1>8. CASE OtherFragment
  BY <1>1, <1>8 DEF OtherFragment, KeepLookup
<1>9. ASSUME NEW h \in Hosts, Lookup(h) PROVE LookupInv'
  <2>1. asked' = Append(asked, h) /\ dns_pkt' = <<>> /\ host' = h /\ pc' = "dns"
    BY <1>9 DEF Lookup, Ask
  <2>2. asked \in Seq(Hosts)
    BY DEF NetInv, TypeOK
  <2>3. Len(asked') = Len(asked) + 1 /\ asked'[Len(asked) + 1] = h /\ Len(asked) \in Nat
    BY <2>1, <2>2, AppendProperties
  <2> QED
    BY <2>1, <2>3 DEF LookupInv, AsksForHost, PacketIsAnswer, FoundForHost
<1>10. ASSUME NEW p \in Arriving, net_handle_ip(p) PROVE LookupInv'
  <2>1. UNCHANGED <<pc, host, asked, found, answers>>
    BY <1>10 DEF net_handle_ip, WholePacket, FirstFragment, NextFragment, WrongFragment, KeepLookup
  <2>2. CASE dns_pkt' = dns_pkt
    BY <1>1, <2>1, <2>2
  <2>3. CASE dns_pkt' # dns_pkt
    <3>1. handed' = [proto |-> "UDP", data |-> dns_pkt'] /\ dns_pkt'[1][1] = dns_txid
      BY <1>10, <2>3 DEF net_handle_ip, WholePacket, FirstFragment, NextFragment, WrongFragment, Hand, HandUdp
    <3>2. handed' # None
      BY <3>1 DEF None
    <3>3. \E d \in Datagrams("UDP")' : d.data = dns_pkt'
      BY <3>1, <3>2 DEF NetInv, WholeDatagrams
    <3>4. PICK a \in answers : Answer(a).data = dns_pkt'
      BY <2>1, <3>3 DEF Datagrams
    <3>5. a.query = dns_txid
      BY <3>1, <3>4, AnswerUnits DEF NetInv
    <3> QED
      BY <2>1, <3>4, <3>5 DEF LookupInv, AsksForHost, PacketIsAnswer, FoundForHost, dns_txid
  <2> QED
    BY <2>2, <2>3
<1>11. ASSUME NEW q \in Queries, NEW id \in Ids, NEW room \in Answers, NEW positive \in BOOLEAN,
              Reply(q, id, room, positive)
       PROVE  LookupInv'
  BY <1>1, <1>11 DEF Reply, lookup
<1>12. CASE UNCHANGED vars
  BY <1>1, <1>12 DEF vars, lookup
<1> QED
  BY <1>3, <1>4, <1>5, <1>6, <1>7, <1>8, <1>9, <1>10, <1>11, <1>12 DEF Next

(* For any number of look-ups, answers and fragments: what a look-up       *)
(* returns is an address of the name it was asked for.                     *)
THEOREM LookupSafe == Spec => []AnswerIsForHost
<1>1. Init => LookupInv
  BY DEF Init, LookupInv, AsksForHost, PacketIsAnswer, FoundForHost
<1>2. LookupInv => AnswerIsForHost
  BY DEF LookupInv, FoundForHost, AnswerIsForHost
<1> QED
  BY NetInit, NetNext, LookupNext, <1>1, <1>2, PTL DEF Spec

(***************************************************************************)
(* The disk driver.                                                        *)
(***************************************************************************)
Datum == Data \cup {0}
AtaTyped ==
  /\ cache \in [Disk!Drives -> [Sectors -> Datum]] /\ medium \in [Disk!Drives -> [Sectors -> Datum]]
  /\ drive \in [Disk!Drives -> [is : {"ready", "busy", "asking", "error"},
                                does : {"none", "read", "write", "store", "flush"},
                                sector : Sectors \cup {0}, data : Datum]]
  /\ access \in [kind : {"none", "read", "write"}, sector : Sectors \cup {0}, data : Datum, drive : Disk!Drives,
                 at : {"idle", "ready", "drq", "stored", "flushed"}, heard : BOOLEAN]
  /\ access.at # "idle" => access.kind # "none" /\ access.sector \in Sectors
  /\ access.at = "idle" => access = Disk!None
  /\ may \in [Disk!Drives -> [Sectors -> SUBSET Datum]] /\ doubt \in [Disk!Drives -> SUBSET Sectors]
(* How far the selected drive is with the access.  A drive that reported   *)
(* ready twice has the sector in its cache and then on the medium.         *)
Storing(c)  == c.is = "busy" /\ c.does = "store"
OfAccess(c) ==  c.sector = access.sector /\ c.data = access.data
Cached     == cache[access.drive][access.sector] = access.data
Saved      == Cached /\ medium[access.drive][access.sector] = access.data
Stage(c) ==
  /\ access.at = "drq" => ~Storing(c)
  /\ access.at = "stored" => (Storing(c) /\ OfAccess(c)) \/ (c.is = "ready" /\ Cached) \/ c.is = "error"
  /\ access.at = "flushed" /\ access.heard =>
       (c.is = "busy" /\ c.does = "flush" /\ Cached) \/ (c.is = "ready" /\ Saved) \/ c.is = "error"
  /\ access.at = "flushed" /\ Storing(c) => OfAccess(c)
Staged == Stage(drive[access.drive])
Written == access.at \in {"stored", "flushed"}
(* A sector that a drive still stores is that of the access or in doubt.   *)
Stores(d) == Storing(drive[d]) /\ ~(Written /\ access.drive = d) => drive[d].sector \in doubt[d]
Pending == \A d \in Disk!Drives : Stores(d)
Given == Written => access.data \in may[access.drive][access.sector]
Holds(d, s) == s \notin doubt[d] => cache[d][s] \in may[d][s] /\ medium[d][s] \in may[d][s]
Held == \A d \in Disk!Drives, s \in Sectors : Holds(d, s)
AtaInv == AtaTyped /\ Staged /\ Pending /\ Given /\ Held /\ Disk!WrittenSurvives

LEMMA AtaInit == PartsInit => AtaInv
<1> SUFFICES ASSUME Disk!Init PROVE AtaInv
  BY DEF PartsInit
<1>1. AtaTyped
  BY DEF Disk!Init, AtaTyped, Datum, Disk!None, Disk!Rest, Disk!Drives
<1>2. Staged /\ Pending /\ Given
  BY DEF Disk!Init, Staged, Stage, Storing, Pending, Stores, Given, Written, Disk!None, Disk!Rest, Disk!Drives
<1>3. Held /\ Disk!WrittenSurvives
  BY DEF Disk!Init, Held, Holds, Disk!WrittenSurvives, Disk!Fail, Disk!Drives
<1> QED BY <1>1, <1>2, <1>3 DEF AtaInv

(* The driver's steps.                                                     *)
LEMMA AtaBegin == ASSUME AtaInv, NEW s \in Sectors, NEW v \in Datum, NEW kind \in {"read", "write"}, Disk!Begin(kind, s, v)
                  PROVE  AtaInv'
<1> USE DEF AtaInv, Disk!Begin
<1>1. AtaTyped'
  BY DEF AtaTyped, Datum, Disk!None, Disk!Drives, Disk!disks, Disk!ghosts
<1>2. Staged' /\ Pending' /\ Given'
  BY DEF AtaTyped, Staged, Stage, Storing, Pending, Stores, Given, Written, Disk!None, Disk!Drives, Disk!ghosts
<1>3. Held' /\ Disk!WrittenSurvives'
  BY DEF Held, Holds, Disk!WrittenSurvives, Disk!Fail, Disk!disks, Disk!ghosts
<1> QED BY <1>1, <1>2, <1>3

LEMMA AtaDriver == ASSUME AtaInv, Disk!Command \/ Disk!NotAnswering \/ Disk!ReadAnswered \/ Disk!Flush
                   PROVE  AtaInv'
<1> USE DEF AtaInv, Disk!Selected, Disk!Busy, Disk!disks, Disk!ghosts, Disk!bounds
<1>1. CASE Disk!Command
  <2> USE <1>1 DEF Disk!Command, Disk!Order
  <2>1. AtaTyped'
    BY DEF AtaTyped, Datum, Disk!Drives
  <2>2. Staged' /\ Pending' /\ Given'
    BY DEF AtaTyped, Staged, Stage, Storing, Pending, Stores, Given, Written, Disk!Drives
  <2>3. Held' /\ Disk!WrittenSurvives'
    BY DEF Held, Holds, Disk!WrittenSurvives
  <2> QED BY <2>1, <2>2, <2>3
<1>2. CASE Disk!NotAnswering
  <2> USE <1>2 DEF Disk!NotAnswering
  <2>1. access' = [access EXCEPT !.drive = "slave", !.at = "ready"] \/ access' = Disk!None
    OBVIOUS
  <2>2. access.at \in {"ready", "drq"}
    OBVIOUS
  <2>3. access' \in [kind : {"none", "read", "write"}, sector : Sectors \cup {0}, data : Datum, drive : Disk!Drives,
                     at : {"idle", "ready", "drq", "stored", "flushed"}, heard : BOOLEAN]
    <3>1. ASSUME NEW a, a = [access EXCEPT !.drive = "slave", !.at = "ready"]
          PROVE  /\ a \in [kind : {"none", "read", "write"}, sector : Sectors \cup {0}, data : Datum, drive : Disk!Drives,
                            at : {"idle", "ready", "drq", "stored", "flushed"}, heard : BOOLEAN]
                 /\ a.at = "ready" /\ a.kind = access.kind /\ a.sector = access.sector
      BY <3>1 DEF AtaTyped, Disk!Drives
    <3>2. Disk!None \in [kind : {"none", "read", "write"}, sector : Sectors \cup {0}, data : Datum, drive : Disk!Drives,
                         at : {"idle", "ready", "drq", "stored", "flushed"}, heard : BOOLEAN]
      BY DEF Datum, Disk!Drives, Disk!None
    <3> QED BY <2>1, <3>1, <3>2
  <2>4. access'.at # "idle" => access'.at = "ready" /\ access'.kind # "none" /\ access'.sector \in Sectors
    <3>1. CASE access' = [access EXCEPT !.drive = "slave", !.at = "ready"]
      BY <2>2, <3>1 DEF AtaTyped
    <3>2. Disk!None.at = "idle"
      BY DEF Disk!None
    <3> QED BY <2>1, <3>1, <3>2
  <2>5. access'.at = "idle" => access' = Disk!None
    BY <2>1 DEF AtaTyped
  <2>6. AtaTyped'
    BY <2>3, <2>4, <2>5 DEF AtaTyped
  <2>7. access'.at \in {"idle", "ready"} /\ ~Written /\ ~Written'
    BY <2>2, <2>4 DEF Written
  <2>8. Staged' /\ Pending' /\ Given'
    BY <2>7 DEF Staged, Stage, Storing, Pending, Stores, Given
  <2>9. Held' /\ Disk!WrittenSurvives'
    BY DEF Held, Holds, Disk!WrittenSurvives, Disk!Fail
  <2> QED BY <2>6, <2>8, <2>9
<1>3. CASE Disk!ReadAnswered
  <2> USE <1>3 DEF Disk!ReadAnswered, Disk!Asking
  <2>1. AtaTyped'
    BY DEF AtaTyped, Datum, Disk!Drives, Disk!None, Disk!Rest
  <2>2. Staged' /\ Pending' /\ Given'
    BY DEF AtaTyped, Staged, Stage, Storing, Pending, Stores, Given, Written, Disk!Drives, Disk!None, Disk!Rest
  <2>3. Held' /\ Disk!WrittenSurvives'
    BY DEF AtaTyped, Held, Holds, Disk!WrittenSurvives, Disk!Drives
  <2> QED BY <2>1, <2>2, <2>3
<1>4. CASE Disk!Flush
  <2> USE <1>4 DEF Disk!Flush, Disk!Order, Disk!Heard
  <2>1. AtaTyped'
    BY DEF AtaTyped, Datum, Disk!Drives
  <2>2. Staged'
    BY DEF AtaTyped, Staged, Stage, Storing, OfAccess, Cached, Saved, Disk!Drives
  <2>3. Pending' /\ Given'
    BY DEF AtaTyped, Storing, Pending, Stores, Given, Written, Disk!Drives
  <2>4. Held' /\ Disk!WrittenSurvives'
    BY DEF Held, Holds, Disk!WrittenSurvives
  <2> QED BY <2>1, <2>2, <2>3, <2>4
<1> QED BY <1>1, <1>2, <1>3, <1>4

LEMMA AtaDataOut == ASSUME AtaInv, Disk!DataOut PROVE AtaInv'
<1> USE DEF AtaInv, Disk!DataOut, Disk!Asking, Disk!Order, Disk!Selected, Disk!disks, Disk!bounds
<1>1. AtaTyped'
  BY DEF AtaTyped, Datum, Disk!Drives
<1>2. Staged'
  BY DEF AtaTyped, Staged, Stage, Storing, OfAccess, Disk!Drives
<1>3. Pending' /\ Given'
  BY DEF AtaTyped, Storing, Pending, Stores, Given, Written, Disk!Drives
<1>4. \A d \in Disk!Drives, s \in Sectors : may[d][s] \subseteq may'[d][s]
  BY DEF AtaTyped, Disk!Drives
<1>5. Held'
  BY <1>4 DEF Held, Holds
<1>6. Disk!WrittenSurvives'
  BY DEF AtaTyped, Disk!WrittenSurvives, Disk!Drives
<1> QED BY <1>1, <1>2, <1>3, <1>5, <1>6

LEMMA AtaWriteAnswered == ASSUME AtaInv, Disk!WriteAnswered PROVE AtaInv'
<1> USE DEF AtaInv, Disk!WriteAnswered, Disk!Heard, Disk!Selected, Disk!disks, Disk!bounds
<1>1. AtaTyped'
  BY DEF AtaTyped, Datum, Disk!Drives, Disk!None
<1>2. Staged' /\ Given'
  BY DEF AtaTyped, Staged, Stage, Storing, Given, Written, Disk!Drives, Disk!None
<1>3. Pending'
  BY DEF AtaTyped, Staged, Stage, Storing, OfAccess, Pending, Stores, Written, Disk!Drives, Disk!None
<1>4. Held'
  BY DEF AtaTyped, Held, Holds, Staged, Stage, Cached, Saved, Disk!Drives
<1>5. Disk!WrittenSurvives'
  BY DEF AtaTyped, Disk!WrittenSurvives, Disk!Drives
<1> QED BY <1>1, <1>2, <1>3, <1>4, <1>5

(* The drives' steps, a restart and a reset.                               *)
LEMMA AtaDrive == ASSUME AtaInv, NEW d \in Disk!Drives,
                         Disk!DriveFails(d) \/ Disk!DriveWorks(d) \/ Disk!DriveSaves(d)
                  PROVE  AtaInv'
<1> USE DEF AtaInv, Disk!Busy, Disk!Becomes, Disk!disks, Disk!ghosts, Disk!bounds
<1>1. CASE Disk!DriveFails(d)
  <2> USE <1>1 DEF Disk!DriveFails
  <2>1. AtaTyped'
    BY DEF AtaTyped, Datum, Disk!Drives, Disk!Rest
  <2>2. Staged' /\ Pending' /\ Given'
    BY DEF AtaTyped, Staged, Stage, Storing, OfAccess, Cached, Saved, Pending, Stores, Given, Written, Disk!Drives, Disk!Rest
  <2>3. Held' /\ Disk!WrittenSurvives'
    BY DEF Held, Holds, Disk!WrittenSurvives
  <2> QED BY <2>1, <2>2, <2>3
<1>2. CASE Disk!DriveWorks(d)
  <2> USE <1>2 DEF Disk!DriveWorks
  <2>1. AtaTyped'
    BY DEF AtaTyped, Datum, Disk!Drives, Disk!Rest
  <2>2. Staged'
    BY DEF AtaTyped, Staged, Stage, Storing, OfAccess, Cached, Saved, Disk!Drives, Disk!Rest
  <2>3. Pending' /\ Given'
    BY DEF AtaTyped, Storing, Pending, Stores, Given, Written, Disk!Drives, Disk!Rest
  <2>4. ASSUME Storing(drive[d]), drive[d].sector \in Sectors \ doubt[d] PROVE drive[d].data \in may[d][drive[d].sector]
    BY <2>4 DEF AtaTyped, Pending, Stores, Staged, Stage, Storing, OfAccess, Given, Written, Disk!Drives
  <2>5. Held'
    BY <2>4 DEF AtaTyped, Held, Holds, Storing, Disk!Drives
  <2>6. Disk!WrittenSurvives'
    BY DEF Disk!WrittenSurvives
  <2> QED BY <2>1, <2>2, <2>3, <2>5, <2>6
<1>3. CASE Disk!DriveSaves(d)
  <2> USE <1>3 DEF Disk!DriveSaves
  <2>1. AtaTyped'
    BY DEF AtaTyped, Disk!Drives
  <2>2. Staged' /\ Pending' /\ Given'
    BY DEF AtaTyped, Staged, Stage, Storing, OfAccess, Cached, Saved, Pending, Stores, Given, Written, Disk!Drives
  <2>3. Held' /\ Disk!WrittenSurvives'
    BY DEF AtaTyped, Held, Holds, Disk!WrittenSurvives, Disk!Drives
  <2> QED BY <2>1, <2>2, <2>3
<1> QED BY <1>1, <1>2, <1>3

LEMMA AtaRestart == ASSUME AtaInv, Disk!PowerCut \/ Disk!AtaInit PROVE AtaInv'
<1> USE DEF AtaInv, Disk!PowerCut, Disk!AtaInit, Disk!disks, Disk!ghosts, Disk!bounds
<1>1. access' = Disk!None /\ drive' = [c \in Disk!Drives |-> Disk!Rest] /\ (cache' = medium \/ cache' = cache)
      /\ UNCHANGED <<medium, may, doubt>>
  OBVIOUS
<1>2. AtaTyped'
  BY <1>1 DEF AtaTyped, Datum, Disk!None, Disk!Rest, Disk!Drives
<1>3. Staged' /\ Pending' /\ Given'
  BY <1>1 DEF Staged, Stage, Storing, Pending, Stores, Given, Written, Disk!None, Disk!Rest, Disk!Drives
<1>4. Held'
  BY <1>1 DEF Held, Holds
<1>5. Disk!WrittenSurvives'
  BY DEF Disk!WrittenSurvives, Disk!Fail
<1> QED BY <1>2, <1>3, <1>4, <1>5

LEMMA AtaStep == [PartsNext]_partVars => Disk!Next \/ UNCHANGED ataVars
BY DEF PartsNext, partVars, NetTurn, CalcTurn, PuzzleTurn, PongTurn, CardTurn, PageTurn, BodyTurn, Rendering, Browsing, Disk!Next

(* For any sectors, accesses, failures and power cuts: a read that         *)
(* succeeds returns what the last successful write of the sector wrote,    *)
(* but where the drive had not reported that write done.                   *)
THEOREM WrittenOutlives == PartsSpec => []WrittenSurvives
<1>1. AtaInv /\ UNCHANGED ataVars => AtaInv'
  BY DEF AtaInv, ataVars, AtaTyped, Staged, Stage, Storing, OfAccess, Cached, Saved, Pending, Stores, Given, Written, Held, Holds,
     Disk!WrittenSurvives
<1>2. AtaInv /\ Disk!Next => AtaInv'
  <2>1. ASSUME AtaInv, NEW s \in Sectors, Disk!ReadSectors(s) PROVE AtaInv'
    BY <2>1, AtaBegin DEF Disk!ReadSectors, Datum
  <2>2. ASSUME AtaInv, NEW s \in Sectors, NEW v \in Data, Disk!WriteSectors(s, v) PROVE AtaInv'
    BY <2>2, AtaBegin DEF Disk!WriteSectors, Datum
  <2> QED BY <2>1, <2>2, AtaDriver, AtaDataOut, AtaWriteAnswered, AtaDrive, AtaRestart DEF Disk!Next
<1>3. AtaInv /\ [PartsNext]_partVars => AtaInv'
  BY <1>1, <1>2, AtaStep
<1>4. AtaInv => WrittenSurvives
  BY DEF AtaInv, WrittenSurvives
<1> QED BY <1>3, <1>4, AtaInit, PTL DEF PartsSpec

(***************************************************************************)
(* Pong: a ball not yet noted as missed has not reached the paddle.        *)
(***************************************************************************)
InPlay == state \in {"play", "pause"}
LeftOpen  == InPlay /\ vx < 0 /\ reach.left # "missed" => bx > Game!LeftFace + PaddleW
RightOpen == InPlay /\ vx > 0 /\ reach.right # "missed" => bx + Ball < Game!RightFace
Speeds == bx \in Int /\ vx \in -MaxSpeed .. MaxSpeed
Scores == scoreL \in Nat /\ scoreR \in Nat
Inside == InPlay => bx + Ball >= 0 /\ bx <= W
PongInv == LeftOpen /\ RightOpen /\ Inside /\ Speeds /\ Scores

LEMMA Faces ==
  /\ W \in Nat /\ PaddleW \in Nat /\ Ball \in Nat /\ Speed \in Nat /\ MaxSpeed \in Nat
  /\ W \div 2 \in Int /\ Ball \div 2 \in Int
  /\ Game!LeftFace = PaddleW + 2 /\ Game!RightFace = W - PaddleW - 2 - PaddleW
  /\ Speed <= MaxSpeed /\ MaxSpeed <= PaddleW + Ball + 1
  /\ Game!LeftFace + PaddleW < W \div 2 - Ball \div 2
  /\ W \div 2 - Ball \div 2 + Ball < Game!RightFace
BY PongAssumption DEF Game!LeftFace, Game!RightFace

Whole(b) == b = [x |-> b.x, y |-> b.y, vx |-> b.vx, vy |-> b.vy]
(* The walls change nothing of the ball's way across.                       *)
LEMMA Bounced ==
  ASSUME NEW b, Whole(b)
  PROVE  Whole(Game!Bounce(b)) /\ Game!Bounce(b).x = b.x /\ Game!Bounce(b).vx = b.vx
<1> DEFINE top == IF b.y <= 0 THEN [b EXCEPT !.y = 0, !.vy = -@] ELSE b
<1>1. Whole(top) /\ top.x = b.x /\ top.vx = b.vx
  <2>1. CASE b.y <= 0
    <3>1. top = [x |-> b.x, y |-> 0, vx |-> b.vx, vy |-> -b.vy]
      BY <2>1 DEF Whole
    <3> QED BY <3>1 DEF Whole
  <2>2. CASE ~(b.y <= 0)
    BY <2>2
  <2> QED BY <2>1, <2>2
<1>2. Game!Bounce(b) = IF top.y + Ball >= H THEN [top EXCEPT !.y = H - Ball, !.vy = -@] ELSE top
  BY DEF Game!Bounce
<1> HIDE DEF top
<1>3. CASE top.y + Ball >= H
  <2>1. Game!Bounce(b) = [x |-> top.x, y |-> H - Ball, vx |-> top.vx, vy |-> -top.vy]
    BY <1>1, <1>2, <1>3 DEF Whole
  <2> QED BY <1>1, <2>1 DEF Whole
<1>4. CASE ~(top.y + Ball >= H)
  BY <1>1, <1>2, <1>4
<1> QED BY <1>3, <1>4

LEMMA FasterBounded ==
  ASSUME NEW v \in -MaxSpeed .. MaxSpeed
  PROVE  /\ Game!Faster(v) \in -MaxSpeed .. MaxSpeed
         /\ v > 0 => Game!Faster(v) > 0
         /\ v < 0 => Game!Faster(v) < 0
BY Faces DEF Game!Faster

IsBall(b) == Whole(b) /\ b.x \in Int /\ b.vx \in -MaxSpeed .. MaxSpeed
(* What the left paddle does to the ball, and the right one.                *)
LEMMA LeftHit ==
  ASSUME NEW b, IsBall(b), NEW p, Game!InFrontL(b), Game!Covers(p, b)
  PROVE  Game!HitL(b, p).x = Game!LeftFace + PaddleW /\ Game!HitL(b, p).vx \in 1 .. MaxSpeed
<1>1. b.vx < 0
  BY DEF Game!InFrontL
<1>2. Game!Faster(-b.vx) \in 1 .. MaxSpeed
  BY <1>1, Faces, FasterBounded DEF IsBall
<1>3. Game!HitL(b, p) = [b EXCEPT !.x = Game!LeftFace + PaddleW, !.vx = Game!Faster(-@), !.vy = Game!Bent(p, b, 1)]
  BY DEF Game!HitL
<1>4. Game!HitL(b, p) = [x |-> Game!LeftFace + PaddleW, y |-> b.y, vx |-> Game!Faster(-b.vx), vy |-> Game!Bent(p, b, 1)]
  BY <1>3 DEF IsBall, Whole
<1> QED BY <1>2, <1>4

LEMMA RightHit ==
  ASSUME NEW b, IsBall(b), NEW p, Game!InFrontR(b), Game!Covers(p, b)
  PROVE  Game!HitR(b, p).x = Game!RightFace - Ball /\ Game!HitR(b, p).vx \in -MaxSpeed .. -1
<1>1. b.vx > 0
  BY DEF Game!InFrontR
<1>2. Game!Faster(-b.vx) \in -MaxSpeed .. -1
  BY <1>1, Faces, FasterBounded DEF IsBall
<1>3. Game!HitR(b, p) = [b EXCEPT !.x = Game!RightFace - Ball, !.vx = Game!Faster(-@), !.vy = Game!Bent(p, b, -1)]
  BY DEF Game!HitR
<1>4. Game!HitR(b, p) = [x |-> Game!RightFace - Ball, y |-> b.y, vx |-> Game!Faster(-b.vx), vy |-> Game!Bent(p, b, -1)]
  BY <1>3 DEF IsBall, Whole
<1> QED BY <1>2, <1>4

(* A flight that no paddle ends, one the left ends, one the right ends.     *)
Passes(b0, b, l, r) == b = b0 /\ ~(Game!InFrontL(b0) /\ Game!Covers(l, b0)) /\ ~(Game!InFrontR(b0) /\ Game!Covers(r, b0))
OffLeft(b0, b, l) ==
  Game!InFrontL(b0) /\ Game!Covers(l, b0) /\ b.x = Game!LeftFace + PaddleW /\ b.vx \in 1 .. MaxSpeed
OffRight(b0, b, r) ==
  Game!InFrontR(b0) /\ Game!Covers(r, b0) /\ b.x = Game!RightFace - Ball /\ b.vx \in -MaxSpeed .. -1
LEMMA Flight ==
  ASSUME NEW b0, IsBall(b0), NEW l, NEW r, NEW b, b = Game!HitR(Game!HitL(b0, l), r)
  PROVE  Passes(b0, b, l, r) \/ OffLeft(b0, b, l) \/ OffRight(b0, b, r)
<1> PICK b1 : b1 = Game!HitL(b0, l)
  OBVIOUS
<1>1. CASE Game!InFrontL(b0) /\ Game!Covers(l, b0)
  <2>1. b1.x = Game!LeftFace + PaddleW /\ b1.vx \in 1 .. MaxSpeed
    BY <1>1, LeftHit
  <2>2. ~Game!InFrontR(b1)
    BY <2>1, Faces DEF Game!InFrontR
  <2>3. b = b1
    BY <2>2 DEF Game!HitR
  <2> QED BY <1>1, <2>1, <2>3 DEF OffLeft
<1>2. CASE ~(Game!InFrontL(b0) /\ Game!Covers(l, b0))
  <2>1. b = Game!HitR(b0, r)
    BY <1>2 DEF Game!HitL
  <2>2. CASE Game!InFrontR(b0) /\ Game!Covers(r, b0)
    BY <2>1, <2>2, RightHit DEF OffRight
  <2>3. CASE ~(Game!InFrontR(b0) /\ Game!Covers(r, b0))
    BY <1>2, <2>1, <2>3 DEF Passes, Game!HitR
  <2> QED BY <2>2, <2>3
<1> QED BY <1>1, <1>2

PointStep ==
  /\ scoreR' > scoreR => scoreR' = scoreR + 1 /\ scoreL' = scoreL /\ reach.left = "missed"
  /\ scoreL' > scoreL => scoreL' = scoreL + 1 /\ scoreR' = scoreR /\ reach.right = "missed"

LEMMA PongTick ==
  ASSUME PongInv, NEW sc, Game!Tick(sc)
  PROVE  PongInv' /\ PointStep
<1>0. PICK b0, b, l, r : /\ b0 = Game!Bounce([x |-> bx + vx, y |-> by + vy, vx |-> vx, vy |-> vy])
                          /\ l = ly' /\ r = ry' /\ b = Game!HitR(Game!HitL(b0, l), r)
  OBVIOUS
<1> DEFINE outL == b.x + Ball < 0
           outR == b.x > W
           won  == (outL /\ scoreR' >= ScoreWin) \/ (outR /\ scoreL' >= ScoreWin)
<1>2. /\ state = "play"
      /\ scoreR' = scoreR + (IF outL THEN 1 ELSE 0)
      /\ scoreL' = scoreL + (IF outR THEN 1 ELSE 0)
      /\ IF won THEN state' = "win" /\ Game!SetBall(b) /\ reach' = Game!Noted(b0, l, r)
         ELSE /\ UNCHANGED state
              /\ IF outL \/ outR THEN Game!ServeTo(IF outL THEN 1 ELSE -1)
                 ELSE Game!SetBall(b) /\ reach' = Game!Noted(b0, l, r)
  BY <1>0 DEF Game!Tick
<1>5. bx \in Int /\ vx \in Int /\ -MaxSpeed <= vx /\ vx <= MaxSpeed
  BY Faces DEF PongInv, Speeds
<1>4. b0.x = bx + vx /\ b0.vx = vx /\ IsBall(b0)
  <2>1. PICK m : m = [x |-> bx + vx, y |-> by + vy, vx |-> vx, vy |-> vy]
    OBVIOUS
  <2>2. Whole(m) /\ m.x = bx + vx /\ m.vx = vx
    BY <2>1 DEF Whole
  <2> QED BY <1>0, <1>5, <2>1, <2>2, Bounced, Faces DEF IsBall
<1>3. Passes(b0, b, l, r) \/ OffLeft(b0, b, l) \/ OffRight(b0, b, r)
  BY <1>0, <1>4, Flight
<1>10. bx + Ball >= 0 /\ bx <= W /\ W \in Nat /\ Ball \in Nat /\ PaddleW \in Nat /\ MaxSpeed \in Nat
  BY <1>2, Faces DEF PongInv, Inside, InPlay
<1>6. b.x \in Int /\ b.vx \in -MaxSpeed .. MaxSpeed
  BY <1>3, <1>4, <1>5, Faces DEF Passes, OffLeft, OffRight
<1>7. outL => reach.left = "missed" /\ ~outR
  <2>1. SUFFICES ASSUME outL PROVE reach.left = "missed" /\ ~outR
    OBVIOUS
  <2>2. b = b0
    BY <1>3, <2>1, Faces DEF Passes, OffLeft, OffRight
  <2>3. vx < 0 /\ bx <= Game!LeftFace + PaddleW
    <3>1. bx + vx + Ball < 0
      BY <2>1, <2>2, <1>4
    <3>2. vx < 0
      BY <3>1, <1>5, <1>10
    <3>3. bx < MaxSpeed - Ball
      BY <3>1, <1>5, <1>10
    <3> QED BY <3>2, <3>3, <1>5, <1>10, Faces
  <2>4. reach.left = "missed"
    BY <2>3, <1>2, <1>5, <1>10, Faces DEF PongInv, LeftOpen, InPlay
  <2>5. ~outR
    BY <2>1, <1>6, <1>10
  <2> QED BY <2>4, <2>5
<1>8. outR => reach.right = "missed"
  <2>1. SUFFICES ASSUME outR PROVE reach.right = "missed"
    OBVIOUS
  <2>2. b = b0
    BY <1>3, <2>1, Faces DEF Passes, OffLeft, OffRight
  <2>3. bx + vx > W
    BY <2>1, <2>2, <1>4
  <2>4. vx > 0 /\ bx + Ball >= Game!RightFace
    <3>1. vx > 0
      BY <2>3, <1>5, <1>10
    <3>2. bx > W - MaxSpeed
      BY <2>3, <1>5, <1>10
    <3> QED BY <3>1, <3>2, <1>5, <1>10, Faces
  <2> QED BY <2>4, <1>2, <1>5, Faces DEF PongInv, RightOpen, InPlay
<1>9. PointStep /\ Scores'
  BY <1>2, <1>7, <1>8 DEF PointStep, PongInv, Scores
<1>11. Speeds'
  <2>1. Game!ServeTo(IF outL THEN 1 ELSE -1) => Speeds'
    BY Faces DEF Game!ServeTo, Speeds
  <2>2. Game!SetBall(b) => Speeds'
    BY <1>6 DEF Game!SetBall, Speeds
  <2> QED BY <1>2, <2>1, <2>2
<1>12. Inside'
  <2>1. CASE won
    BY <1>2, <2>1 DEF Inside, InPlay
  <2>2. CASE ~won /\ (outL \/ outR)
    BY <1>2, <2>2, <1>10, Faces DEF Inside, Game!ServeTo
  <2>3. CASE ~(outL \/ outR)
    BY <1>2, <2>3, <1>6, <1>10 DEF Inside, Game!SetBall
  <2> QED BY <2>1, <2>2, <2>3
<1>13. CASE won
  BY <1>2, <1>13, <1>9, <1>11, <1>12 DEF PongInv, LeftOpen, RightOpen, InPlay
<1>14. CASE ~won /\ (outL \/ outR)
  <2>1. Game!ServeTo(IF outL THEN 1 ELSE -1)
    BY <1>2, <1>14
  <2> QED BY <2>1, <1>9, <1>11, <1>12, Faces DEF PongInv, LeftOpen, RightOpen, Game!ServeTo
<1>15. CASE ~(outL \/ outR)
  <2>1. bx' = b.x /\ vx' = b.vx /\ reach' = Game!Noted(b0, l, r)
    BY <1>2, <1>15 DEF Game!SetBall
  <2>2. reach'.left = (IF Game!InFrontL(b0) THEN (IF Game!Covers(l, b0) THEN "none" ELSE "missed")
                       ELSE IF b0.vx > 0 THEN "none" ELSE reach.left)
    BY <2>1 DEF Game!Noted
  <2>3. reach'.right = (IF Game!InFrontR(b0) THEN (IF Game!Covers(r, b0) THEN "none" ELSE "missed")
                        ELSE IF b0.vx < 0 THEN "none" ELSE reach.right)
    BY <2>1 DEF Game!Noted
  <2>4. LeftOpen'
    <3>1. SUFFICES ASSUME b.vx < 0, reach'.left # "missed", b.x <= Game!LeftFace + PaddleW PROVE FALSE
      BY <2>1, <1>6, Faces DEF LeftOpen
    <3>2. b = b0 /\ ~(Game!InFrontL(b0) /\ Game!Covers(l, b0))
      BY <3>1, <1>3, Faces DEF Passes, OffLeft, OffRight
    <3>3. ~Game!InFrontL(b0) /\ reach.left # "missed"
      BY <3>1, <3>2, <2>2, <1>6
    <3>4. b0.x + Ball < Game!LeftFace
      BY <3>1, <3>2, <3>3, <1>6, Faces DEF Game!InFrontL
    <3>5. bx <= Game!LeftFace + PaddleW
      BY <3>4, <1>4, <1>5, Faces
    <3> QED BY <3>1, <3>2, <3>3, <3>5, <1>2, <1>4, <1>5, Faces DEF PongInv, LeftOpen, InPlay
  <2>5. RightOpen'
    <3>1. SUFFICES ASSUME b.vx > 0, reach'.right # "missed", b.x + Ball >= Game!RightFace PROVE FALSE
      BY <2>1, <1>6, Faces DEF RightOpen
    <3>2. b = b0 /\ ~(Game!InFrontR(b0) /\ Game!Covers(r, b0))
      BY <3>1, <1>3, Faces DEF Passes, OffLeft, OffRight
    <3>3. ~Game!InFrontR(b0) /\ reach.right # "missed"
      BY <3>1, <3>2, <2>3, <1>6
    <3>4. b0.x > Game!RightFace + PaddleW
      BY <3>1, <3>2, <3>3, <1>6, Faces DEF Game!InFrontR
    <3>5. bx + Ball >= Game!RightFace
      BY <3>4, <1>4, <1>5, Faces
    <3> QED BY <3>1, <3>2, <3>3, <3>5, <1>2, <1>4, <1>5, Faces DEF PongInv, RightOpen, InPlay
  <2> QED BY <2>4, <2>5, <1>9, <1>11, <1>12 DEF PongInv
<1> QED BY <1>9, <1>13, <1>14, <1>15

LEMMA PongInit == PartsInit => PongInv
BY Faces DEF PartsInit, Game!Init, PongInv, LeftOpen, RightOpen, Inside, InPlay, Speeds, Scores

LEMMA Serving ==
  ASSUME Game!ServeTo(1)
  PROVE  LeftOpen' /\ RightOpen' /\ Inside' /\ Speeds'
BY Faces DEF Game!ServeTo, LeftOpen, RightOpen, Inside, Speeds

LEMMA PongNext == PongInv /\ Game!Next => PongInv' /\ PointStep
<1> SUFFICES ASSUME PongInv, Game!Next PROVE PongInv' /\ PointStep
  OBVIOUS
<1>1. ASSUME NEW sc \in Game!Bytes, Game!Tick(sc) PROVE PongInv' /\ PointStep
  BY <1>1, PongTick
<1>2. CASE Game!Start
  BY <1>2, Serving DEF Game!Start, PongInv, PointStep, Scores
<1>3. CASE Game!Toggle
  BY <1>3 DEF Game!Toggle, Game!paddles, Game!ball, Game!keys, Game!score,
              PongInv, LeftOpen, RightOpen, Inside, InPlay, Speeds, Scores, PointStep
<1>4. ASSUME NEW sc \in Game!Bytes, Game!OtherKey(sc) PROVE PongInv' /\ PointStep
  <2>1. UNCHANGED <<state, bx, vx, scoreL, scoreR, reach>>
    BY <1>4 DEF Game!OtherKey, Game!ball, Game!score
  <2> QED BY <2>1 DEF PongInv, LeftOpen, RightOpen, Inside, InPlay, Speeds, Scores, PointStep
<1>5. CASE Game!Open
  BY <1>5, Faces DEF Game!Open, PongInv, LeftOpen, RightOpen, Inside, InPlay, Speeds, Scores, PointStep
<1> QED BY <1>1, <1>2, <1>3, <1>4, <1>5 DEF Game!Next, Game!EnterKey, Game!NewGame

LEMMA PongSteps == [PartsNext]_partVars => Game!Next \/ UNCHANGED pongVars
BY DEF PartsNext, partVars, NetTurn, CalcTurn, PuzzleTurn, AtaTurn, CardTurn, PageTurn, BodyTurn, Rendering, Browsing, Game!Next

(* A point in Pong is scored only after the ball was in front of the paddle *)
(* of that side and the paddle did not cover it.                            *)
THEOREM NoJump == PartsSpec => PointOnlyOnMiss
<1>1. PongInv /\ UNCHANGED pongVars => PongInv'
  BY DEF pongVars, PongInv, LeftOpen, RightOpen, Inside, InPlay, Speeds, Scores
<1>2. PongInv /\ [PartsNext]_partVars => PongInv'
  BY <1>1, PongNext, PongSteps
<1>3. PongInv /\ [PartsNext]_partVars => [PointStep]_(Game!vars)
  BY PongNext, PongSteps DEF pongVars, Game!vars, Game!paddles, Game!ball, Game!keys, Game!score
<1>4. PartsSpec => [][PointStep]_(Game!vars)
  BY <1>2, <1>3, PongInit, PTL DEF PartsSpec
<1> QED BY <1>4 DEF PointOnlyOnMiss, Game!PointOnlyOnMiss, PointStep

(***************************************************************************)
(* The puzzle: every board can be put in order.                            *)
(***************************************************************************)
(* The inversions of a board t, those without cell j, and the cells that   *)
(* make an inversion with j.                                               *)
Inverted(t) == {p \in Fifteen!Cells \X Fifteen!Cells : p[1] < p[2] /\ t[p[1]] > t[p[2]] /\ t[p[2]] # 0}
Without(t, j) == {p \in Inverted(t) : p[1] # j /\ p[2] # j}
Against(t, j) ==
  {k \in Fifteen!Cells : (k < j /\ t[k] > t[j] /\ t[j] # 0) \/ (j < k /\ t[j] > t[k] /\ t[k] # 0)}

Board == [Fifteen!Cells -> Fifteen!Cells]

LEMMA CellsFinite == IsFiniteSet(Fifteen!Cells) /\ Fifteen!Cells \subseteq Nat /\ Fifteen!Last \in Nat
<1>1. Rows * Cols - 1 \in Nat
  BY BoardAssumption
<1>2. IsFiniteSet(0 .. Rows * Cols - 1)
  BY <1>1, FS_Interval
<1> QED BY <1>1, <1>2 DEF Fifteen!Cells, Fifteen!Last

LEMMA InvertedFinite ==
  ASSUME NEW t
  PROVE  IsFiniteSet(Inverted(t))
<1>1. IsFiniteSet(Fifteen!Cells \X Fifteen!Cells)
  BY CellsFinite, FS_Product
<1>2. Inverted(t) \in SUBSET (Fifteen!Cells \X Fifteen!Cells)
  BY DEF Inverted
<1> QED BY <1>1, <1>2, FS_Subset

\* A set is its two parts.
LEMMA TwoParts ==
  ASSUME NEW S, NEW A, NEW B, IsFiniteSet(S), S = A \cup B, A \cap B = {}
  PROVE  /\ IsFiniteSet(A) /\ IsFiniteSet(B)
         /\ Cardinality(A) \in Nat /\ Cardinality(B) \in Nat
         /\ Cardinality(S) = Cardinality(A) + Cardinality(B)
<1>1. IsFiniteSet(A) /\ IsFiniteSet(B)
  <2>1. A \in SUBSET S /\ B \in SUBSET S
    OBVIOUS
  <2> QED BY <2>1, FS_Subset
<1>2. Cardinality(A) \in Nat /\ Cardinality(B) \in Nat
  BY <1>1, FS_CardinalityType
<1>3. Cardinality(A \cap B) = 0
  BY FS_EmptySet
<1>4. Cardinality(A \cup B) = Cardinality(A) + Cardinality(B) - Cardinality(A \cap B)
  BY <1>1, FS_Union
<1> QED BY <1>1, <1>2, <1>3, <1>4

\* The inversions with a cell are as many as the cells against it.
LEMMA CountedAt ==
  ASSUME NEW t \in Board, NEW j \in Fifteen!Cells
  PROVE  /\ IsFiniteSet(Against(t, j)) /\ Cardinality(Against(t, j)) \in Nat
         /\ IsFiniteSet(Without(t, j)) /\ Cardinality(Without(t, j)) \in Nat
         /\ Cardinality(Inverted(t)) = Cardinality(Without(t, j)) + Cardinality(Against(t, j))
<1> DEFINE with == Inverted(t) \ Without(t, j)
           f == [p \in with |-> IF p[1] = j THEN p[2] ELSE p[1]]
<1>1. Inverted(t) = Without(t, j) \cup with /\ Without(t, j) \cap with = {}
  BY DEF Without
<1>2. /\ IsFiniteSet(Without(t, j)) /\ IsFiniteSet(with)
      /\ Cardinality(Without(t, j)) \in Nat /\ Cardinality(with) \in Nat
      /\ Cardinality(Inverted(t)) = Cardinality(Without(t, j)) + Cardinality(with)
  <2>1. IsFiniteSet(Inverted(t))
    BY InvertedFinite
  <2> HIDE DEF with
  <2> QED BY <1>1, <2>1, TwoParts
<1>3. \A p \in with : /\ p = <<p[1], p[2]>> /\ p[1] \in Fifteen!Cells /\ p[2] \in Fifteen!Cells
                      /\ p[1] < p[2] /\ t[p[1]] > t[p[2]] /\ t[p[2]] # 0 /\ (p[1] = j \/ p[2] = j)
  BY DEF Inverted, Without
<1>4. \A k \in Fifteen!Cells : k \in Nat /\ t[k] \in Nat
  BY CellsFinite DEF Board
<1>5. \A p \in with : f[p] \in Against(t, j)
  BY <1>3, <1>4 DEF Against
<1>6. \A p, q \in with : f[p] = f[q] => p = q
  <2> SUFFICES ASSUME NEW p \in with, NEW q \in with, f[p] = f[q] PROVE p[1] = q[1] /\ p[2] = q[2]
    BY <1>3
  <2> QED BY <1>3, <1>4
<1>7. \A k \in Against(t, j) : \E p \in with : f[p] = k
  <2> SUFFICES ASSUME NEW k \in Against(t, j) PROVE \E p \in with : f[p] = k
    OBVIOUS
  <2>1. k \in Fifteen!Cells /\ k # j
    BY <1>4 DEF Against
  <2>2. CASE k < j /\ t[k] > t[j] /\ t[j] # 0
    <3>1. <<k, j>> \in with
      BY <2>1, <2>2 DEF Inverted, Without
    <3> QED BY <3>1, <2>1
  <2>3. CASE j < k /\ t[j] > t[k] /\ t[k] # 0
    <3>1. <<j, k>> \in with
      BY <2>1, <2>3 DEF Inverted, Without
    <3> QED BY <3>1, <2>1
  <2> QED BY <2>2, <2>3 DEF Against
<1>8. f \in Bijection(with, Against(t, j))
  BY <1>5, <1>6, <1>7 DEF Bijection, Injection, Surjection, IsInjective
<1>9. ExistsBijection(with, Against(t, j))
  BY <1>8 DEF ExistsBijection
<1>10. IsFiniteSet(Against(t, j)) /\ Cardinality(Against(t, j)) = Cardinality(with)
  BY <1>2, <1>9, FS_Bijection
<1> QED BY <1>2, <1>10

\* What a board is when the tile at c has slid into the blank at b.
Slid(t, b, c) == [t EXCEPT ![b] = t[c], ![c] = 0]
Proper(t, b) ==
  /\ t \in Board /\ b \in Fifteen!Cells /\ t[b] = 0
  /\ \A i, k \in Fifteen!Cells : t[i] = t[k] => i = k
  /\ \A v \in Fifteen!Cells : \E i \in Fifteen!Cells : t[i] = v

LEMMA SlideProper ==
  ASSUME NEW t, NEW b, NEW c \in Fifteen!Cells, Proper(t, b), c # b
  PROVE  /\ Proper(Slid(t, b, c), c)
         /\ Slid(t, b, c)[b] = t[c] /\ t[c] # 0
         /\ \A k \in Fifteen!Cells : k \notin {b, c} => Slid(t, b, c)[k] = t[k]
<1> PICK u : u = Slid(t, b, c)
  OBVIOUS
<1>1. t \in Board /\ b \in Fifteen!Cells /\ t[b] = 0
  BY DEF Proper
<1>2. u \in Board /\ u[b] = t[c] /\ u[c] = 0 /\ \A k \in Fifteen!Cells : k \notin {b, c} => u[k] = t[k]
  BY <1>1 DEF Slid, Board
<1>3. t[c] # 0
  BY <1>1 DEF Proper
<1>4. \A i, k \in Fifteen!Cells : u[i] = u[k] => i = k
  BY <1>1, <1>2 DEF Proper
<1>5. ASSUME NEW v \in Fifteen!Cells PROVE \E i \in Fifteen!Cells : u[i] = v
  <2>1. PICK i \in Fifteen!Cells : t[i] = v
    BY DEF Proper
  <2> QED BY <2>1, <1>1, <1>2
<1> QED BY <1>2, <1>3, <1>4, <1>5 DEF Proper

\* A tile that slides over others changes the order with those only: with
\* each of them it is out of order either before or after.
LEMMA SlideCounts ==
  ASSUME NEW t, NEW b, NEW c \in Fifteen!Cells, Proper(t, b), c # b
  PROVE  \E x, y \in Nat : /\ x + y = Fifteen!Gap(b, c) - 1
                           /\ Cardinality(Inverted(Slid(t, b, c))) + x = Cardinality(Inverted(t)) + y
<1> PICK u : u = Slid(t, b, c)
  OBVIOUS
<1>1. t \in Board /\ b \in Fifteen!Cells /\ t[b] = 0
  BY DEF Proper
<1>2. Proper(u, c) /\ u[b] = t[c] /\ t[c] # 0 /\ \A k \in Fifteen!Cells : k \notin {b, c} => u[k] = t[k]
  BY SlideProper
<1>3. u \in Board /\ u[c] = 0
  BY <1>2 DEF Proper
<1>4. \A k \in Fifteen!Cells : k \in Nat /\ t[k] \in Nat /\ u[k] \in Nat
  BY <1>1, <1>3, CellsFinite DEF Board
<1>5. Without(t, c) = Without(u, b)
  <2>1. ASSUME NEW p \in Without(t, c) PROVE p \in Without(u, b)
    <3>1. /\ p \in Fifteen!Cells \X Fifteen!Cells /\ p[1] \in Fifteen!Cells /\ p[2] \in Fifteen!Cells
          /\ p[1] < p[2] /\ t[p[1]] > t[p[2]] /\ t[p[2]] # 0 /\ p[1] # c /\ p[2] # c
      BY DEF Without, Inverted
    <3>2. p[1] # b /\ p[2] # b
      BY <3>1, <1>1, <1>4
    <3>3. u[p[1]] = t[p[1]] /\ u[p[2]] = t[p[2]]
      BY <3>1, <3>2, <1>2
    <3> QED BY <3>1, <3>2, <3>3 DEF Without, Inverted
  <2>2. ASSUME NEW p \in Without(u, b) PROVE p \in Without(t, c)
    <3>1. /\ p \in Fifteen!Cells \X Fifteen!Cells /\ p[1] \in Fifteen!Cells /\ p[2] \in Fifteen!Cells
          /\ p[1] < p[2] /\ u[p[1]] > u[p[2]] /\ u[p[2]] # 0 /\ p[1] # b /\ p[2] # b
      BY DEF Without, Inverted
    <3>2. p[1] # c /\ p[2] # c
      BY <3>1, <1>3, <1>4
    <3>3. u[p[1]] = t[p[1]] /\ u[p[2]] = t[p[2]]
      BY <3>1, <3>2, <1>2
    <3> QED BY <3>1, <3>2, <3>3 DEF Without, Inverted
  <2> QED BY <2>1, <2>2
<1> DEFINE lo == IF b < c THEN b ELSE c
           hi == IF b < c THEN c ELSE b
           between == lo + 1 .. hi - 1
           far == Against(t, c) \ between
           before == Against(t, c) \cap between
           after == Against(u, b) \cap between
<1>6. b \in Nat /\ c \in Nat /\ lo \in Nat /\ hi \in Nat /\ lo < hi /\ hi - lo = Fifteen!Gap(b, c)
  BY <1>1, <1>4 DEF Fifteen!Gap
<1>7. between \subseteq Fifteen!Cells /\ b \notin between /\ c \notin between
  BY <1>1, <1>6, CellsFinite DEF Fifteen!Cells, Fifteen!Last
<1>8. Against(u, b) \ between = far
  <2>1. ASSUME NEW k \in Fifteen!Cells, k \notin between PROVE k \in Against(t, c) <=> k \in Against(u, b)
    <3>1. CASE k = b \/ k = c
      BY <3>1, <1>1, <1>2, <1>3, <1>4 DEF Against
    <3>2. CASE k # b /\ k # c
      <4>1. u[k] = t[k] /\ k \in Nat /\ t[k] \in Nat /\ t[c] \in Nat
        BY <3>2, <1>2, <1>4
      <4>2. k < lo \/ k > hi
        BY <2>1, <3>2, <4>1, <1>6
      <4> QED BY <4>1, <4>2, <1>2, <1>6 DEF Against
    <3> QED BY <3>1, <3>2
  <2> QED BY <2>1 DEF Against
<1>9. between = before \cup after /\ before \cap after = {}
  <2>1. ASSUME NEW k \in between PROVE k \in Against(t, c) <=> ~(k \in Against(u, b))
    <3>1. k \in Fifteen!Cells /\ k # b /\ k # c /\ k \in Nat /\ t[k] \in Nat /\ t[c] \in Nat /\ u[k] = t[k]
      BY <1>2, <1>4, <1>7
    <3>2. t[k] # t[c] /\ t[k] # 0
      BY <3>1, <1>1 DEF Proper
    <3>3. CASE b < c
      <4>1. b < k /\ k < c
        BY <3>1, <3>3, <1>6
      <4> QED BY <4>1, <3>1, <3>2, <1>2, <1>6 DEF Against
    <3>4. CASE c < b
      <4>1. c < k /\ k < b
        BY <3>1, <3>4, <1>6
      <4> QED BY <4>1, <3>1, <3>2, <1>2, <1>6 DEF Against
    <3> QED BY <3>3, <3>4, <1>6
  <2> QED BY <2>1
<1>10. IsFiniteSet(between) /\ Cardinality(between) = Fifteen!Gap(b, c) - 1
  <2>1. lo + 1 \in Int /\ hi - 1 \in Int
    BY <1>6
  <2>2. IsFiniteSet(between) /\ Cardinality(between) = IF lo + 1 > hi - 1 THEN 0 ELSE hi - 1 - (lo + 1) + 1
    BY <2>1, FS_Interval
  <2> QED BY <2>2, <1>6
<1>11. /\ Cardinality(before) \in Nat /\ Cardinality(after) \in Nat
       /\ Cardinality(before) + Cardinality(after) = Fifteen!Gap(b, c) - 1
  <2>1. IsFiniteSet(between) /\ between = before \cup after /\ before \cap after = {}
    BY <1>9, <1>10
  <2> HIDE DEF between, before, after
  <2>2. Cardinality(before) \in Nat
    BY <2>1, TwoParts
  <2>3. Cardinality(after) \in Nat
    BY <2>1, TwoParts
  <2>4. Cardinality(between) = Cardinality(before) + Cardinality(after)
    BY <2>1, TwoParts
  <2> QED BY <2>2, <2>3, <2>4, <1>10
<1>12. /\ Cardinality(Without(t, c)) \in Nat /\ IsFiniteSet(Against(t, c)) /\ IsFiniteSet(Against(u, b))
       /\ Cardinality(Inverted(t)) = Cardinality(Without(t, c)) + Cardinality(Against(t, c))
       /\ Cardinality(Inverted(u)) = Cardinality(Without(t, c)) + Cardinality(Against(u, b))
  BY <1>1, <1>3, <1>5, CountedAt
<1>13. Cardinality(far) \in Nat /\ Cardinality(Against(t, c)) = Cardinality(far) + Cardinality(before)
  <2>1. Against(t, c) = far \cup before /\ far \cap before = {}
    OBVIOUS
  <2> QED BY <2>1, <1>12, TwoParts
<1>14. Cardinality(Against(u, b)) = Cardinality(far) + Cardinality(after)
  <2>1. Against(u, b) = far \cup after /\ far \cap after = {}
    BY <1>8
  <2> QED BY <2>1, <1>12, TwoParts
<1>15. Cardinality(Inverted(u)) + Cardinality(before) = Cardinality(Inverted(t)) + Cardinality(after)
  BY <1>11, <1>12, <1>13, <1>14
<1> QED BY <1>11, <1>15

\* The row and column of a cell.
LEMMA Division ==
  ASSUME NEW x \in Nat
  PROVE  /\ Fifteen!Row(x) \in Nat /\ Fifteen!Col(x) \in Nat /\ Fifteen!Col(x) < Cols
         /\ x = Cols * Fifteen!Row(x) + Fifteen!Col(x)
BY BoardAssumption DEF Fifteen!Row, Fifteen!Col

\* A neighbour is beside the cell, or as many cells away as a row has and
\* one row up or down.
LEMMA Beside ==
  ASSUME NEW b \in Fifteen!Cells, NEW c \in Fifteen!Neighbours(b)
  PROVE  /\ c \in Fifteen!Cells /\ c # b /\ Fifteen!Row(b) \in Nat /\ Fifteen!Row(c) \in Nat
         /\ \/ Fifteen!Gap(b, c) = 1 /\ Fifteen!Row(c) = Fifteen!Row(b)
            \/ /\ Fifteen!Gap(b, c) = Cols
               /\ Fifteen!Row(c) = Fifteen!Row(b) + 1 \/ Fifteen!Row(b) = Fifteen!Row(c) + 1
<1> PICK rb, rc, cb, cc : rb = Fifteen!Row(b) /\ rc = Fifteen!Row(c) /\ cb = Fifteen!Col(b) /\ cc = Fifteen!Col(c)
  OBVIOUS
<1>1. c \in Fifteen!Cells /\ Fifteen!Gap(rb, rc) + Fifteen!Gap(cb, cc) = 1
  BY DEF Fifteen!Neighbours, Fifteen!Distance
<1>2. b \in Nat /\ c \in Nat /\ Cols \in Nat
  BY <1>1, CellsFinite, BoardAssumption
<1>3. rb \in Nat /\ cb \in Nat /\ rc \in Nat /\ cc \in Nat
  BY <1>2, Division
<1>4. b = Cols * rb + cb /\ c = Cols * rc + cc
  BY <1>2, Division
<1>5. \/ rb = rc /\ (cb = cc + 1 \/ cc = cb + 1)
      \/ cb = cc /\ (rb = rc + 1 \/ rc = rb + 1)
  BY <1>1, <1>3 DEF Fifteen!Gap
<1>6. CASE rb = rc /\ (cb = cc + 1 \/ cc = cb + 1)
  <2> PICK z : z = Cols * rb
    OBVIOUS
  <2>1. z \in Nat /\ b = z + cb /\ c = z + cc
    BY <1>2, <1>3, <1>4, <1>6
  <2>2. Fifteen!Gap(b, c) = 1 /\ c # b
    BY <2>1, <1>3, <1>6 DEF Fifteen!Gap
  <2> QED BY <2>2, <1>1, <1>3, <1>6
<1>7. CASE cb = cc /\ (rb = rc + 1 \/ rc = rb + 1)
  <2>1. Cols * (rb + 1) = Cols * rb + Cols /\ Cols * (rc + 1) = Cols * rc + Cols
    BY <1>2, <1>3
  <2> PICK y, z : y = Cols * rb /\ z = Cols * rc
    OBVIOUS
  <2>2. y \in Nat /\ z \in Nat
    BY <1>2, <1>3
  <2>3. z = y + Cols \/ y = z + Cols
    BY <2>1, <1>7
  <2>4. b = y + cb /\ c = z + cb /\ Cols > 0
    BY <1>4, <1>7, BoardAssumption
  <2>5. CASE z = y + Cols
    <3>1. c = b + Cols
      BY <2>2, <2>4, <2>5, <1>2, <1>3
    <3>2. Fifteen!Gap(b, c) = Cols /\ c # b
      BY <3>1, <2>4, <1>2 DEF Fifteen!Gap
    <3> QED BY <3>2, <1>1, <1>3, <1>7
  <2>6. CASE y = z + Cols
    <3>1. b = c + Cols
      BY <2>2, <2>4, <2>6, <1>2, <1>3
    <3>2. Fifteen!Gap(b, c) = Cols /\ c # b
      BY <3>1, <2>4, <1>2 DEF Fifteen!Gap
    <3> QED BY <3>2, <1>1, <1>3, <1>7
  <2> QED BY <2>3, <2>5, <2>6
<1> QED BY <1>5, <1>6, <1>7

\* Whether the order of the tiles has the parity the blank's row asks for.
Even(t, b) ==
  Cardinality(Inverted(t)) % 2 = IF Cols % 2 = 1 THEN 0 ELSE (Rows - 1 - Fifteen!Row(b)) % 2

LEMMA Parities ==
  ASSUME NEW m \in Nat, NEW n \in Nat, NEW x \in Nat, NEW y \in Nat, n + x = m + y
  PROVE  n % 2 = IF (x + y) % 2 = 0 THEN m % 2 ELSE 1 - (m % 2)
OBVIOUS

LEMMA SlideEven ==
  ASSUME NEW t, NEW b, NEW c \in Fifteen!Neighbours(b), Proper(t, b), Even(t, b)
  PROVE  Proper(Slid(t, b, c), c) /\ Even(Slid(t, b, c), c)
<1>1. b \in Fifteen!Cells
  BY DEF Proper
<1>2. PICK rb, rc \in Nat : rb = Fifteen!Row(b) /\ rc = Fifteen!Row(c)
  BY <1>1, Beside
<1>3. /\ c \in Fifteen!Cells /\ c # b
      /\ \/ Fifteen!Gap(b, c) = 1 /\ rc = rb
         \/ Fifteen!Gap(b, c) = Cols /\ (rc = rb + 1 \/ rb = rc + 1)
  BY <1>1, <1>2, Beside
<1>4. PICK x, y \in Nat : /\ x + y = Fifteen!Gap(b, c) - 1
                          /\ Cardinality(Inverted(Slid(t, b, c))) + x = Cardinality(Inverted(t)) + y
  BY <1>3, SlideCounts
<1>5. PICK m, n \in Nat : m = Cardinality(Inverted(t)) /\ n = Cardinality(Inverted(Slid(t, b, c)))
  BY InvertedFinite, FS_CardinalityType
<1>6. n % 2 = IF (x + y) % 2 = 0 THEN m % 2 ELSE 1 - (m % 2)
  <2>1. n + x = m + y
    BY <1>4, <1>5
  <2> QED BY <2>1, Parities
<1>7. m % 2 = IF Cols % 2 = 1 THEN 0 ELSE (Rows - 1 - rb) % 2
  BY <1>2, <1>5 DEF Even
<1>8. n % 2 = IF Cols % 2 = 1 THEN 0 ELSE (Rows - 1 - rc) % 2
  <2>1. CASE x + y = 0 /\ rc = rb
    BY <2>1, <1>6, <1>7
  <2>2. CASE x + y = Cols - 1 /\ (rc = rb + 1 \/ rb = rc + 1)
    BY <2>2, <1>6, <1>7, BoardAssumption
  <2> QED BY <1>3, <1>4, <2>1, <2>2
<1>9. Even(Slid(t, b, c), c)
  BY <1>2, <1>5, <1>8 DEF Even
<1> QED BY <1>3, <1>9, SlideProper

LEMMA OrderedEven == Proper(Fifteen!Ordered, Fifteen!Last) /\ Even(Fifteen!Ordered, Fifteen!Last)
<1> PICK t, z : t = Fifteen!Ordered /\ z = Fifteen!Last
  OBVIOUS
<1>1. z \in Nat /\ Fifteen!Cells = 0 .. z
  BY CellsFinite DEF Fifteen!Cells, Fifteen!Last
<1>2. t = [c \in 0 .. z |-> IF c = z THEN 0 ELSE c + 1]
  BY <1>1 DEF Fifteen!Ordered
<1>3. Proper(t, z)
  <2>1. t \in Board /\ z \in Fifteen!Cells /\ t[z] = 0
    BY <1>1, <1>2 DEF Board
  <2>2. \A i, k \in Fifteen!Cells : t[i] = t[k] => i = k
    BY <1>1, <1>2
  <2>3. ASSUME NEW v \in Fifteen!Cells PROVE \E i \in Fifteen!Cells : t[i] = v
    <3>1. CASE v = 0
      BY <3>1, <2>1
    <3>2. CASE v # 0
      <4>1. v - 1 \in 0 .. z /\ t[v - 1] = v
        BY <1>1, <1>2, <3>2
      <4> QED BY <4>1, <1>1
    <3> QED BY <3>1, <3>2
  <2> QED BY <2>1, <2>2, <2>3 DEF Proper
<1>4. Inverted(t) = {}
  <2> SUFFICES ASSUME NEW p \in Inverted(t) PROVE FALSE
    OBVIOUS
  <2>1. p[1] \in 0 .. z /\ p[2] \in 0 .. z /\ p[1] < p[2] /\ t[p[1]] > t[p[2]] /\ t[p[2]] # 0
    BY <1>1 DEF Inverted
  <2> QED BY <2>1, <1>1, <1>2
<1>5. Cardinality(Inverted(t)) = 0
  BY <1>4, FS_EmptySet
<1>6. Rows - 1 - Fifteen!Row(z) = 0
  <2>1. PICK r, c \in Nat : r = Fifteen!Row(z) /\ c < Cols /\ z = Cols * r + c
    BY <1>1, Division
  <2>2. z = Rows * Cols - 1 /\ Rows \in Nat /\ Cols \in Nat
    BY BoardAssumption DEF Fifteen!Last
  <2>3. r + 1 <= Rows
    <3> SUFFICES ASSUME Rows <= r PROVE FALSE
      BY <2>2
    <3>1. Rows * Cols <= Cols * r
      BY <2>2
    <3> QED BY <3>1, <2>1, <2>2
  <2>4. Rows <= r + 1
    <3> SUFFICES ASSUME r + 2 <= Rows PROVE FALSE
      BY <2>2
    <3>1. Cols * (r + 2) <= Rows * Cols
      BY <2>2
    <3>2. Cols * (r + 2) = Cols * r + Cols + Cols
      BY <2>2
    <3> QED BY <3>1, <3>2, <2>1, <2>2
  <2> QED BY <2>1, <2>2, <2>3, <2>4
<1>7. Even(t, z)
  BY <1>5, <1>6 DEF Even
<1> QED BY <1>3, <1>7

(* Between the shuffle's moves "solved" is not kept. *)
BoardInv ==
  /\ Proper(tiles, blank) /\ Even(tiles, blank)
  /\ left \in Int /\ (Fifteen!Playing => solved = Fifteen!IsSolved(tiles))

LEMMA MoveBoard ==
  ASSUME BoardInv, NEW c \in Fifteen!Neighbours(blank), Fifteen!Slide(c)
  PROVE  Proper(tiles, blank)' /\ Even(tiles, blank)'
<1>1. tiles' = Slid(tiles, blank, c) /\ blank' = c
  BY DEF Fifteen!Slide, Slid
<1>2. Proper(tiles', blank') /\ Even(tiles', blank')
  BY <1>1, SlideEven DEF BoardInv
<1> QED BY <1>2 DEF Proper, Even, Inverted

LEMMA NewBoard == Fifteen!NewGame => BoardInv'
<1> SUFFICES ASSUME Fifteen!NewGame PROVE BoardInv'
  OBVIOUS
<1>1. Proper(tiles', blank') /\ Even(tiles', blank')
  BY OrderedEven DEF Fifteen!NewGame
<1>2. left' \in Nat
  BY BoardAssumption DEF Fifteen!NewGame
<1> QED BY <1>1, <1>2 DEF BoardInv, Proper, Even, Inverted, Fifteen!Playing

LEMMA BoardNext == BoardInv /\ Fifteen!Next => BoardInv'
<1> SUFFICES ASSUME BoardInv, Fifteen!Next PROVE BoardInv'
  OBVIOUS
<1>1. CASE Fifteen!Shuffle
  <2>1. PICK c \in Fifteen!Neighbours(blank) : Fifteen!Slide(c)
    BY <1>1 DEF Fifteen!Shuffle, Fifteen!Choices
  <2>2. left' \in Int /\ left' # -1
    BY <1>1 DEF Fifteen!Shuffle, BoardInv
  <2> QED BY <2>1, <2>2, MoveBoard DEF BoardInv, Fifteen!Playing
<1>2. CASE Fifteen!Shuffled
  BY <1>2 DEF Fifteen!Shuffled, BoardInv, Proper, Even, Inverted, Fifteen!Playing
<1>3. ASSUME NEW c \in Fifteen!Neighbours(blank), Fifteen!Moved(c) PROVE BoardInv'
  BY <1>3, MoveBoard DEF Fifteen!Moved, BoardInv, Fifteen!Playing, Fifteen!IsSolved
<1>4. CASE Fifteen!Restart
  BY <1>4, NewBoard DEF Fifteen!Restart
<1> QED BY <1>1, <1>2, <1>3, <1>4 DEF Fifteen!Next, Fifteen!ArrowKey, Fifteen!ClickTile

\* FiniteSets reached through the instance.
LEMMA SameCardinality == \A S : Fifteen!Cardinality(S) = Cardinality(S)
BY DEF Fifteen!Cardinality, Cardinality

LEMMA BoardSolvable == BoardInv => Fifteen!Solvable
<1> SUFFICES ASSUME BoardInv PROVE Fifteen!Solvable
  OBVIOUS
<1>1. Fifteen!Inversions = Inverted(tiles)
  BY DEF Fifteen!Inversions, Inverted
<1>2. {tiles[c] : c \in Fifteen!Cells} = Fifteen!Cells /\ tiles[blank] = 0
  BY DEF BoardInv, Proper, Board
<1> QED BY <1>1, <1>2, SameCardinality DEF BoardInv, Even, Fifteen!Solvable, Fifteen!RowsBelow, Fifteen!IsSolved
LEMMA PuzzleSteps == [PartsNext]_partVars => Fifteen!Next \/ UNCHANGED puzzleVars
BY DEF PartsNext, partVars, NetTurn, CalcTurn, PongTurn, AtaTurn, CardTurn, PageTurn, BodyTurn, Rendering, Browsing, Fifteen!Next

(* Every board the puzzle's window can show can be put in order: no tile is *)
(* lost or doubled, the order of the tiles has the parity that the blank's  *)
(* row asks for; and "solved" is shown on the ordered board only.           *)
THEOREM BoardsSolvable == PartsSpec => []Solvable
<1>1. PartsInit => BoardInv
  <2> SUFFICES ASSUME PartsInit PROVE BoardInv
    OBVIOUS
  <2>1. left \in Nat
    BY BoardAssumption DEF PartsInit, Fifteen!Init
  <2> QED BY <2>1, OrderedEven DEF PartsInit, Fifteen!Init, BoardInv, Fifteen!Playing
<1>2. BoardInv /\ UNCHANGED puzzleVars => BoardInv'
  BY DEF puzzleVars, BoardInv, Proper, Even, Inverted, Fifteen!Playing
<1>3. BoardInv /\ [PartsNext]_partVars => BoardInv'
  BY <1>2, PuzzleSteps, BoardNext
<1>4. BoardInv => Solvable
  BY BoardSolvable DEF Solvable
<1> QED BY <1>1, <1>3, <1>4, PTL DEF PartsSpec

(***************************************************************************)
(* The browser's page: what html_render does to it, token by token.        *)
(***************************************************************************)
LinkT == [line : Nat, col : Nat, len : Nat, anchor : Nat]
CellT == [kind : {"glyph", "space"}, anchor : Nat]
PageT ==
  [li : Nat \ {0}, text : [1 .. MaxLines -> Seq(CellT)], full : BOOLEAN, lastSp : BOOLEAN,
   script : BOOLEAN, style : BOOLEAN, links : Seq(LinkT),
   anchor : BOOLEAN, anchors : Nat, worthy : BOOLEAN, line : Nat, col : Nat, len : Nat]

(* No row is too long and those further down are empty; no cell is of an    *)
(* anchor that has not been opened.                                         *)
IsText(p, l, c) == c <= Len(p.text[l])
Cell(p, l, c) == p.text[l][c]
RowsFit(p) == \A l \in 1 .. MaxLines : Len(p.text[l]) <= LineW /\ (l > p.li => p.text[l] = <<>>)
Numbered(p) == \A l \in 1 .. MaxLines, c \in 1 .. LineW : IsText(p, l, c) => Cell(p, l, c).anchor <= p.anchors
(* Of a link x: its cells that have text are of its anchor; the row is left *)
(* or full as far as the link goes; an anchor of one word on one row is     *)
(* the link's cells.                                                        *)
Reached(x, l, c) == l = x.line /\ c > x.col /\ c <= x.col + x.len
Mine(p, a, l, c) == IsText(p, l, c) /\ Cell(p, l, c).anchor = a
InAnchor(p, x) ==
  \A l \in 1 .. MaxLines, c \in 1 .. LineW : Reached(x, l, c) /\ IsText(p, l, c) => Cell(p, l, c).anchor = x.anchor
Done(p, x) == x.line < p.li \/ x.line > MaxLines \/ x.col + x.len <= Len(p.text[x.line])
OneWord(p, x) ==
  \A l \in 1 .. MaxLines, c \in 1 .. LineW : Mine(p, x.anchor, l, c) => l = x.line /\ Cell(p, l, c).kind = "glyph"
Exact(p, x) ==
  OneWord(p, x) => \A l \in 1 .. MaxLines, c \in 1 .. LineW : Mine(p, x.anchor, l, c) <=> Reached(x, l, c)
LinkOK(p, x) == InAnchor(p, x) /\ Done(p, x) /\ Exact(p, x)
LinksOK(p) ==
  \A k \in DOMAIN p.links :
    LET x == p.links[k]
    IN LinkOK(p, x) /\ x.anchor >= 1 /\ x.anchor <= p.anchors /\ (p.anchor => x.anchor < p.anchors)
(* The anchor that is open, as the link it would make now; what follows its *)
(* place in the row is its own.                                             *)
Opened(p) == [line |-> p.line, col |-> p.col, len |-> p.len, anchor |-> p.anchors]
Own(p) ==
  \A l \in 1 .. MaxLines, c \in 1 .. LineW : l = p.line /\ c > p.col /\ IsText(p, l, c) => Cell(p, l, c).anchor = p.anchors
OpenOK(p) == p.anchor => LinkOK(p, Opened(p)) /\ p.anchors >= 1 /\ p.line >= 1 /\ p.line <= p.li /\ Own(p)
PageOK(p) == p \in PageT /\ RowsFit(p) /\ Numbered(p) /\ LinksOK(p) /\ OpenOK(p)

(* What a token may do: nothing to the text, or one cell more.              *)
SameLinks(p, q) ==
  q.links = p.links /\ q.anchor = p.anchor /\ q.anchors = p.anchors /\ q.line = p.line /\ q.col = p.col
Keeps(p, q) == q.li >= p.li /\ q.text = p.text /\ q.len = p.len /\ SameLinks(p, q)
NewCell(p, kind) == [kind |-> kind, anchor |-> IF p.anchor THEN p.anchors ELSE 0]
Puts(p, q, kind) ==
  /\ q.li >= p.li /\ q.li <= MaxLines /\ Len(p.text[q.li]) < LineW
  /\ q.text = [p.text EXCEPT ![q.li] = Append(@, NewCell(p, kind))]
  /\ q.len = (IF kind = "glyph" /\ p.anchor /\ p.len < MaxText THEN p.len + 1 ELSE p.len)
  /\ SameLinks(p, q)

LEMMA PageNumbers == LineW \in Nat \ {0} /\ MaxLines \in Nat /\ MaxLinks \in Nat /\ MaxText \in Nat /\ LineW <= MaxText
BY PageAssumption

LEMMA KeepsSound ==
  ASSUME NEW p, NEW q, PageOK(p), q \in PageT, Keeps(p, q)
  PROVE  PageOK(q)
<1> USE DEF Keeps, SameLinks
<1>0. p \in PageT
  BY DEF PageOK
<1>1. RowsFit(q)
  BY <1>0, PageNumbers DEF PageOK, RowsFit, PageT
<1>2. \A l, c : (IsText(q, l, c) <=> IsText(p, l, c)) /\ Cell(q, l, c) = Cell(p, l, c)
  BY DEF IsText, Cell
<1>3. Numbered(q)
  BY <1>2 DEF PageOK, Numbered
<1>4. ASSUME NEW x \in LinkT, LinkOK(p, x) PROVE LinkOK(q, x)
  <2>1. Done(q, x)
    BY <1>0, <1>4 DEF LinkOK, Done, LinkT, PageT
  <2> QED BY <1>2, <1>4, <2>1 DEF LinkOK, InAnchor, Exact, OneWord, Mine
<1>5. LinksOK(q)
  <2>1. \A k \in DOMAIN p.links : p.links[k] \in LinkT
    BY <1>0 DEF PageT
  <2> QED BY <1>4, <2>1 DEF PageOK, LinksOK
<1>6. OpenOK(q)
  <2>1. SUFFICES ASSUME p.anchor PROVE OpenOK(q)
    BY DEF OpenOK
  <2>2. Opened(q) = Opened(p) /\ Opened(p) \in LinkT
    BY <1>0 DEF Opened, PageT, LinkT
  <2>3. LinkOK(q, Opened(q))
    BY <1>4, <2>1, <2>2 DEF PageOK, OpenOK
  <2>4. Own(q)
    BY <1>2, <2>1 DEF PageOK, OpenOK, Own
  <2> QED BY <1>0, <2>1, <2>3, <2>4 DEF PageOK, OpenOK, PageT
<1> QED BY <1>1, <1>3, <1>5, <1>6 DEF PageOK

(* The one cell that is new, and the cells as they were.                    *)
LEMMA PutCells ==
  ASSUME NEW p, NEW q, NEW kind, p \in PageT, q \in PageT, kind \in {"glyph", "space"}, Puts(p, q, kind)
  PROVE  /\ q.li \in 1 .. MaxLines
         /\ \A l \in 1 .. MaxLines : Len(p.text[l]) \in Nat
         /\ \A l \in 1 .. MaxLines : l # q.li => q.text[l] = p.text[l]
         /\ Len(q.text[q.li]) = Len(p.text[q.li]) + 1
         /\ \A c \in 1 .. Len(p.text[q.li]) : q.text[q.li][c] = p.text[q.li][c]
         /\ q.text[q.li][Len(p.text[q.li]) + 1] = NewCell(p, kind)
         /\ NewCell(p, kind) \in CellT
<1>1. q.li \in 1 .. MaxLines
  BY PageNumbers DEF Puts, PageT
<1>2. NewCell(p, kind) \in CellT
  BY DEF NewCell, CellT, PageT
<1>3. p.text \in [1 .. MaxLines -> Seq(CellT)]
  BY DEF PageT
<1>4. PICK L, cell : L = q.li /\ cell = NewCell(p, kind)
  OBVIOUS
<1>5. q.text = [p.text EXCEPT ![L] = Append(@, cell)]
  BY <1>4 DEF Puts
<1>6. q.text[L] = Append(p.text[L], cell)
  BY <1>1, <1>3, <1>4, <1>5
<1>7. \A l \in 1 .. MaxLines : l # L => q.text[l] = p.text[l]
  BY <1>3, <1>5
<1>8. p.text[L] \in Seq(CellT) /\ cell \in CellT
  BY <1>1, <1>2, <1>3, <1>4
<1>9. Len(q.text[L]) = Len(p.text[L]) + 1 /\ q.text[L][Len(p.text[L]) + 1] = cell
      /\ \A c \in 1 .. Len(p.text[L]) : q.text[L][c] = p.text[L][c]
  BY <1>6, <1>8
<1>10. \A l \in 1 .. MaxLines : Len(p.text[l]) \in Nat
  BY <1>3
<1> QED BY <1>1, <1>2, <1>4, <1>7, <1>9, <1>10

LEMMA PutsSound ==
  ASSUME NEW p, NEW q, NEW kind, PageOK(p), q \in PageT, kind \in {"glyph", "space"}, Puts(p, q, kind)
  PROVE  PageOK(q)
<1>1. p \in PageT
  BY DEF PageOK
<1>2. PICK L, cell, m : L = q.li /\ cell = NewCell(p, kind) /\ m = Len(p.text[L])
  OBVIOUS
<1>3. /\ L \in 1 .. MaxLines /\ MaxLines \in Nat /\ L >= p.li /\ p.li \in Nat
      /\ m \in Nat /\ m < LineW /\ LineW \in Nat
  BY <1>1, <1>2, PutCells, PageNumbers DEF Puts, PageT
<1>4. /\ \A l \in 1 .. MaxLines : Len(p.text[l]) \in Nat
      /\ \A l \in 1 .. MaxLines : l # L => q.text[l] = p.text[l]
  BY <1>1, <1>2, PutCells
<1>5. Len(q.text[L]) = m + 1 /\ q.text[L][m + 1] = cell /\ \A c \in 1 .. m : q.text[L][c] = p.text[L][c]
  BY <1>1, <1>2, PutCells
<1>6. cell.kind = kind /\ cell.anchor = (IF p.anchor THEN p.anchors ELSE 0) /\ p.anchors \in Nat
  BY <1>1, <1>2 DEF NewCell, PageT
(* The cells of q are those of p and one more. *)
<1>7. \A l \in 1 .. MaxLines, c \in 1 .. LineW : IsText(q, l, c) <=> IsText(p, l, c) \/ (l = L /\ c = m + 1)
  <2>1. ASSUME NEW l \in 1 .. MaxLines, NEW c \in 1 .. LineW, l # L PROVE IsText(q, l, c) <=> IsText(p, l, c)
    BY <2>1, <1>4 DEF IsText
  <2>2. ASSUME NEW c \in 1 .. LineW PROVE IsText(q, L, c) <=> IsText(p, L, c) \/ c = m + 1
    <3>1. (IsText(q, L, c) <=> c <= m + 1) /\ (IsText(p, L, c) <=> c <= m)
      BY <1>2, <1>5 DEF IsText
    <3>2. c <= m + 1 <=> c <= m \/ c = m + 1
      BY <1>3
    <3> QED BY <3>1, <3>2
  <2> QED BY <2>1, <2>2
<1>8. \A l \in 1 .. MaxLines, c \in 1 .. LineW : IsText(p, l, c) => Cell(q, l, c) = Cell(p, l, c)
  <2>1. ASSUME NEW l \in 1 .. MaxLines, NEW c \in 1 .. LineW, l # L PROVE Cell(q, l, c) = Cell(p, l, c)
    BY <2>1, <1>4 DEF Cell
  <2>2. ASSUME NEW c \in 1 .. LineW, IsText(p, L, c) PROVE Cell(q, L, c) = Cell(p, L, c)
    BY <2>2, <1>2, <1>3, <1>5 DEF IsText, Cell
  <2> QED BY <2>1, <2>2
<1>9. m + 1 \in 1 .. LineW /\ ~IsText(p, L, m + 1) /\ Cell(q, L, m + 1) = cell
      /\ \A c \in 1 .. LineW : IsText(p, L, c) <=> c <= m
  <2>1. \A c \in 1 .. LineW : IsText(p, L, c) <=> c <= m
    BY <1>2 DEF IsText
  <2>2. m + 1 \in 1 .. LineW /\ ~(m + 1 <= m)
    BY <1>3
  <2>3. Cell(q, L, m + 1) = cell
    BY <1>5 DEF Cell
  <2> QED BY <2>1, <2>2, <2>3
<1>10. /\ q.links = p.links /\ q.anchor = p.anchor /\ q.anchors = p.anchors /\ q.line = p.line /\ q.col = p.col
       /\ q.len = (IF kind = "glyph" /\ p.anchor /\ p.len < MaxText THEN p.len + 1 ELSE p.len)
  BY DEF Puts, SameLinks
<1>11. RowsFit(q)
  <2>1. ASSUME NEW l \in 1 .. MaxLines, l # L PROVE Len(q.text[l]) <= LineW /\ (l > L => q.text[l] = <<>>)
    BY <2>1, <1>3, <1>4 DEF PageOK, RowsFit
  <2> QED BY <2>1, <1>2, <1>3, <1>5 DEF RowsFit
<1>12. Numbered(q)
  <2>1. SUFFICES ASSUME NEW l \in 1 .. MaxLines, NEW c \in 1 .. LineW, IsText(q, l, c)
                 PROVE  Cell(q, l, c).anchor <= p.anchors
    BY <1>10 DEF Numbered
  <2>2. CASE IsText(p, l, c)
    BY <2>2, <1>8 DEF PageOK, Numbered
  <2>3. CASE ~IsText(p, l, c)
    BY <2>1, <2>3, <1>6, <1>7, <1>9
  <2> QED BY <2>2, <2>3
<1>13. ASSUME NEW x \in LinkT, LinkOK(p, x), x.anchor # cell.anchor PROVE LinkOK(q, x)
  <2>1. x.line \in Nat /\ x.col \in Nat /\ x.len \in Nat
    BY DEF LinkT
  <2>2. x.line < L \/ x.line > MaxLines \/ (x.line \in 1 .. MaxLines /\ x.col + x.len <= Len(p.text[x.line]))
    <3>1. x.line < p.li \/ x.line > MaxLines \/ x.col + x.len <= Len(p.text[x.line])
      BY <1>13 DEF LinkOK, Done
    <3>2. x.line < L \/ x.line > MaxLines \/ x.line \in 1 .. MaxLines
      BY <1>3, <2>1
    <3>3. x.line < p.li => x.line < L
      BY <1>3, <2>1
    <3> QED BY <3>1, <3>2, <3>3
  <2>3. InAnchor(q, x)
    <3>1. SUFFICES ASSUME NEW l \in 1 .. MaxLines, NEW c \in 1 .. LineW, Reached(x, l, c), IsText(q, l, c)
                   PROVE  Cell(q, l, c).anchor = x.anchor
      BY DEF InAnchor
    <3>2. ~(l = L /\ c = m + 1)
      BY SMTT(20), <3>1, <2>1, <2>2, <1>2, <1>3 DEF Reached
    <3>3. IsText(p, l, c)
      BY <3>1, <3>2, <1>7
    <3> QED BY <3>1, <3>3, <1>8, <1>13 DEF LinkOK, InAnchor
  <2>4. Done(q, x)
    <3>1. CASE x.line < L \/ x.line > MaxLines
      BY <3>1, <1>2 DEF Done
    <3>2. CASE x.line \in 1 .. MaxLines /\ x.line # L /\ x.col + x.len <= Len(p.text[x.line])
      BY <3>2, <1>4 DEF Done
    <3>3. CASE x.line = L /\ x.col + x.len <= m
      BY <3>3, <2>1, <1>3, <1>5 DEF Done
    <3> QED BY <3>1, <3>2, <3>3, <2>2, <1>2
  <2>5. \A l \in 1 .. MaxLines, c \in 1 .. LineW : Mine(q, x.anchor, l, c) <=> Mine(p, x.anchor, l, c)
    BY <1>7, <1>8, <1>9, <1>13 DEF Mine
  <2>6. OneWord(q, x) => OneWord(p, x)
    BY <1>7, <1>8, <2>5 DEF OneWord, Mine
  <2> QED BY <2>3, <2>4, <2>5, <2>6, <1>13 DEF LinkOK, Exact
<1>14. LinksOK(q)
  <2>1. SUFFICES ASSUME NEW k \in DOMAIN p.links
                 PROVE  LET x == p.links[k]
                        IN LinkOK(q, x) /\ x.anchor >= 1 /\ x.anchor <= p.anchors /\ (p.anchor => x.anchor < p.anchors)
    BY <1>10 DEF LinksOK
  <2>2. PICK x : x = p.links[k]
    OBVIOUS
  <2>3. x \in LinkT
    BY <1>1, <2>2 DEF PageT
  <2>4. LinkOK(p, x) /\ x.anchor >= 1 /\ x.anchor <= p.anchors /\ (p.anchor => x.anchor < p.anchors)
    BY <2>2 DEF PageOK, LinksOK
  <2>5. x.anchor # cell.anchor
    <3>1. x.anchor \in Nat
      BY <2>3 DEF LinkT
    <3> QED BY <3>1, <1>6, <2>4
  <2> QED BY <1>13, <2>2, <2>3, <2>4, <2>5
<1>15. ASSUME p.anchor PROVE LinkOK(q, Opened(q)) /\ Own(q)
  <2> PICK x, y : x = Opened(p) /\ y = Opened(q)
    OBVIOUS
  <2>1. /\ x.line = p.line /\ x.col = p.col /\ x.len = p.len /\ x.anchor = p.anchors
        /\ y.line = p.line /\ y.col = p.col /\ y.len = q.len /\ y.anchor = p.anchors
    BY <1>10 DEF Opened
  <2>2. p.line \in Nat /\ p.col \in Nat /\ p.len \in Nat /\ q.len \in Nat
    BY <1>1 DEF PageT
  <2>3. p.line >= 1 /\ p.line <= p.li /\ LinkOK(p, x) /\ Own(p)
    BY <1>15 DEF PageOK, OpenOK
  <2>4. cell.anchor = p.anchors
    BY <1>6, <1>15
  <2>5. Own(q)
    <3>1. SUFFICES ASSUME NEW l \in 1 .. MaxLines, NEW c \in 1 .. LineW, l = p.line, c > p.col, IsText(q, l, c)
                   PROVE  Cell(q, l, c).anchor = p.anchors
      BY <1>10 DEF Own
    <3>2. CASE IsText(p, l, c)
      BY <3>1, <3>2, <2>3, <1>8 DEF Own
    <3>3. CASE ~IsText(p, l, c)
      BY <3>1, <3>3, <1>7, <1>9, <2>4
    <3> QED BY <3>2, <3>3
  <2>6. InAnchor(q, y)
    BY <2>1, <2>5, <1>10 DEF Own, InAnchor, Reached
  <2>7. p.line = L => p.li = L /\ p.col + p.len <= m
    BY <2>1, <2>2, <2>3, <1>2, <1>3 DEF LinkOK, Done
  <2>8. Done(q, y)
    <3>1. CASE p.line < L
      BY <3>1, <1>2, <2>1 DEF Done
    <3>2. CASE p.line = L
      <4>1. q.len <= p.len + 1
        BY <1>10, <2>2
      <4> QED BY <3>2, <4>1, <2>1, <2>2, <2>7, <1>3, <1>5 DEF Done
    <3> QED BY <3>1, <3>2, <2>2, <2>3, <1>3
  <2>9. Exact(q, y)
    <3>1. SUFFICES ASSUME OneWord(q, y), NEW l \in 1 .. MaxLines, NEW c \in 1 .. LineW
                   PROVE  Mine(q, p.anchors, l, c) <=> Reached(y, l, c)
      BY <2>1 DEF Exact
    <3>2. OneWord(p, x)
      BY <3>1, <2>1, <1>7, <1>8 DEF OneWord, Mine
    <3>3. \A l2 \in 1 .. MaxLines, c2 \in 1 .. LineW : Mine(p, p.anchors, l2, c2) <=> Reached(x, l2, c2)
      BY <3>2, <2>1, <2>3 DEF LinkOK, Exact
    <3>4. L = p.line /\ kind = "glyph"
      <4>1. Mine(q, p.anchors, L, m + 1)
        BY <1>3, <1>7, <1>9, <2>4 DEF Mine
      <4> QED BY <4>1, <3>1, <2>1, <1>3, <1>6, <1>9 DEF OneWord
    <3>5. p.col + p.len = m
      <4>1. SUFFICES ASSUME p.col + p.len < m PROVE FALSE
        BY <2>2, <2>7, <3>4, <1>3
      <4>2. m \in 1 .. LineW /\ IsText(p, L, m)
        BY <4>1, <2>2, <1>3, <1>9
      <4>3. Mine(p, p.anchors, L, m)
        BY <4>1, <4>2, <2>2, <2>3, <3>4, <1>3 DEF Own, Mine
      <4>4. Reached(x, L, m)
        BY <4>2, <4>3, <3>3, <1>3
      <4> QED BY <4>1, <4>4, <2>1, <2>2, <1>3 DEF Reached
    <3>6. q.len = p.len + 1
      BY <3>4, <3>5, <1>3, <1>10, <1>15, <2>2, PageNumbers
    <3>7. CASE l = L /\ c = m + 1
      <4>1. Mine(q, p.anchors, l, c)
        BY <3>7, <1>3, <1>7, <1>9, <2>4 DEF Mine
      <4>2. Reached(y, l, c)
        BY <3>7, <3>4, <3>5, <3>6, <2>1, <2>2, <1>3 DEF Reached
      <4> QED BY <4>1, <4>2
    <3>8. CASE ~(l = L /\ c = m + 1)
      <4>1. Mine(q, p.anchors, l, c) <=> Mine(p, p.anchors, l, c)
        BY <3>8, <1>7, <1>8 DEF Mine
      <4>2. Reached(y, l, c) <=> Reached(x, l, c)
        BY <3>8, <3>4, <3>5, <3>6, <2>1, <2>2, <1>3 DEF Reached
      <4> QED BY <4>1, <4>2, <3>3
    <3> QED BY <3>7, <3>8
  <2> QED BY <2>5, <2>6, <2>8, <2>9 DEF LinkOK
<1>16. OpenOK(q)
  <2>1. SUFFICES ASSUME p.anchor PROVE p.anchors >= 1 /\ p.line >= 1 /\ p.line <= L
    BY <1>2, <1>10, <1>15 DEF OpenOK
  <2>2. p.anchors >= 1 /\ p.line >= 1 /\ p.line <= p.li /\ p.line \in Nat
    BY <1>1, <2>1 DEF PageOK, OpenOK, PageT
  <2> QED BY <2>2, <1>3
<1> QED BY <1>11, <1>12, <1>14, <1>16 DEF PageOK

LEMMA NewLineKeeps ==
  ASSUME NEW p \in PageT
  PROVE  Pages!NewLine(p) \in PageT /\ Keeps(p, Pages!NewLine(p)) /\ Pages!NewLine(p).li = p.li + 1
         /\ Pages!NewLine(p).full = p.full
BY SMTT(20) DEF PageT, Pages!NewLine, Keeps, SameLinks

(* EMIT of a space or of a glyph, the count of the link's text left aside.  *)
LEMMA Emitted ==
  ASSUME NEW p, PageOK(p), ~p.full, NEW kind, kind \in {"glyph", "space"}
  PROVE  LET q == Pages!Emit(p, kind)
         IN /\ q \in PageT
            /\ q.full => Keeps(p, q)
            /\ ~q.full => /\ q.li >= p.li /\ q.li <= MaxLines /\ Len(p.text[q.li]) < LineW
                          /\ q.text = [p.text EXCEPT ![q.li] = Append(@, NewCell(p, kind))]
                          /\ q.len = p.len /\ SameLinks(p, q)
<1>1. p \in PageT /\ RowsFit(p)
  BY DEF PageOK
<1>2. PICK r : r = IF Pages!Column(p) = LineW THEN Pages!NewLine(p) ELSE p
  OBVIOUS
<1>3. r \in PageT /\ Keeps(p, r) /\ ~r.full
  <2>1. Keeps(p, p)
    BY <1>1 DEF Keeps, SameLinks, PageT
  <2> QED BY <1>1, <1>2, <2>1, NewLineKeeps
<1>4. PICK q : q = Pages!Emit(p, kind)
  OBVIOUS
<1>5. CASE r.li > MaxLines
  <2>1. q = [r EXCEPT !.full = TRUE]
    BY <1>2, <1>4, <1>5 DEF Pages!Emit
  <2>2. q \in PageT /\ q.full /\ Keeps(r, q)
    <3>1. q \in PageT /\ q.full
      BY <2>1, <1>3 DEF PageT
    <3>2. q.li = r.li /\ q.text = r.text /\ q.len = r.len /\ SameLinks(r, q)
      BY <2>1, <1>3 DEF SameLinks, PageT
    <3>3. r.li \in Nat
      BY <1>3 DEF PageT
    <3> QED BY <3>1, <3>2, <3>3 DEF Keeps
  <2>3. Keeps(p, q)
    BY <2>2, <1>1, <1>3 DEF Keeps, SameLinks, PageT
  <2> QED BY <2>2, <2>3, <1>4
<1>6. CASE ~(r.li > MaxLines)
  <2>1. r.anchor = p.anchor /\ r.anchors = p.anchors
    BY <1>3 DEF Keeps, SameLinks
  <2>2. PICK cell, L : cell = NewCell(p, kind) /\ L = r.li
    OBVIOUS
  <2>3. q = [r EXCEPT !.text[L] = Append(@, cell)]
    BY <2>1, <2>2, <1>2, <1>4, <1>6 DEF Pages!Emit, NewCell
  <2>4. cell \in CellT /\ L \in 1 .. MaxLines /\ r.text[L] \in Seq(CellT)
    BY SMTT(20), <2>2, <1>1, <1>3, <1>6, PageNumbers DEF NewCell, CellT, PageT
  <2>5. Append(r.text[L], cell) \in Seq(CellT)
    BY <2>4
  <2>6. q.text = [r.text EXCEPT ![L] = Append(@, cell)]
    BY <2>3, <1>3 DEF PageT
  <2>7. q = [r EXCEPT !.text = q.text]
    BY <2>3, <2>6, <1>3 DEF PageT
  <2>8. q.text \in [1 .. MaxLines -> Seq(CellT)]
    BY <2>4, <2>5, <2>6, <1>3 DEF PageT
  <2>9. q \in PageT
    BY <2>7, <2>8, <1>3 DEF PageT
  <2>10. q.li = L /\ q.full = r.full /\ q.len = r.len /\ SameLinks(r, q)
    BY <2>7, <2>2, <1>3 DEF PageT, SameLinks
  <2>11. r.text = p.text /\ r.len = p.len /\ r.li >= p.li /\ SameLinks(p, q)
    BY <1>3, <2>10 DEF Keeps, SameLinks
  <2>12. Len(p.text[L]) < LineW
    <3>1. p.li \in Nat /\ L \in Nat /\ p.text[L] \in Seq(CellT) /\ LineW \in Nat \ {0} /\ MaxLines \in Nat
      BY <2>4, <2>11, <1>1, PageNumbers DEF PageT
    <3>2. Len(p.text[L]) \in Nat
      BY <3>1
    <3>3. CASE Pages!Column(p) = LineW
      <4>1. L = p.li + 1
        BY <1>1, <1>2, <2>2, <3>3, NewLineKeeps
      <4>2. p.text[L] = << >>
        BY <1>1, <2>4, <3>1, <4>1 DEF RowsFit
      <4> QED BY <3>1, <4>2
    <3>4. CASE Pages!Column(p) # LineW
      <4>1. L = p.li
        BY <1>2, <2>2, <3>4
      <4>2. Pages!Column(p) = Len(p.text[L])
        BY <2>4, <3>1, <4>1 DEF Pages!Column
      <4>3. Len(p.text[L]) <= LineW
        BY <1>1, <2>4 DEF RowsFit
      <4> QED BY <3>1, <3>2, <3>4, <4>2, <4>3
    <3> QED BY <3>3, <3>4
  <2> QED BY <1>3, <1>4, <2>2, <2>4, <2>6, <2>9, <2>10, <2>11, <2>12
<1> QED BY <1>5, <1>6

LEMMA GlyphSound ==
  ASSUME NEW p, PageOK(p), ~p.full
  PROVE  PageOK(Pages!Glyph(p))
<1> PICK e, q : e = Pages!Emit(p, "glyph") /\ q = Pages!Glyph(p)
  OBVIOUS
<1>1. CASE e.full
  BY <1>1, Emitted, KeepsSound DEF Pages!Glyph
<1>2. CASE ~e.full
  <2>1. e \in PageT /\ e.len = p.len /\ SameLinks(p, e)
    BY <1>2, Emitted
  <2>2. e.li >= p.li /\ e.li <= MaxLines /\ Len(p.text[e.li]) < LineW
    BY <1>2, Emitted
  <2>3. e.text = [p.text EXCEPT ![e.li] = Append(@, NewCell(p, "glyph"))]
    BY <1>2, Emitted
  <2>4. q = [e EXCEPT !.len = IF e.anchor /\ @ < MaxText THEN @ + 1 ELSE @, !.lastSp = FALSE]
    BY <1>2 DEF Pages!Glyph
  <2>5. q.li = e.li /\ q.text = e.text /\ SameLinks(e, q) /\ q.len = (IF e.anchor /\ e.len < MaxText THEN e.len + 1 ELSE e.len)
    BY <2>1, <2>4 DEF PageT, SameLinks
  <2>6. q \in PageT
    <3>1. e.len \in Nat /\ q.len \in Nat
      BY <2>1, <2>5 DEF PageT
    <3>2. q = [e EXCEPT !.len = q.len, !.lastSp = FALSE]
      BY <2>1, <2>4, <2>5 DEF PageT
    <3> QED BY <2>1, <3>1, <3>2 DEF PageT
  <2>7. Puts(p, q, "glyph")
    BY <2>1, <2>2, <2>3, <2>5 DEF Puts, SameLinks
  <2> QED BY <2>6, <2>7, PutsSound
<1> QED BY <1>1, <1>2

LEMMA SpaceSound ==
  ASSUME NEW p, PageOK(p), ~p.full
  PROVE  PageOK(Pages!Space(p))
<1> PICK e, q : e = Pages!Emit(p, "space") /\ q = Pages!Space(p)
  OBVIOUS
<1>1. CASE p.lastSp
  BY <1>1 DEF Pages!Space
<1>2. CASE ~p.lastSp /\ e.full
  BY <1>2, Emitted, KeepsSound DEF Pages!Space
<1>3. CASE ~p.lastSp /\ ~e.full
  <2>1. e \in PageT /\ e.len = p.len /\ SameLinks(p, e)
    BY <1>3, Emitted
  <2>2. e.li >= p.li /\ e.li <= MaxLines /\ Len(p.text[e.li]) < LineW
    BY <1>3, Emitted
  <2>3. e.text = [p.text EXCEPT ![e.li] = Append(@, NewCell(p, "space"))]
    BY <1>3, Emitted
  <2>4. q = [e EXCEPT !.lastSp = TRUE]
    BY <1>3 DEF Pages!Space
  <2>5. q.li = e.li /\ q.text = e.text /\ SameLinks(e, q) /\ q.len = e.len
    BY <2>1, <2>4 DEF PageT, SameLinks
  <2>6. q \in PageT
    BY <2>1, <2>4 DEF PageT
  <2>7. Puts(p, q, "space")
    BY <2>1, <2>2, <2>3, <2>5 DEF Puts, SameLinks
  <2> QED BY <2>6, <2>7, PutsSound
<1> QED BY <1>1, <1>2, <1>3

(* The tags that only move on, or set a flag.                               *)
LEMMA TagSound ==
  ASSUME NEW p, PageOK(p), NEW on \in BOOLEAN
  PROVE  PageOK(Pages!Block(p)) /\ PageOK(Pages!LineBreak(p)) /\ PageOK(Pages!Script(p, on)) /\ PageOK(Pages!Style(p, on))
<1>1. p \in PageT
  BY DEF PageOK
<1>2. PICK r : r = Pages!NewLine(p)
  OBVIOUS
<1>3. r \in PageT /\ Keeps(p, r)
  BY <1>1, <1>2, NewLineKeeps
<1>4. ASSUME NEW t \in PageT, Keeps(p, t) PROVE PageOK([t EXCEPT !.lastSp = TRUE])
  <2>1. [t EXCEPT !.lastSp = TRUE] \in PageT /\ Keeps(p, [t EXCEPT !.lastSp = TRUE])
    BY <1>4 DEF PageT, Keeps, SameLinks
  <2> QED BY <2>1, KeepsSound
<1>5. Keeps(p, p)
  BY <1>1 DEF Keeps, SameLinks, PageT
<1>6. PageOK(Pages!LineBreak(p))
  BY <1>2, <1>3, <1>4 DEF Pages!LineBreak
<1>7. PageOK(Pages!Block(p))
  BY <1>1, <1>2, <1>3, <1>4, <1>5 DEF Pages!Block
<1>8. PageOK(Pages!Script(p, on))
  <2>1. Pages!Script(p, on) \in PageT /\ Keeps(p, Pages!Script(p, on))
    BY <1>1 DEF PageT, Keeps, SameLinks, Pages!Script
  <2> QED BY <2>1, KeepsSound
<1>9. PageOK(Pages!Style(p, on))
  <2>1. Pages!Style(p, on) \in PageT /\ Keeps(p, Pages!Style(p, on))
    BY <1>1 DEF PageT, Keeps, SameLinks, Pages!Style
  <2> QED BY <2>1, KeepsSound
<1> QED BY <1>6, <1>7, <1>8, <1>9

(* An anchor opens: nothing on the page is of its number yet.               *)
LEMMA OpenSound ==
  ASSUME NEW p, PageOK(p), NEW worthy \in BOOLEAN
  PROVE  PageOK(Pages!OpenAnchor(p, worthy))
<1>1. p \in PageT
  BY DEF PageOK
<1>2. PICK q : q = Pages!OpenAnchor(p, worthy)
  OBVIOUS
<1>3. /\ q.li = p.li /\ q.text = p.text /\ q.links = p.links /\ q.anchor = TRUE /\ q.anchors = p.anchors + 1
      /\ q.line = p.li /\ q.col = Pages!Column(p) /\ q.len = 0
  BY <1>1, <1>2 DEF Pages!OpenAnchor, PageT
<1>4. p.li \in Nat \ {0} /\ p.anchors \in Nat /\ Pages!Column(p) \in Nat
  BY <1>1, PageNumbers DEF PageT, Pages!Column
<1>5. q \in PageT
  <2>1. PICK n, col : n = p.anchors + 1 /\ col = Pages!Column(p)
    OBVIOUS
  <2>2. q = [p EXCEPT !.anchor = TRUE, !.anchors = n, !.worthy = worthy, !.line = p.li, !.col = col, !.len = 0]
    BY <1>1, <1>2, <2>1 DEF Pages!OpenAnchor, PageT
  <2>3. n \in Nat /\ col \in Nat /\ p.li \in Nat
    BY <1>4, <2>1
  <2> QED BY <1>1, <2>2, <2>3 DEF PageT
<1>6. \A l, c : (IsText(q, l, c) <=> IsText(p, l, c)) /\ Cell(q, l, c) = Cell(p, l, c)
  BY <1>3 DEF IsText, Cell
<1>7. \A l \in 1 .. MaxLines, c \in 1 .. LineW :
        IsText(p, l, c) => Cell(p, l, c).anchor \in Nat /\ Cell(p, l, c).anchor <= p.anchors
  <2>1. ASSUME NEW l \in 1 .. MaxLines, NEW c \in 1 .. LineW, IsText(p, l, c)
        PROVE  Cell(p, l, c).anchor \in Nat
    <3>1. p.text[l] \in Seq(CellT)
      BY <1>1 DEF PageT
    <3>2. p.text[l][c] \in CellT
      BY <2>1, <3>1, PageNumbers DEF IsText
    <3> QED BY <3>2 DEF Cell, CellT
  <2> QED BY <2>1 DEF PageOK, Numbered
<1>8. RowsFit(q) /\ Numbered(q)
  <2>1. RowsFit(q)
    BY <1>3 DEF PageOK, RowsFit
  <2>2. Numbered(q)
    BY <1>3, <1>4, <1>6, <1>7 DEF Numbered
  <2> QED BY <2>1, <2>2
<1>9. LinksOK(q)
  <2>1. ASSUME NEW x, LinkOK(p, x) PROVE LinkOK(q, x)
    BY <1>3, <1>6, <2>1 DEF LinkOK, InAnchor, Done, Exact, OneWord, Mine
  <2>2. \A k \in DOMAIN p.links : p.links[k].anchor \in Nat
    <3>1. p.links \in Seq(LinkT)
      BY <1>1 DEF PageT
    <3>2. \A k \in DOMAIN p.links : p.links[k] \in LinkT
      BY <3>1
    <3> QED BY <3>2 DEF LinkT
  <2>3. SUFFICES ASSUME NEW k \in DOMAIN p.links
                 PROVE  LinkOK(q, p.links[k]) /\ p.links[k].anchor >= 1
                        /\ p.links[k].anchor <= p.anchors + 1 /\ p.links[k].anchor < p.anchors + 1
    BY <1>3 DEF LinksOK
  <2>4. LinkOK(p, p.links[k]) /\ p.links[k].anchor >= 1 /\ p.links[k].anchor <= p.anchors
    BY DEF PageOK, LinksOK
  <2> QED BY <2>1, <2>2, <2>4, <1>4
<1>10. OpenOK(q)
  <2> PICK y : y = Opened(q)
    OBVIOUS
  <2>1. y.line = p.li /\ y.col = Pages!Column(p) /\ y.len = 0 /\ y.anchor = p.anchors + 1
    BY <1>3 DEF Opened
  <2>2. \A l \in 1 .. MaxLines, c \in 1 .. LineW : ~Mine(q, p.anchors + 1, l, c)
    BY <1>4, <1>6, <1>7 DEF Mine
  <2>3. \A l \in 1 .. MaxLines, c \in 1 .. LineW : ~Reached(y, l, c)
    BY <2>1, <1>4, PageNumbers DEF Reached
  <2>4. InAnchor(q, y) /\ Exact(q, y)
    BY <2>1, <2>2, <2>3 DEF InAnchor, Exact
  <2>5. p.li <= MaxLines => Pages!Column(p) = Len(p.text[p.li])
    BY DEF Pages!Column
  <2>6. Done(q, y)
    BY <2>1, <2>5, <1>3, <1>4, PageNumbers DEF Done
  <2>7. Own(q)
    BY <1>3, <1>4, <1>6, <2>5, PageNumbers DEF Own, IsText
  <2> QED BY <2>4, <2>6, <2>7, <1>3, <1>4 DEF OpenOK, LinkOK
<1> QED BY <1>2, <1>5, <1>8, <1>9, <1>10 DEF PageOK

(* It closes: the link it makes is the one it would have made so far.       *)
LEMMA CloseSound ==
  ASSUME NEW p, PageOK(p)
  PROVE  PageOK(Pages!CloseAnchor(p))
<1>1. p \in PageT
  BY DEF PageOK
<1>2. PICK q, x : q = Pages!CloseAnchor(p) /\ x = Opened(p)
  OBVIOUS
<1>3. CASE ~p.anchor \/ Len(p.links) = MaxLinks
  BY <1>3 DEF Pages!CloseAnchor
<1>4. CASE p.anchor /\ Len(p.links) # MaxLinks
  <2>1. x \in LinkT
    BY <1>1, <1>2 DEF Opened, LinkT, PageT
  <2>2. /\ q.li = p.li /\ q.text = p.text /\ q.anchor = FALSE /\ q.anchors = p.anchors /\ q.line = p.line
        /\ q.col = p.col /\ q.len = p.len
        /\ q.links = IF p.worthy /\ p.len > 0 THEN Append(p.links, x) ELSE p.links
    BY <1>1, <1>2, <1>4 DEF Pages!CloseAnchor, Opened, PageT
  <2>3. q.links = Append(p.links, x) \/ q.links = p.links
    BY <2>2
  <2>4. p.links \in Seq(LinkT) /\ q.links \in Seq(LinkT)
    <3>1. p.links \in Seq(LinkT)
      BY <1>1 DEF PageT
    <3> QED BY <2>1, <2>3, <3>1
  <2>5. q = [p EXCEPT !.anchor = FALSE, !.worthy = FALSE, !.links = q.links]
    BY <1>1, <1>2, <1>4 DEF Pages!CloseAnchor, PageT
  <2>6. q \in PageT
    BY <1>1, <2>4, <2>5 DEF PageT
  <2>7. \A l, c : (IsText(q, l, c) <=> IsText(p, l, c)) /\ Cell(q, l, c) = Cell(p, l, c)
    BY <2>2 DEF IsText, Cell
  <2>8. RowsFit(q) /\ Numbered(q) /\ OpenOK(q)
    BY <2>2, <2>7 DEF PageOK, RowsFit, Numbered, OpenOK
  <2>9. ASSUME NEW z, LinkOK(p, z) PROVE LinkOK(q, z)
    BY <2>2, <2>7, <2>9 DEF LinkOK, InAnchor, Done, Exact, OneWord, Mine
  <2>10. LinkOK(p, x) /\ x.anchor >= 1 /\ x.anchor <= p.anchors
    <3>1. x.anchor = p.anchors /\ p.anchors \in Nat
      BY <1>1, <1>2 DEF Opened, PageT
    <3> QED BY <1>2, <1>4, <3>1 DEF PageOK, OpenOK
  <2>11. \A k \in DOMAIN p.links : LinkOK(p, p.links[k]) /\ p.links[k].anchor >= 1 /\ p.links[k].anchor <= p.anchors
    BY DEF PageOK, LinksOK
  <2>12. ASSUME NEW k \in DOMAIN q.links
         PROVE  LinkOK(p, q.links[k]) /\ q.links[k].anchor >= 1 /\ q.links[k].anchor <= p.anchors
    <3>1. CASE q.links = p.links
      BY <2>11, <2>12, <3>1
    <3>2. CASE q.links = Append(p.links, x)
      <4>1. (k \in DOMAIN p.links /\ q.links[k] = p.links[k]) \/ q.links[k] = x
        BY <2>1, <2>4, <2>12, <3>2
      <4> QED BY <4>1, <2>10, <2>11
    <3> QED BY <2>3, <3>1, <3>2
  <2>13. LinksOK(q)
    BY <2>2, <2>9, <2>12 DEF LinksOK
  <2> QED BY <1>2, <2>6, <2>8, <2>13 DEF PageOK
<1> QED BY <1>3, <1>4

LEMMA TokenSound ==
  ASSUME NEW p, PageOK(p), ~p.full, NEW q, q \in Pages!After(p)
  PROVE  PageOK(q)
<1>1. PageOK(Pages!Char(p)) /\ PageOK(Pages!Blank(p)) /\ PageOK(Pages!Nbsp(p))
  BY GlyphSound, SpaceSound DEF Pages!Char, Pages!Blank, Pages!Nbsp
<1>2. PageOK(Pages!Block(p)) /\ PageOK(Pages!LineBreak(p)) /\ PageOK(Pages!CloseAnchor(p))
  BY TagSound, CloseSound
<1>3. \A w \in BOOLEAN : PageOK(Pages!OpenAnchor(p, w)) /\ PageOK(Pages!Script(p, w)) /\ PageOK(Pages!Style(p, w))
  BY OpenSound, TagSound
<1> QED BY <1>1, <1>2, <1>3 DEF Pages!After

LEMMA NewPageSound == PageOK(Pages!NewPage)
<1> PICK p : p = Pages!NewPage
  OBVIOUS
<1>1. /\ p.li = 1 /\ p.text = [l \in 1 .. MaxLines |-> << >>] /\ p.links = << >> /\ p.anchor = FALSE /\ p.anchors = 0
  BY DEF Pages!NewPage
<1>2. p \in PageT
  <2>1. [l \in 1 .. MaxLines |-> << >>] \in [1 .. MaxLines -> Seq(CellT)] /\ << >> \in Seq(LinkT)
    OBVIOUS
  <2> QED BY <2>1 DEF Pages!NewPage, PageT
<1>3. RowsFit(p)
  BY <1>1, PageNumbers DEF RowsFit
<1>4. \A l \in 1 .. MaxLines, c \in 1 .. LineW : ~IsText(p, l, c)
  BY <1>1, PageNumbers DEF IsText
<1> QED BY <1>1, <1>2, <1>3, <1>4 DEF PageOK, Numbered, LinksOK, OpenOK

LEMMA PageSteps == PageOK(page) /\ [PartsNext]_partVars => PageOK(page)'
<1> SUFFICES ASSUME PageOK(page), [PartsNext]_partVars PROVE PageOK(page)'
  OBVIOUS
<1>1. (Pages!Token \/ page' = Pages!NewPage \/ page' = page) => PageOK(page)'
  <2>1. PageOK(page) /\ page' = page => PageOK(page)'
    OBVIOUS
  <2>2. page' = Pages!NewPage => PageOK(page)'
    BY NewPageSound
  <2>3. ASSUME Pages!Token PROVE PageOK(page)'
    <3>1. PICK p, q : p = page /\ q = page'
      OBVIOUS
    <3>2. ~p.full /\ q \in Pages!After(p)
      BY <2>3, <3>1 DEF Pages!Token
    <3>3. PageOK(q)
      BY <3>1, <3>2, TokenSound
    <3> QED BY <3>1, <3>3
  <2> QED BY <2>1, <2>2, <2>3
<1>2. ASSUME NEW url, Pages!Navigate(url) PROVE page' = Pages!NewPage \/ page' = page
  BY <1>2 DEF Pages!Navigate, Pages!Load
<1>3. CASE Pages!Next
  BY <1>1, <1>2, <1>3 DEF Pages!Next, Pages!Follow, Pages!Rendered, Pages!Open, Pages!Tab, Pages!Type, Pages!EnterKey, Pages!Reload,
     Pages!GoHome, Pages!Back, Pages!Forward, Pages!Step, Pages!Visit, Pages!ScrollKey, Pages!Scrollbar, Pages!ScrollTo,
     Pages!Grab, Pages!Drag, Pages!Release, Pages!Draw, Pages!ClickPage, Pages!Load
<1>4. Pages!Next \/ UNCHANGED pageVars
  BY DEF PartsNext, partVars, NetTurn, CalcTurn, PuzzleTurn, PongTurn, AtaTurn, CardTurn, BodyTurn, Rendering, Browsing, Pages!Next
<1> QED BY <1>1, <1>3, <1>4 DEF pageVars

LEMMA PageLinks == PageOK(page) => LinksInAnchors
<1> SUFFICES ASSUME PageOK(page), NEW k \in DOMAIN page.links
             PROVE  LET x == page.links[k]
                        covered == {c \in (1 .. MaxLines) \X (1 .. LineW) : c[1] = x.line /\ c[2] > x.col /\ c[2] <= x.col + x.len}
                        mine == Pages!Cells(page, x.anchor)
                    IN /\ \A c \in covered : c[2] <= Len(page.text[c[1]]) => c \in mine
                       /\ (\A c \in mine : c[1] = x.line /\ page.text[c[1]][c[2]].kind = "glyph") => mine = covered
  BY DEF LinksInAnchors, Pages!LinksInAnchors
<1> PICK x : x = page.links[k]
  OBVIOUS
<1> DEFINE grid == (1 .. MaxLines) \X (1 .. LineW)
           covered == {c \in grid : c[1] = x.line /\ c[2] > x.col /\ c[2] <= x.col + x.len}
           mine == Pages!Cells(page, x.anchor)
<1>1. LinkOK(page, x)
  BY DEF PageOK, LinksOK
<1>2. \A c \in grid : (c \in covered <=> Reached(x, c[1], c[2])) /\ (c \in mine <=> Mine(page, x.anchor, c[1], c[2]))
  BY DEF Reached, Mine, IsText, Cell, Pages!Cells
<1>3. covered \subseteq grid /\ mine \subseteq grid
  BY DEF Pages!Cells
<1>4. \A c \in grid : c[1] \in 1 .. MaxLines /\ c[2] \in 1 .. LineW
  OBVIOUS
<1>5. \A c \in covered : c[2] <= Len(page.text[c[1]]) => c \in mine
  BY <1>1, <1>2, <1>3, <1>4 DEF LinkOK, InAnchor, Mine, IsText
<1>6. ASSUME \A c \in mine : c[1] = x.line /\ page.text[c[1]][c[2]].kind = "glyph" PROVE mine = covered
  <2>1. OneWord(page, x)
    <3>1. SUFFICES ASSUME NEW l \in 1 .. MaxLines, NEW c \in 1 .. LineW, Mine(page, x.anchor, l, c)
                   PROVE  l = x.line /\ Cell(page, l, c).kind = "glyph"
      BY DEF OneWord
    <3>2. <<l, c>> \in grid /\ <<l, c>>[1] = l /\ <<l, c>>[2] = c
      OBVIOUS
    <3>3. <<l, c>> \in mine
      BY <3>1, <3>2, <1>2
    <3> QED BY <3>2, <3>3, <1>6 DEF Cell
  <2>2. \A c \in grid : c \in mine <=> c \in covered
    BY <2>1, <1>1, <1>2, <1>4 DEF LinkOK, Exact
  <2> QED BY <2>2, <1>3
<1> QED BY <1>5, <1>6

(* A click that follows a link hit text of that link's own anchor or none,  *)
(* and of an anchor of one word on one row no cell is dead.                 *)
THEOREM LinksSafe == PartsSpec => []LinksInAnchors
<1>1. PartsInit => PageOK(page)
  BY NewPageSound DEF PartsInit, Pages!Init
<1> QED BY <1>1, PageSteps, PageLinks, PTL DEF PartsSpec

(***************************************************************************)
(* The network card.  Outwards: until send has given up, a frame that is    *)
(* submitted is on the wire, or in the one buffer with the one slot the     *)
(* card has, which is the one the card sends next.                          *)
(***************************************************************************)
Turns ==
  /\ txSlot \in Card!Slots /\ cardSlot \in Card!Slots /\ sending \in BOOLEAN
  /\ submitted \in Seq(Nat) /\ wire \in Seq(Nat)
  /\ ~sending => own = {} /\ wire = submitted /\ cardSlot = txSlot
  /\ sending /\ txSlot \in own => own = {txSlot} /\ cardSlot = txSlot /\ txBuf \in Nat /\ submitted = Append(wire, txBuf)
  /\ sending /\ txSlot \notin own => own = {} /\ wire = submitted /\ cardSlot = (txSlot + 1) % 4
SendInv == late \/ Turns

LEMMA SendNext == SendInv /\ Card!Next => SendInv'
<1> SUFFICES ASSUME SendInv, Card!Next, ~late' PROVE Turns'
  BY DEF SendInv
<1>1. ~late /\ Turns
  BY DEF SendInv, Card!Next, Card!Arrive, Card!Recv, Card!Send, Card!CardSends, Card!Sent, Card!TimeOut, Card!tx
<1>2. ASSUME UNCHANGED Card!tx PROVE Turns'
  BY <1>1, <1>2 DEF Card!tx, Turns
<1>3. CASE Card!Send
  <2>1. Len(submitted) + 1 \in Nat
    BY <1>1 DEF Turns
  <2> QED BY <1>1, <1>3, <2>1 DEF Turns, Card!Send, Card!Slots
<1>4. CASE Card!CardSends
  <2>1. own = {txSlot} /\ cardSlot = txSlot /\ sending /\ txBuf \in Nat /\ submitted = Append(wire, txBuf)
    BY <1>1, <1>4 DEF Turns, Card!CardSends
  <2>2. own' = {} /\ cardSlot' = (txSlot + 1) % 4 /\ cardSlot' \in Card!Slots
    BY <1>1, <1>4, <2>1 DEF Turns, Card!CardSends, Card!Slots
  <2> QED BY <1>1, <1>4, <2>1, <2>2 DEF Turns, Card!CardSends
<1>5. CASE Card!Sent
  BY <1>1, <1>5 DEF Turns, Card!Sent, Card!NextSlot, Card!Slots
<1>6. CASE Card!TimeOut
  BY <1>6 DEF Card!TimeOut
<1> QED BY <1>2, <1>3, <1>4, <1>5, <1>6 DEF Card!Next, Card!Arrive, Card!Recv

LEMMA TurnsInOrder == SendInv => Card!SentInOrder
<1> SUFFICES ASSUME Turns PROVE Card!SentInOrder
  BY DEF SendInv, Card!SentInOrder
<1>1. wire = submitted \/ (txBuf \in Nat /\ submitted = Append(wire, txBuf))
  BY DEF Turns
<1>2. \A i \in DOMAIN wire : wire[i] = submitted[i]
  <2>1. wire \in Seq(Nat)
    BY DEF Turns
  <2>2. ASSUME NEW x \in Nat PROVE \A i \in DOMAIN wire : wire[i] = Append(wire, x)[i]
    BY <2>1
  <2> QED BY <1>1, <2>2
<1> QED BY <1>2 DEF Turns, Card!SentInOrder

(* Inwards: places in the ring.                                             *)
LEMMA RingMod ==
  ASSUME NEW x \in Int, -Ring <= x, x < 2 * Ring
  PROVE  x % Ring = IF x < 0 THEN x + Ring ELSE IF x < Ring THEN x ELSE x - Ring
<1>1. Ring \in Nat \ {0}
  BY RingAssumption
<1>2. CASE x \in 0 .. Ring - 1
  <2>1. x % Ring = x
    BY <1>1, <1>2
  <2> QED BY <1>1, <1>2, <2>1
<1>3. CASE x \in Ring .. 2 * Ring - 1
  <2>1. x % Ring = x - Ring
    BY <1>1, <1>3
  <2> QED BY <1>1, <1>3, <2>1
<1>4. CASE x \in -Ring .. -1
  <2>1. x % Ring = x + Ring
    BY <1>1, <1>4
  <2> QED BY <1>1, <1>4, <2>1
<1> QED BY <1>1, <1>2, <1>3, <1>4

LEMMA PlaceAt ==
  ASSUME NEW o \in 0 .. Ring - 1, NEW x \in 0 .. Ring - 1
  PROVE  Card!At(o + x) \in 0 .. Ring - 1 /\ Card!At(o + x) = IF o + x < Ring THEN o + x ELSE o + x - Ring
<1>1. Ring \in Nat \ {0} /\ o + x \in Int /\ -Ring <= o + x /\ o + x < 2 * Ring /\ ~(o + x < 0)
  BY RingAssumption
<1>2. Card!At(o + x) = IF o + x < Ring THEN o + x ELSE o + x - Ring
  BY <1>1, RingMod DEF Card!At
<1> QED BY <1>1, <1>2

LEMMA PlaceZero ==
  ASSUME NEW o \in 0 .. Ring - 1
  PROVE  Card!At(o + 0) = o
<1>1. Ring \in Nat \ {0} /\ o + 0 = o
  BY RingAssumption
<1>2. o % Ring = o
  BY <1>1
<1> QED BY <1>1, <1>2 DEF Card!At

LEMMA PlaceOn ==
  ASSUME NEW o \in 0 .. Ring - 1, NEW x \in 0 .. Ring - 1, NEW y \in 0 .. Ring - 1, x + y < Ring
  PROVE  Card!At(Card!At(o + x) + y) = Card!At(o + (x + y))
<1>1. Ring \in Nat \ {0} /\ x + y \in 0 .. Ring - 1
  BY RingAssumption
<1>2. Card!At(o + x) \in 0 .. Ring - 1 /\ Card!At(o + x) = IF o + x < Ring THEN o + x ELSE o + x - Ring
  BY PlaceAt
<1>3. Card!At(Card!At(o + x) + y) = IF Card!At(o + x) + y < Ring THEN Card!At(o + x) + y ELSE Card!At(o + x) + y - Ring
  BY <1>2, PlaceAt
<1>4. Card!At(o + (x + y)) = IF o + (x + y) < Ring THEN o + (x + y) ELSE o + (x + y) - Ring
  BY <1>1, PlaceAt
<1> QED BY <1>1, <1>2, <1>3, <1>4

LEMMA PlaceDistance ==
  ASSUME NEW o \in 0 .. Ring - 1, NEW x \in 0 .. Ring - 1, NEW y \in 0 .. Ring - 1
  PROVE  (Card!At(o + x) - Card!At(o + y)) % Ring = IF x >= y THEN x - y ELSE x - y + Ring
<1>1. Ring \in Nat \ {0}
  BY RingAssumption
<1> PICK a, b : a = Card!At(o + x) /\ b = Card!At(o + y)
  OBVIOUS
<1>2. a \in 0 .. Ring - 1 /\ a = IF o + x < Ring THEN o + x ELSE o + x - Ring
  BY PlaceAt
<1>3. b \in 0 .. Ring - 1 /\ b = IF o + y < Ring THEN o + y ELSE o + y - Ring
  BY PlaceAt
<1>4. (a - b) % Ring = IF a - b < 0 THEN a - b + Ring ELSE a - b
  <2>1. a - b \in Int /\ -Ring <= a - b /\ a - b < Ring
    BY <1>1, <1>2, <1>3
  <2> QED BY <1>1, <2>1, RingMod
<1> QED BY <1>1, <1>2, <1>3, <1>4

LEMMA Before ==
  ASSUME NEW w \in Nat, NEW z \in Nat, NEW j \in 0 .. z - 1, NEW e \in 0 .. Ring - 1, w + z <= e
  PROVE  w + j \in 0 .. Ring - 1 /\ w + j < e
BY RingAssumption
LEMMA Behind ==
  ASSUME NEW s \in Nat, NEW x \in 0 .. Ring - 1, x >= s
  PROVE  x - s \in 0 .. Ring - 1 /\ s \in 0 .. Ring - 1 /\ s + (x - s) < Ring /\ s + (x - s) = x
BY RingAssumption
LEMMA Shifted ==
  ASSUME NEW w \in Nat, NEW s \in Nat, NEW j \in Nat, w >= s
  PROVE  w + j >= s /\ (w - s) + j = (w + j) - s
OBVIOUS

Size(len) == Card!RoundUp(len + 2 * Align)
LEMMA SizeOf ==
  ASSUME NEW len \in Lengths
  PROVE  /\ len \in Nat /\ Align \in Nat \ {0} /\ Ring \in Nat \ {0} /\ MinRaw \in Nat /\ MinRaw <= len + Align
         /\ Size(len) \in Nat /\ Size(len) >= len + 2 * Align /\ Size(len) < Ring
<1>1. len \in Nat /\ Align \in Nat \ {0} /\ Ring \in Nat \ {0} /\ MinRaw \in Nat /\ MinRaw <= len + Align /\ Size(len) < Ring
  BY RingAssumption DEF Size
<1> PICK n, k : n = len + 2 * Align /\ k = (n + Align - 1) \div Align
  OBVIOUS
<1>2. n \in Nat /\ k \in Int /\ n + Align - 1 \in Nat
  BY <1>1
<1>3. n + Align - 1 - k * Align < Align
  BY <1>1, <1>2
<1>4. k * Align \in Int
  BY <1>1, <1>2
<1>5. k * Align >= n
  BY <1>1, <1>2, <1>3, <1>4
<1>6. Size(len) = k * Align
  BY DEF Size, Card!RoundUp
<1> QED BY <1>1, <1>2, <1>4, <1>5, <1>6

(***************************************************************************)
(* What the ring holds between the driver's place and the card's: the      *)
(* frames not yet handed on, one after another.  L are the lengths of the  *)
(* frames, D the distances from the driver's place at which they begin.    *)
(***************************************************************************)
CellOf(n, len, k) ==
  IF k = 0 THEN Card!Header(n, len)
  ELSE IF k < Align \/ k >= Align + len THEN [kind |-> "rest"] ELSE Card!Datum(n, k - Align + 1)
FrameSet == {Card!FrameOf(n, len) : n \in Nat, len \in Lengths}
Counted(d, n, L) ==
  /\ accepted \in Seq(FrameSet) /\ delivered \in Seq(FrameSet)
  /\ d = Len(delivered) /\ n = Len(accepted) /\ d <= n
  /\ L \in [1 .. n -> Lengths]
  /\ \A k \in 1 .. n : accepted[k] = Card!FrameOf(k, L[k])
  /\ \A i \in 1 .. d : delivered[i] = accepted[i]
Spaced(d, n, L, D) ==
  /\ D \in [d + 1 .. n + 1 -> 0 .. Ring - 1]
  /\ D[d + 1] = 0 /\ \A k \in d + 1 .. n : D[k + 1] = D[k] + Size(L[k])
  /\ \A i, k \in d + 1 .. n + 1 : i <= k => D[i] <= D[k]
Laid(d, n, L, D) ==
  /\ rxOffset \in 0 .. Ring - 1 /\ cbr = Card!At(rxOffset + D[n + 1])
  /\ ring = [p \in 0 .. Ring - 1 |-> ring[p]]
  /\ \A k \in d + 1 .. n : \A j \in 0 .. Size(L[k]) - 1 : ring[Card!At(rxOffset + (D[k] + j))] = CellOf(k, L[k], j)
InRing(d, n, L, D) == Counted(d, n, L) /\ Spaced(d, n, L, D) /\ Laid(d, n, L, D)
RecvInv == misled \/ \E d, n \in Nat : \E L, D : InRing(d, n, L, D)

LEMMA ReadInOrder == RecvInv => Card!FramesWhole
<1> SUFFICES ASSUME NEW d \in Nat, NEW n \in Nat, NEW L, NEW D, InRing(d, n, L, D)
             PROVE  Card!FramesWhole
  BY DEF RecvInv, Card!FramesWhole
<1>1. d = Len(delivered) /\ n = Len(accepted) /\ d <= n /\ delivered \in Seq(FrameSet)
      /\ \A i \in 1 .. d : delivered[i] = accepted[i]
  BY DEF InRing, Counted
<1>2. d = n => rxOffset = cbr
  <2>1. SUFFICES ASSUME d = n PROVE rxOffset = cbr
    OBVIOUS
  <2>2. rxOffset \in 0 .. Ring - 1 /\ cbr = Card!At(rxOffset + 0) /\ Ring \in Nat \ {0}
    BY <2>1, RingAssumption DEF InRing, Spaced, Laid
  <2>3. Card!At(rxOffset + 0) = rxOffset
    BY <2>2, PlaceZero
  <2> QED BY <2>2, <2>3
<1>3. \A i \in DOMAIN delivered : delivered[i] = accepted[i]
  BY <1>1
<1> QED BY <1>1, <1>2, <1>3 DEF Card!FramesWhole

LEMMA RecvInit == PartsInit => RecvInv
<1> SUFFICES ASSUME Card!Init PROVE RecvInv
  BY DEF PartsInit
<1> PICK L, D : L = [k \in 1 .. 0 |-> 0] /\ D = [k \in 1 .. 1 |-> 0]
  OBVIOUS
<1>0. Ring \in Nat \ {0}
  BY RingAssumption
<1>1. Counted(0, 0, L)
  BY DEF Card!Init, Counted
<1>2. Spaced(0, 0, L, D)
  BY <1>0 DEF Spaced
<1>3. Laid(0, 0, L, D)
  <2>1. Card!At(0 + 0) = 0
    BY <1>0, PlaceAt
  <2> QED BY <1>0, <2>1 DEF Card!Init, Laid
<1>4. InRing(0, 0, L, D)
  BY <1>1, <1>2, <1>3 DEF InRing
<1> QED BY <1>4 DEF RecvInv

(* A frame that arrives is laid behind the others and over none of them.    *)
LEMMA ArriveKeeps ==
  ASSUME NEW d \in Nat, NEW n \in Nat, NEW L, NEW D, InRing(d, n, L, D), NEW len \in Lengths, Card!Arrive(len)
  PROVE  \E L2, D2 : InRing(d, n + 1, L2, D2)'
<1> PICK s, L2, D2, r1 : /\ s = Size(len) /\ r1 = ring'
                     /\ L2 = [k \in 1 .. n + 1 |-> IF k = n + 1 THEN len ELSE L[k]]
                     /\ D2 = [k \in d + 1 .. n + 2 |-> IF k = n + 2 THEN D[n + 1] + s ELSE D[k]]
  OBVIOUS
<1>1. /\ accepted \in Seq(FrameSet) /\ delivered \in Seq(FrameSet)
      /\ d = Len(delivered) /\ n = Len(accepted) /\ d <= n /\ L \in [1 .. n -> Lengths]
      /\ \A k \in 1 .. n : accepted[k] = Card!FrameOf(k, L[k])
      /\ \A i \in 1 .. d : delivered[i] = accepted[i]
  BY DEF InRing, Counted
<1>2. /\ D \in [d + 1 .. n + 1 -> 0 .. Ring - 1] /\ D[d + 1] = 0
      /\ \A k \in d + 1 .. n : D[k + 1] = D[k] + Size(L[k])
      /\ \A i, k \in d + 1 .. n + 1 : i <= k => D[i] <= D[k]
  BY DEF InRing, Spaced
<1>3. rxOffset \in 0 .. Ring - 1 /\ cbr = Card!At(rxOffset + D[n + 1]) /\ ring = [p \in 0 .. Ring - 1 |-> ring[p]]
  BY DEF InRing, Laid
<1>4. \A k \in d + 1 .. n : \A j \in 0 .. Size(L[k]) - 1 : ring[Card!At(rxOffset + (D[k] + j))] = CellOf(k, L[k], j)
  BY DEF InRing, Laid
<1>5. Ring \in Nat \ {0} /\ s \in Nat /\ s < Ring /\ s > 0
  BY SizeOf
<1>6. /\ accepted' = Append(accepted, Card!FrameOf(n + 1, len)) /\ delivered' = delivered /\ rxOffset' = rxOffset
      /\ cbr' = Card!At(cbr + s)
  BY <1>1 DEF Card!Arrive, Card!tx, Size
<1>7. r1 = [p \in 0 .. Ring - 1 |-> IF (p - cbr) % Ring < s THEN CellOf(n + 1, len, (p - cbr) % Ring) ELSE ring[p]]
  BY <1>1, <1>3 DEF Card!Arrive, Size, CellOf
<1> PICK e : e = D[n + 1]
  OBVIOUS
<1>8. e \in 0 .. Ring - 1 /\ n + 1 \in d + 1 .. n + 1
  BY <1>1, <1>2
<1>9. e + s < Ring
  <2>1. (rxOffset - cbr) % Ring = 0 \/ s < (rxOffset - cbr) % Ring
    <3>1. len + Align + Align = len + 2 * Align
      BY SizeOf
    <3> QED BY <3>1 DEF Card!Arrive, Card!Room, Size
  <2>2. Card!At(rxOffset + 0) = rxOffset
    BY <1>3, PlaceZero
  <2>3. (rxOffset - cbr) % Ring = IF 0 >= e THEN 0 - e ELSE 0 - e + Ring
    <3>1. PICK z : z = 0
      OBVIOUS
    <3>2. z \in 0 .. Ring - 1
      BY <3>1, <1>5
    <3>3. (Card!At(rxOffset + z) - Card!At(rxOffset + e)) % Ring = IF z >= e THEN z - e ELSE z - e + Ring
      BY <3>2, <1>3, <1>8, PlaceDistance
    <3> QED BY <3>1, <3>3, <2>2, <1>3
  <2> QED BY <1>5, <1>8, <2>1, <2>3
<1>10. Counted(d, n + 1, L2)'
  <2>1. Card!FrameOf(n + 1, len) \in FrameSet
    <3>1. n + 1 \in Nat
      OBVIOUS
    <3> QED BY <3>1 DEF FrameSet
  <2>2. accepted' \in Seq(FrameSet) /\ Len(accepted') = n + 1 /\ accepted'[n + 1] = Card!FrameOf(n + 1, len)
        /\ \A k \in 1 .. n : accepted'[k] = accepted[k]
    BY <1>1, <1>6, <2>1
  <2>3. L2 \in [1 .. n + 1 -> Lengths] /\ L2[n + 1] = len /\ \A k \in 1 .. n : L2[k] = L[k]
    BY <1>1
  <2>4. \A k \in 1 .. n + 1 : accepted'[k] = Card!FrameOf(k, L2[k])
    BY <1>1, <2>2, <2>3
  <2>5. \A i \in 1 .. d : delivered'[i] = accepted'[i]
    BY <1>1, <1>6, <2>2
  <2> QED BY <1>1, <1>6, <2>2, <2>3, <2>4, <2>5 DEF Counted
<1>11. /\ D2 \in [d + 1 .. n + 2 -> 0 .. Ring - 1] /\ D2[n + 2] = e + s
       /\ \A k \in d + 1 .. n + 1 : D2[k] = D[k]
       /\ L2[n + 1] = len /\ \A k \in 1 .. n : L2[k] = L[k]
  BY SMTT(20), <1>1, <1>2, <1>5, <1>8, <1>9
<1>12. Spaced(d, n + 1, L2, D2)
  <2>1. D2 \in [d + 1 .. (n + 1) + 1 -> 0 .. Ring - 1] /\ D2[d + 1] = 0
    BY <1>1, <1>2, <1>11
  <2>2. ASSUME NEW k \in d + 1 .. n + 1 PROVE D2[k + 1] = D2[k] + Size(L2[k])
    BY <1>1, <1>2, <1>11
  <2>3. ASSUME NEW i \in d + 1 .. n + 2, NEW k \in d + 1 .. n + 2, i <= k PROVE D2[i] <= D2[k]
    <3>1. CASE k = n + 2 /\ i # n + 2
      <4>1. D[i] <= e
        BY <1>2, <1>8, <2>3, <3>1
      <4>2. D2[i] = D[i] /\ D[i] \in 0 .. Ring - 1
        BY <1>2, <1>11, <3>1
      <4> QED BY <3>1, <4>1, <4>2, <1>5, <1>8, <1>11
    <3>2. CASE k # n + 2
      BY <1>2, <1>11, <2>3, <3>2
    <3>3. CASE i = n + 2 /\ k = n + 2
      BY <3>3, <1>5, <1>8, <1>11
    <3> QED BY <3>1, <3>2, <3>3, <2>3
  <2> QED BY <2>1, <2>2, <2>3 DEF Spaced
<1>13. cbr' = Card!At(rxOffset + D2[(n + 1) + 1])
  BY SMTT(20), <1>3, <1>5, <1>6, <1>8, <1>9, <1>11, PlaceOn
<1>14. ASSUME NEW k \in d + 1 .. n + 1, NEW j \in 0 .. Size(L2[k]) - 1
       PROVE  r1[Card!At(rxOffset + (D2[k] + j))] = CellOf(k, L2[k], j)
  <2> PICK x, p : x = D2[k] + j /\ p = Card!At(rxOffset + x)
    OBVIOUS
  <2>1. CASE k = n + 1
    <3>1. L2[k] = len /\ x = e + j /\ j \in 0 .. s - 1 /\ x \in 0 .. Ring - 1
      <4>1. L2[k] = len /\ D2[k] = e
        BY <2>1, <1>8, <1>11
      <4>2. j \in 0 .. s - 1 /\ x = e + j
        BY <4>1
      <4> QED BY SMTT(20), <4>1, <4>2, <1>5, <1>8, <1>9
    <3>2. p \in 0 .. Ring - 1
      BY <1>3, <3>1, PlaceAt
    <3>3. (p - cbr) % Ring = j
      <4>1. (Card!At(rxOffset + x) - Card!At(rxOffset + e)) % Ring = IF x >= e THEN x - e ELSE x - e + Ring
        BY <1>3, <1>8, <3>1, PlaceDistance
      <4> QED BY SMTT(20), <4>1, <3>1, <1>3, <1>5, <1>8
    <3>4. r1[p] = CellOf(n + 1, len, j)
      BY <3>1, <3>2, <3>3, <1>5, <1>7
    <3> QED BY <2>1, <3>1, <3>4
  <2>2. CASE k # n + 1
    <3>1. k \in d + 1 .. n /\ k \in 1 .. n /\ k + 1 \in d + 1 .. n + 1
      BY <2>2, <1>1
    <3>2. L2[k] = L[k] /\ D2[k] = D[k] /\ L[k] \in Lengths
      BY <3>1, <1>1, <1>11
    <3>3. Size(L[k]) \in Nat /\ D[k] \in Nat /\ D[k] + Size(L[k]) <= e
      <4>1. D[k + 1] <= e /\ D[k + 1] = D[k] + Size(L[k]) /\ D[k] \in 0 .. Ring - 1
        BY <3>1, <1>2, <1>8
      <4> QED BY <4>1, <3>2, SizeOf
    <3>4. x \in 0 .. Ring - 1 /\ x < e
      <4> PICK z, w : z = Size(L[k]) /\ w = D[k]
        OBVIOUS
      <4>1. j \in 0 .. z - 1 /\ x = w + j
        BY <3>2
      <4>2. z \in Nat /\ w \in Nat /\ w + z <= e
        BY <3>3
      <4> QED BY <4>1, <4>2, <1>8, Before
    <3>5. p \in 0 .. Ring - 1
      BY <1>3, <3>4, PlaceAt
    <3>6. (p - cbr) % Ring >= s
      <4>1. (Card!At(rxOffset + x) - Card!At(rxOffset + e)) % Ring = IF x >= e THEN x - e ELSE x - e + Ring
        BY <1>3, <1>8, <3>4, PlaceDistance
      <4>2. (p - cbr) % Ring = IF x >= e THEN x - e ELSE x - e + Ring
        BY <4>1, <1>3
      <4>3. (p - cbr) % Ring = x - e + Ring
        BY <4>2, <3>4, <1>8
      <4> QED BY SMTT(20), <4>3, <3>4, <1>5, <1>8, <1>9
    <3>7. r1[p] = ring[p]
      <4>1. (p - cbr) % Ring \in Int
        BY SMTT(20), <3>4, <3>5, <1>3, <1>5, <1>8, PlaceAt
      <4> QED BY <4>1, <3>5, <3>6, <1>5, <1>7
    <3> QED BY <3>1, <3>2, <3>7, <1>4
  <2> QED BY <2>1, <2>2
<1>15. Laid(d, n + 1, L2, D2)'
  <2>1. r1 = [p \in 0 .. Ring - 1 |-> r1[p]]
    BY <1>7
  <2> QED BY <2>1, <1>3, <1>6, <1>13, <1>14 DEF Laid
<1>16. Spaced(d, n + 1, L2, D2)'
  BY <1>12 DEF Spaced
<1> QED BY <1>10, <1>15, <1>16 DEF InRing

(* What is read at the driver's place is the oldest frame's header, and the *)
(* frame handed on is that frame.                                           *)
LEMMA RecvKeeps ==
  ASSUME NEW d \in Nat, NEW n \in Nat, NEW L, NEW D, InRing(d, n, L, D), d < n, Card!Recv, ~misled'
  PROVE  \E D2 : InRing(d + 1, n, L, D2)'
<1>1. /\ accepted \in Seq(FrameSet) /\ delivered \in Seq(FrameSet)
      /\ d = Len(delivered) /\ n = Len(accepted) /\ L \in [1 .. n -> Lengths]
      /\ \A k \in 1 .. n : accepted[k] = Card!FrameOf(k, L[k])
      /\ \A i \in 1 .. d : delivered[i] = accepted[i]
  BY DEF InRing, Counted
<1>2. /\ D \in [d + 1 .. n + 1 -> 0 .. Ring - 1] /\ D[d + 1] = 0
      /\ \A k \in d + 1 .. n : D[k + 1] = D[k] + Size(L[k])
      /\ \A i, k \in d + 1 .. n + 1 : i <= k => D[i] <= D[k]
  BY DEF InRing, Spaced
<1>3. rxOffset \in 0 .. Ring - 1 /\ cbr = Card!At(rxOffset + D[n + 1]) /\ ring = [p \in 0 .. Ring - 1 |-> ring[p]]
  BY DEF InRing, Laid
<1>4. \A k \in d + 1 .. n : \A j \in 0 .. Size(L[k]) - 1 : ring[Card!At(rxOffset + (D[k] + j))] = CellOf(k, L[k], j)
  BY DEF InRing, Laid
<1> PICK len, s, D2 : len = L[d + 1] /\ s = Size(len) /\ D2 = [k \in d + 2 .. n + 1 |-> D[k] - s]
  OBVIOUS
<1>5. d + 1 \in 1 .. n /\ d + 1 \in d + 1 .. n /\ d + 2 \in d + 1 .. n + 1 /\ n + 1 \in d + 2 .. n + 1 /\ len \in Lengths
  BY <1>1
<1>6. /\ len \in Nat /\ Align \in Nat \ {0} /\ Ring \in Nat \ {0} /\ MinRaw \in Nat /\ MinRaw <= len + Align
      /\ s \in Nat /\ s >= len + 2 * Align /\ s < Ring
  BY <1>5, SizeOf
<1>7. \A j \in 0 .. s - 1 : ring[Card!At(rxOffset + j)] = CellOf(d + 1, len, j)
  <2>1. SUFFICES ASSUME NEW j \in 0 .. s - 1 PROVE ring[Card!At(rxOffset + j)] = CellOf(d + 1, len, j)
    OBVIOUS
  <2>2. ring[Card!At(rxOffset + (D[d + 1] + j))] = CellOf(d + 1, L[d + 1], j)
    BY <1>4, <1>5
  <2>3. D[d + 1] + j = j
    BY <1>2, <1>6
  <2> QED BY <2>2, <2>3
<1>8. ring[rxOffset] = Card!Header(d + 1, len)
  <2>1. Card!At(rxOffset + 0) = rxOffset
    BY <1>3, PlaceZero
  <2>2. 0 \in 0 .. s - 1
    BY <1>6
  <2> QED BY <1>7, <2>1, <2>2 DEF CellOf
<1>9. Card!Readings(ring[rxOffset]) = {[ok |-> TRUE, raw |-> len + Align]}
  BY <1>8 DEF Card!Readings, Card!Header
<1>10. /\ rxOffset' = Card!At(rxOffset + s) /\ delivered' = Append(delivered, Card!Copied(len + Align))
       /\ ring' = ring /\ cbr' = cbr /\ accepted' = accepted
  <2>1. PICK h \in Card!Readings(ring[rxOffset]) :
          /\ misled' = (misled \/ (cbr = rxOffset /\ ring[rxOffset].kind # "zero") \/ (h.ok /\ h.raw > MaxRaw))
          /\ \/ ~h.ok /\ UNCHANGED <<rxOffset, delivered>>
             \/ /\ h.ok /\ (h.raw < MinRaw \/ h.raw > MaxRaw)
                /\ rxOffset' = Card!At(rxOffset + Align) /\ UNCHANGED delivered
             \/ /\ h.ok /\ h.raw >= MinRaw /\ h.raw <= MaxRaw
                /\ rxOffset' = Card!At(rxOffset + Card!Advance(h.raw))
                /\ delivered' = Append(delivered, Card!Copied(h.raw))
    BY DEF Card!Recv
  <2>2. h.ok = TRUE /\ h.raw = len + Align
    BY <1>9, <2>1
  <2>3. ~(h.raw > MaxRaw) /\ ~(h.raw < MinRaw)
    <3>1. ~(h.ok /\ h.raw > MaxRaw)
      BY <2>1
    <3>2. ~(len + Align < MinRaw)
      BY <1>6
    <3> QED BY <2>2, <3>1, <3>2
  <2>4. Card!Advance(len + Align) = s
    <3>1. len + Align + Align = len + 2 * Align
      BY <1>6
    <3> QED BY <3>1 DEF Card!Advance, Size
  <2> QED BY <2>1, <2>2, <2>3, <2>4 DEF Card!Recv
<1>11. Card!Copied(len + Align) = Card!FrameOf(d + 1, len)
  <2>1. len + Align - Align = len
    BY <1>6
  <2>2. ASSUME NEW i \in 1 .. len PROVE ring[Card!At(rxOffset + Align + i - 1)] = Card!Datum(d + 1, i)
    <3> PICK j : j = Align + i - 1
      OBVIOUS
    <3>1. j \in 0 .. s - 1 /\ j # 0 /\ ~(j < Align) /\ ~(j >= Align + len) /\ j - Align + 1 = i
      BY SMTT(20), <1>6
    <3>2. rxOffset + Align + i - 1 = rxOffset + j
      BY <1>3, <1>6
    <3>3. ring[Card!At(rxOffset + j)] = CellOf(d + 1, len, j)
      BY <1>7, <3>1
    <3>4. CellOf(d + 1, len, j) = Card!Datum(d + 1, i)
      <4>1. CellOf(d + 1, len, j) = Card!Datum(d + 1, j - Align + 1)
        BY <3>1 DEF CellOf
      <4> QED BY <3>1, <4>1
    <3> QED BY <3>2, <3>3, <3>4
  <2>3. Card!Copied(len + Align) = [i \in 1 .. len |-> ring[Card!At(rxOffset + Align + i - 1)]]
    <3> PICK raw, m : raw = len + Align /\ m = raw - Align
      OBVIOUS
    <3>1. Card!Copied(raw) = [i \in 1 .. m |-> ring[Card!At(rxOffset + Align + i - 1)]]
      BY DEF Card!Copied
    <3>2. m = len
      BY <1>6
    <3> QED BY <3>1, <3>2
  <2>4. [i \in 1 .. len |-> ring[Card!At(rxOffset + Align + i - 1)]] = [i \in 1 .. len |-> Card!Datum(d + 1, i)]
    BY <2>2
  <2> QED BY <2>3, <2>4 DEF Card!FrameOf
<1>12. Counted(d + 1, n, L)'
  <2>1. Card!FrameOf(d + 1, len) \in FrameSet
    <3>1. d + 1 \in Nat
      OBVIOUS
    <3> QED BY <3>1, <1>5 DEF FrameSet
  <2>2. delivered' \in Seq(FrameSet) /\ Len(delivered') = d + 1 /\ delivered'[d + 1] = Card!FrameOf(d + 1, len)
        /\ \A i \in 1 .. d : delivered'[i] = delivered[i]
    BY <1>1, <1>10, <1>11, <2>1
  <2>3. \A i \in 1 .. d + 1 : delivered'[i] = accepted[i]
    <3>1. accepted[d + 1] = Card!FrameOf(d + 1, len)
      BY <1>1, <1>5
    <3>2. ASSUME NEW i \in 1 .. d + 1, i # d + 1 PROVE i \in 1 .. d
      BY <3>2
    <3> QED BY <1>1, <2>2, <3>1, <3>2
  <2> QED BY <1>1, <1>10, <2>2, <2>3 DEF Counted
<1>13. D[d + 2] = s /\ \A k \in d + 2 .. n + 1 : D[k] \in 0 .. Ring - 1 /\ D[k] >= s /\ D2[k] = D[k] - s
  <2>1. D[(d + 1) + 1] = D[d + 1] + Size(L[d + 1])
    BY <1>2, <1>5
  <2>2. D[d + 2] = s
    BY <2>1, <1>2, <1>6
  <2>3. ASSUME NEW k \in d + 2 .. n + 1 PROVE D[k] \in 0 .. Ring - 1 /\ D[k] >= s
    <3>1. k \in d + 1 .. n + 1 /\ d + 2 <= k
      OBVIOUS
    <3> QED BY <1>2, <1>5, <2>2, <3>1
  <2> QED BY <2>2, <2>3
<1>14. Spaced(d + 1, n, L, D2)'
  <2>1. D2 \in [d + 2 .. n + 1 -> 0 .. Ring - 1] /\ D2[d + 2] = 0
    <3>1. \A k \in d + 2 .. n + 1 : D[k] - s \in 0 .. Ring - 1
      BY SMTT(20), <1>6, <1>13
    <3>2. d + 2 \in d + 2 .. n + 1
      BY <1>5
    <3> QED BY <1>6, <1>13, <3>1, <3>2
  <2>2. ASSUME NEW k \in d + 2 .. n PROVE D2[k + 1] = D2[k] + Size(L[k])
    <3>1. k \in d + 1 .. n /\ k \in d + 2 .. n + 1 /\ k + 1 \in d + 2 .. n + 1 /\ k \in 1 .. n
      OBVIOUS
    <3>2. D[k + 1] = D[k] + Size(L[k]) /\ Size(L[k]) \in Nat
      BY <1>1, <1>2, <3>1, SizeOf
    <3> QED BY SMTT(20), <1>6, <1>13, <3>1, <3>2
  <2>3. ASSUME NEW i \in d + 2 .. n + 1, NEW k \in d + 2 .. n + 1, i <= k PROVE D2[i] <= D2[k]
    <3>1. D[i] <= D[k]
      BY <1>2, <2>3
    <3> PICK x, y : x = D[i] /\ y = D[k]
      OBVIOUS
    <3>2. x \in Nat /\ y \in Nat /\ D2[i] = x - s /\ D2[k] = y - s
      BY <1>6, <1>13
    <3> QED BY <1>6, <3>1, <3>2
  <2>4. (d + 1) + 1 = d + 2
    OBVIOUS
  <2> QED BY <2>1, <2>2, <2>3, <2>4 DEF Spaced
<1>15. Laid(d + 1, n, L, D2)'
  <2> PICK o : o = Card!At(rxOffset + s)
    OBVIOUS
  <2>1. o \in 0 .. Ring - 1
    BY <1>3, <1>6, PlaceAt
  <2>2. ASSUME NEW x \in 0 .. Ring - 1, x >= s PROVE Card!At(o + (x - s)) = Card!At(rxOffset + x)
    <3> PICK y : y = x - s
      OBVIOUS
    <3>1. y \in 0 .. Ring - 1 /\ s \in 0 .. Ring - 1 /\ s + y < Ring /\ s + y = x
      BY <2>2, <1>6, Behind
    <3> QED BY <1>3, <3>1, PlaceOn
  <2>3. cbr' = Card!At(o + D2[n + 1])
    BY <1>3, <1>5, <1>10, <1>13, <2>2
  <2>4. ASSUME NEW k \in d + 2 .. n, NEW j \in 0 .. Size(L[k]) - 1
        PROVE  ring[Card!At(o + (D2[k] + j))] = CellOf(k, L[k], j)
    <3>0. PICK x, z, w : x = w + j /\ z = Size(L[k]) /\ w = D[k]
      OBVIOUS
    <3>1. k \in d + 1 .. n /\ k \in d + 2 .. n + 1 /\ k + 1 \in d + 1 .. n + 1 /\ k \in 1 .. n
      OBVIOUS
    <3>2. D[k + 1] = w + z /\ D[k + 1] \in 0 .. Ring - 1
      BY <3>0, <1>2, <3>1
    <3>3. z \in Nat /\ j \in 0 .. z - 1
      BY <3>0, <1>1, <3>1, SizeOf
    <3>4. w \in Nat /\ w >= s /\ D2[k] = w - s
      BY <3>0, <1>6, <1>13, <3>1
    <3>5. x \in 0 .. Ring - 1
      <4>1. PICK e : e = D[k + 1]
        OBVIOUS
      <4>2. e \in 0 .. Ring - 1 /\ w + z <= e
        BY <4>1, <3>2, <3>3, <3>4
      <4>3. w + j \in 0 .. Ring - 1
        BY <4>2, <3>3, <3>4, Before
      <4> QED BY <4>3, <3>0
    <3>6. x >= s /\ D2[k] + j = x - s
      <4>1. j \in Nat
        BY <3>3
      <4>2. w + j >= s /\ (w - s) + j = (w + j) - s
        BY SMTT(20), <4>1, <3>4, <1>6, Shifted
      <4> QED BY <4>2, <3>0, <3>4
    <3>7. Card!At(o + (D2[k] + j)) = Card!At(rxOffset + x)
      BY <2>2, <3>5, <3>6
    <3> QED BY <1>4, <3>0, <3>1, <3>7
  <2>5. (d + 1) + 1 = d + 2
    OBVIOUS
  <2> QED BY <1>3, <1>10, <2>1, <2>3, <2>4, <2>5 DEF Laid
<1> QED BY <1>12, <1>14, <1>15 DEF InRing

(* Where no frame is left, nothing is read, or the driver is misled.        *)
LEMMA RecvEmpty ==
  ASSUME NEW n \in Nat, NEW L, NEW D, InRing(n, n, L, D), Card!Recv, ~misled'
  PROVE  InRing(n, n, L, D)'
<1>1. D[n + 1] = 0 /\ rxOffset \in 0 .. Ring - 1 /\ cbr = Card!At(rxOffset + D[n + 1])
  BY DEF InRing, Spaced, Laid
<1>2. cbr = rxOffset
  BY <1>1, PlaceZero
<1>3. PICK h \in Card!Readings(ring[rxOffset]) :
        /\ misled' = (misled \/ (cbr = rxOffset /\ ring[rxOffset].kind # "zero") \/ (h.ok /\ h.raw > MaxRaw))
        /\ \/ ~h.ok /\ UNCHANGED <<rxOffset, delivered>>
           \/ h.ok
  BY DEF Card!Recv
<1>4. ring[rxOffset].kind = "zero"
  BY <1>2, <1>3
<1>5. h.ok = FALSE
  BY <1>3, <1>4 DEF Card!Readings
<1>6. UNCHANGED <<rxOffset, delivered, ring, cbr, accepted>>
  BY <1>3, <1>5 DEF Card!Recv
<1> QED BY <1>6 DEF InRing, Counted, Spaced, Laid

LEMMA RecvNext == RecvInv /\ Card!Next => RecvInv'
<1> SUFFICES ASSUME RecvInv, Card!Next, ~misled' PROVE \E d, n \in Nat : \E L, D : InRing(d, n, L, D)'
  BY DEF RecvInv
<1>1. ~misled
  BY DEF Card!Next, Card!Arrive, Card!Recv, Card!Send, Card!CardSends, Card!Sent, Card!TimeOut, Card!rx
<1>2. PICK d \in Nat, n \in Nat : \E L, D : InRing(d, n, L, D)
  BY <1>1 DEF RecvInv
<1>3. PICK L, D : InRing(d, n, L, D)
  BY <1>2
<1>4. d <= n
  BY <1>3 DEF InRing, Counted
<1>5. ASSUME NEW len \in Lengths, Card!Arrive(len) PROVE \E d2, n2 \in Nat : \E L2, D2 : InRing(d2, n2, L2, D2)'
  <2>1. n + 1 \in Nat
    OBVIOUS
  <2> QED BY <1>3, <1>5, <2>1, ArriveKeeps
<1>6. CASE Card!Recv
  <2>1. CASE d = n
    BY <1>3, <1>6, <2>1, RecvEmpty
  <2>2. CASE d < n
    <3>1. d + 1 \in Nat
      OBVIOUS
    <3> QED BY <1>3, <1>6, <2>2, <3>1, RecvKeeps
  <2> QED BY <1>4, <2>1, <2>2
<1>7. ASSUME UNCHANGED Card!rx PROVE InRing(d, n, L, D)'
  BY <1>3, <1>7 DEF Card!rx, InRing, Counted, Spaced, Laid
<1> QED BY <1>5, <1>6, <1>7 DEF Card!Next, Card!Send, Card!CardSends, Card!Sent, Card!TimeOut

LEMMA CardSteps == [PartsNext]_partVars => Card!Next \/ UNCHANGED cardVars
BY DEF PartsNext, partVars, NetTurn, CalcTurn, PuzzleTurn, PongTurn, AtaTurn, PageTurn, BodyTurn, Rendering, Browsing, Card!Next

(* Frames pass the card once, whole and in order: inwards until the driver  *)
(* is misled, outwards until send gives up.                                 *)
THEOREM FramesSafe == PartsSpec => []FramesInOrder
<1>1. PartsInit => RecvInv /\ SendInv
  <2>1. Card!Init => Turns
    <3> SUFFICES ASSUME Card!Init PROVE Turns
      OBVIOUS
    <3>1. sending = FALSE /\ own = {} /\ submitted = << >> /\ wire = << >> /\ txSlot = 0 /\ cardSlot = 0
      BY DEF Card!Init
    <3>2. txSlot \in Card!Slots /\ cardSlot \in Card!Slots
      BY <3>1 DEF Card!Slots
    <3>3. submitted \in Seq(Nat) /\ wire \in Seq(Nat)
      BY <3>1
    <3>4. sending \in BOOLEAN
      BY <3>1
    <3> QED BY <3>1, <3>2, <3>3, <3>4, Zenon DEF Turns
  <2> QED BY <2>1, RecvInit DEF PartsInit, SendInv
<1>2. RecvInv /\ SendInv /\ UNCHANGED cardVars => RecvInv' /\ SendInv'
  <2> SUFFICES ASSUME RecvInv, SendInv, UNCHANGED cardVars PROVE RecvInv' /\ SendInv'
    OBVIOUS
  <2>1. ASSUME NEW d, NEW n, NEW L, NEW D, InRing(d, n, L, D) PROVE InRing(d, n, L, D)'
    BY <2>1 DEF cardVars, InRing, Counted, Spaced, Laid
  <2>2. RecvInv'
    BY <2>1 DEF cardVars, RecvInv
  <2>3. SendInv'
    BY DEF cardVars, SendInv, Turns
  <2> QED BY <2>2, <2>3
<1>3. RecvInv /\ SendInv /\ [PartsNext]_partVars => (RecvInv /\ SendInv)'
  BY <1>2, CardSteps, RecvNext, SendNext
<1>4. RecvInv /\ SendInv => FramesInOrder
  BY ReadInOrder, TurnsInOrder DEF FramesInOrder
<1> QED BY <1>1, <1>3, <1>4, PTL DEF PartsSpec

(***************************************************************************)
(* A body in chunks: dechunk puts together the document that was cut.      *)
(***************************************************************************)
UnitT == [char : Chars \cup {"EOL", "number"}, num : Nat]

\* The least number of a set is there.
LEMMA LeastOf == ASSUME NEW S, S \subseteq Nat, S # {} PROVE \E x \in S : \A y \in S : x <= y
<1>1. PICK R : R = OpToRel(<, Nat)
  OBVIOUS
<1>2. IsWellFoundedOn(R, Nat)
  BY <1>1, NatLessThanWellFounded
<1>3. \A x, y \in Nat : y < x => <<y, x>> \in R
  BY <1>1 DEF OpToRel
<1>4. PICK x \in S : \A y \in S : ~ (<<y, x>> \in R)
  BY <1>2, WFMin
<1>5. ASSUME NEW y \in S PROVE x <= y
  <2>1. x \in Nat /\ y \in Nat /\ ~(y < x)
    BY <1>3, <1>4
  <2> QED BY <2>1
<1> QED BY <1>5

\* Bodies is defined: f holds the bodies from i on.
Following(f, s, n, k) ==
  IF k = n THEN {Body!Chunk(<<>>)}
  ELSE UNION {{Body!Chunk(SubSeq(s, k + 1, e)) \o rest : rest \in f[e]} : e \in k + 1 .. n}
Served(f, s, i, n) == f = [k \in i .. n |-> Following(f, s, n, k)]

LEMMA ServedOn ==
  ASSUME NEW s, NEW n \in Nat
  PROVE  \E f : Served(f, s, 0, n)
<1> DEFINE Bad == {m \in Nat : m <= n /\ ~\E f : Served(f, s, n - m, n)}
<1>1. SUFFICES ASSUME Bad # {} PROVE FALSE
  <2>1. n \in Nat /\ n <= n /\ n - n = 0
    OBVIOUS
  <2>2. n \in Bad \/ \E f : Served(f, s, 0, n)
    BY <2>1
  <2> QED BY <1>1, <2>2
<1>2. PICK m \in Bad : \A j \in Bad : m <= j
  <2>1. Bad \subseteq Nat
    OBVIOUS
  <2> QED BY <1>1, <2>1, LeastOf
<1>3. m \in Nat /\ m <= n /\ ~\E f : Served(f, s, n - m, n)
  OBVIOUS
<1>4. m # 0
  <2>1. SUFFICES ASSUME m = 0 PROVE FALSE
    OBVIOUS
  <2>2. PICK f : f = [k \in n .. n |-> {Body!Chunk(<<>>)}]
    OBVIOUS
  <2>3. \A k \in n .. n : k = n
    OBVIOUS
  <2>4. \A k \in n .. n : {Body!Chunk(<<>>)} = Following(f, s, n, k)
    BY <2>3 DEF Following
  <2>5. Served(f, s, n, n)
    BY <2>2, <2>4 DEF Served
  <2>6. n - m = n
    BY <2>1
  <2> QED BY <1>3, <2>5, <2>6
<1>5. PICK h \in Nat : m = h + 1
  BY <1>3, <1>4
<1>6. h \notin Bad
  <2>1. ~(m <= h)
    BY <1>5
  <2> QED BY <1>2, <2>1
<1>7. PICK i \in Nat : i = n - m /\ i + 1 = n - h /\ i < n
  BY <1>3, <1>5
<1>8. PICK f : Served(f, s, i + 1, n)
  <2>1. h <= n
    BY <1>3, <1>5
  <2> QED BY <1>6, <1>7, <2>1
<1>9. PICK g : g = [k \in i .. n |-> IF k = i THEN Following(f, s, n, i) ELSE f[k]]
  OBVIOUS
<1>10. \A k \in i + 1 .. n : g[k] = f[k]
  <2>1. ASSUME NEW k \in i + 1 .. n PROVE g[k] = f[k]
    <3>1. k \in i .. n /\ k # i
      BY <1>7
    <3> QED BY <1>9, <3>1
  <2> QED BY <2>1
<1>11. ASSUME NEW k \in i .. n PROVE Following(f, s, n, k) = Following(g, s, n, k)
  <2>1. ASSUME NEW e \in k + 1 .. n PROVE f[e] = g[e]
    <3>1. e \in i + 1 .. n
      BY <1>7
    <3> QED BY <1>10, <3>1
  <2>2. ASSUME NEW x PROVE x \in Following(f, s, n, k) <=> x \in Following(g, s, n, k)
    BY <2>1 DEF Following
  <2> QED BY <2>2
<1>12. ASSUME NEW k \in i .. n PROVE g[k] = Following(g, s, n, k)
  <2>1. CASE k = i
    BY <1>9, <1>11, <2>1
  <2>2. CASE k # i
    <3>1. k \in i + 1 .. n
      BY <1>7, <2>2
    <3>2. f[k] = Following(f, s, n, k)
      BY <1>8, <3>1 DEF Served
    <3> QED BY <1>10, <1>11, <3>1, <3>2
  <2> QED BY <2>1, <2>2
<1>13. Served(g, s, i, n)
  BY <1>9, <1>12 DEF Served
<1> QED BY <1>3, <1>7, <1>13

LEMMA BodiesServed ==
  ASSUME NEW s, Len(s) \in Nat
  PROVE  \A k \in 0 .. Len(s) : Body!Bodies(s)[k] = Following(Body!Bodies(s), s, Len(s), k)
<1>1. \E f : Served(f, s, 0, Len(s))
  BY ServedOn
<1>2. PICK f : f = CHOOSE x : Served(x, s, 0, Len(s))
  OBVIOUS
<1>3. Served(f, s, 0, Len(s))
  BY <1>1, <1>2, Zenon
<1>4. Body!Bodies(s) = f
  BY <1>2 DEF Body!Bodies, Served, Following
<1> QED BY <1>3, <1>4 DEF Served

\* What a body is made of: r follows the first i characters of s, and rest
\* the chunk with which r begins.
Opens(s, i, r, e, rest) ==
  /\ rest \in Seq(UnitT) /\ Len(rest) >= 3 /\ Len(r) = e - i + 3 + Len(rest)
  /\ r[1] = Body!Number(e - i) /\ r[2] = Body!EOL /\ r[e - i + 3] = Body!EOL
  /\ \A j \in 1 .. e - i : r[2 + j] = s[i + j]
  /\ \A j \in 1 .. Len(rest) : r[e - i + 3 + j] = rest[j]

LEMMA ChunkIs ==
  ASSUME NEW x \in Seq(UnitT)
  PROVE  /\ Body!Chunk(x) \in Seq(UnitT) /\ Len(Body!Chunk(x)) = Len(x) + 3
         /\ Body!Chunk(x)[1] = Body!Number(Len(x)) /\ Body!Chunk(x)[2] = Body!EOL /\ Body!Chunk(x)[Len(x) + 3] = Body!EOL
         /\ \A j \in 1 .. Len(x) : Body!Chunk(x)[2 + j] = x[j]
<1>1. Len(x) \in Nat /\ Body!Number(Len(x)) \in UnitT /\ Body!EOL \in UnitT
  BY DEF Body!Number, Body!EOL, Body!Unit, UnitT
<1>2. PICK a, b, n : a = Body!Number(Len(x)) /\ b = Body!EOL /\ n = Len(x)
  OBVIOUS
<1>3. PICK y : y = <<a, b>>
  OBVIOUS
<1>4. y \in Seq(UnitT) /\ Len(y) = 2 /\ y[1] = a /\ y[2] = b
  BY <1>1, <1>2, <1>3
<1>5. PICK z : z = <<b>>
  OBVIOUS
<1>6. z \in Seq(UnitT) /\ Len(z) = 1 /\ z[1] = b
  BY <1>1, <1>2, <1>5
<1>7. PICK u : u = y \o x
  OBVIOUS
<1>8. /\ u \in Seq(UnitT) /\ Len(u) = 2 + n
      /\ \A i \in 1 .. 2 + n : u[i] = IF i <= 2 THEN y[i] ELSE x[i - 2]
  <2>1. /\ u \in Seq(UnitT) /\ Len(u) = Len(y) + Len(x)
        /\ \A i \in 1 .. Len(y) + Len(x) : u[i] = IF i <= Len(y) THEN y[i] ELSE x[i - Len(y)]
    BY <1>4, <1>7, ConcatProperties
  <2> QED BY <1>2, <1>4, <2>1
<1>9. PICK v : v = u \o z
  OBVIOUS
<1>10. /\ v \in Seq(UnitT) /\ Len(v) = 2 + n + 1
       /\ \A i \in 1 .. 2 + n + 1 : v[i] = IF i <= 2 + n THEN u[i] ELSE z[i - (2 + n)]
  <2>1. /\ v \in Seq(UnitT) /\ Len(v) = Len(u) + Len(z)
        /\ \A i \in 1 .. Len(u) + Len(z) : v[i] = IF i <= Len(u) THEN u[i] ELSE z[i - Len(u)]
    BY <1>6, <1>8, <1>9, ConcatProperties
  <2> QED BY <2>1, <1>6, <1>8
<1>11. Body!Chunk(x) = v
  BY <1>2, <1>3, <1>5, <1>7, <1>9 DEF Body!Chunk
<1>12. v[1] = a /\ v[2] = b
  BY <1>1, <1>2, <1>4, <1>8, <1>10
<1>13. v[n + 3] = b
  BY <1>1, <1>2, <1>6, <1>10
<1>14. ASSUME NEW j \in 1 .. n PROVE v[2 + j] = x[j]
  <2>1. 2 + j \in 1 .. 2 + n /\ 2 + j \in 1 .. 2 + n + 1 /\ ~(2 + j <= 2) /\ 2 + j <= 2 + n /\ (2 + j) - 2 = j
    BY <1>1, <1>2
  <2> QED BY <2>1, <1>8, <1>10
<1> QED BY <1>1, <1>2, <1>10, <1>11, <1>12, <1>13, <1>14

LEMMA BodyIs ==
  ASSUME NEW s \in Seq(UnitT), NEW i \in 0 .. Len(s), NEW r \in Body!Bodies(s)[i]
  PROVE  /\ r \in Seq(UnitT) /\ Len(r) >= 3 /\ r[1].char = "number" /\ r[2] = Body!EOL
         /\ \/ i = Len(s) /\ Len(r) = 3 /\ r[1] = Body!Number(0)
            \/ \E e \in i + 1 .. Len(s) : \E rest \in Body!Bodies(s)[e] : Opens(s, i, r, e, rest)
<1> PICK n, B : n = Len(s) /\ B = Body!Bodies(s)
  OBVIOUS
<1>1. n \in Nat
  OBVIOUS
<1>2. \A k \in 0 .. n : B[k] = Following(B, s, n, k)
  BY <1>1, BodiesServed
<1> DEFINE Typed(k) == \A q \in B[k] : q \in Seq(UnitT) /\ Len(q) >= 3
<1>3. ASSUME NEW k \in 0 .. n, \A e \in k + 1 .. n : Typed(e), NEW q \in B[k]
      PROVE  /\ q \in Seq(UnitT) /\ Len(q) >= 3 /\ q[1].char = "number" /\ q[2] = Body!EOL
             /\ \/ k = n /\ Len(q) = 3 /\ q[1] = Body!Number(0)
                \/ \E e \in k + 1 .. n : \E rest \in B[e] : Opens(s, k, q, e, rest)
  <2>1. CASE k = n
    <3>1. q = Body!Chunk(<<>>)
      BY <1>2, <2>1 DEF Following
    <3>2. <<>> \in Seq(UnitT) /\ Len(<<>>) = 0
      OBVIOUS
    <3>3. q \in Seq(UnitT) /\ Len(q) = 0 + 3 /\ q[1] = Body!Number(0) /\ q[2] = Body!EOL
      BY <3>1, <3>2, ChunkIs
    <3> QED BY <2>1, <3>3 DEF Body!Number
  <2>2. CASE k # n
    <3>A. PICK e \in k + 1 .. n : \E rest \in B[e] : q = Body!Chunk(SubSeq(s, k + 1, e)) \o rest
      <4>1. q \in Following(B, s, n, k)
        BY <1>2
      <4> HIDE DEF Typed
      <4> QED BY <2>2, <4>1 DEF Following
    <3>1. PICK rest \in B[e] : q = Body!Chunk(SubSeq(s, k + 1, e)) \o rest
      BY <3>A
    <3>2. rest \in Seq(UnitT) /\ Len(rest) >= 3
      BY <1>3, <3>1
    <3>3. PICK x : x = SubSeq(s, k + 1, e)
      OBVIOUS
    <3>4. x \in Seq(UnitT) /\ Len(x) = e - k /\ \A j \in 1 .. e - k : x[j] = s[k + j]
      <4>1. PICK a \in Nat : a = k + 1 /\ a <= e /\ e - a + 1 = e - k
        BY <1>1
      <4>2. \A j \in a .. e : s[j] \in UnitT
        <5>1. \A j \in a .. e : j \in 1 .. Len(s)
          BY <1>1, <4>1
        <5> QED BY <5>1, ElementOfSeq
      <4>3. x = SubSeq(s, a, e) /\ e \in Int
        BY <3>3, <4>1
      <4>4. x \in Seq(UnitT) /\ Len(x) = e - a + 1
        BY <4>1, <4>2, <4>3, SubSeqProperties
      <4>5. \A j \in 1 .. e - a + 1 : x[j] = s[a + j - 1]
        BY <4>2, <4>3, SubSeqProperties
      <4>6. ASSUME NEW j \in 1 .. e - k PROVE x[j] = s[k + j]
        <5>1. j \in 1 .. e - a + 1 /\ a + j - 1 = k + j
          BY <4>1
        <5> QED BY <4>5, <5>1
      <4> QED BY <4>1, <4>4, <4>6
    <3>5. PICK c : c = Body!Chunk(x)
      OBVIOUS
    <3>6. PICK d \in Nat \ {0} : d = e - k
      BY <1>1
    <3>7. /\ c \in Seq(UnitT) /\ Len(c) = d + 3
          /\ c[1] = Body!Number(d) /\ c[2] = Body!EOL /\ c[d + 3] = Body!EOL
          /\ \A j \in 1 .. d : c[2 + j] = x[j]
      BY <3>4, <3>5, <3>6, ChunkIs
    <3>8. q = c \o rest
      BY <3>1, <3>3, <3>5
    <3>9. PICK m \in Nat : m = Len(rest)
      BY <3>2
    <3>10. /\ q \in Seq(UnitT) /\ Len(q) = d + 3 + m
           /\ \A j \in 1 .. d + 3 + m : q[j] = IF j <= d + 3 THEN c[j] ELSE rest[j - (d + 3)]
      <4>1. /\ q \in Seq(UnitT) /\ Len(q) = Len(c) + Len(rest)
            /\ \A j \in 1 .. Len(c) + Len(rest) : q[j] = IF j <= Len(c) THEN c[j] ELSE rest[j - Len(c)]
        <5>1. c \in Seq(UnitT) /\ rest \in Seq(UnitT) /\ q = c \o rest
          BY <3>2, <3>7, <3>8
        <5>2. q \in Seq(UnitT) /\ Len(q) = Len(c) + Len(rest)
          BY <5>1, ConcatProperties
        <5>3. \A j \in 1 .. Len(c) + Len(rest) : q[j] = IF j <= Len(c) THEN c[j] ELSE rest[j - Len(c)]
          BY <5>1, ConcatProperties
        <5> QED BY <5>2, <5>3
      <4> QED BY <4>1, <3>7, <3>9
    <3>11. q[1] = Body!Number(d) /\ q[2] = Body!EOL /\ q[d + 3] = Body!EOL
      BY <3>7, <3>10
    <3>12. \A j \in 1 .. d : q[2 + j] = s[k + j]
      <4>1. ASSUME NEW j \in 1 .. d PROVE q[2 + j] = x[j]
        <5>1. 2 + j \in 1 .. d + 3 + m /\ 2 + j <= d + 3
          OBVIOUS
        <5> QED BY <5>1, <3>7, <3>10
      <4> QED BY <4>1, <3>4, <3>6
    <3>13. ASSUME NEW j \in 1 .. m PROVE q[d + 3 + j] = rest[j]
      <4>1. d + 3 + j \in 1 .. d + 3 + m /\ ~(d + 3 + j <= d + 3) /\ (d + 3 + j) - (d + 3) = j
        OBVIOUS
      <4> QED BY <4>1, <3>10
    <3>14. Opens(s, k, q, e, rest)
      BY <3>2, <3>6, <3>9, <3>10, <3>11, <3>12, <3>13 DEF Opens
    <3> QED BY <3>2, <3>9, <3>10, <3>11, <3>14 DEF Body!Number
  <2> QED BY <2>1, <2>2
<1>4. \A k \in 0 .. n : Typed(k)
  <2> DEFINE Bad == {h \in Nat : h <= n /\ ~Typed(n - h)}
  <2>1. SUFFICES ASSUME Bad # {} PROVE FALSE
    <3>1. ASSUME NEW k \in 0 .. n, ~Typed(k) PROVE n - k \in Bad
      <4>1. n - k \in Nat /\ n - k <= n /\ n - (n - k) = k
        BY <1>1
      <4> QED BY <3>1, <4>1
    <3> HIDE DEF Typed, Bad
    <3> QED BY <2>1, <3>1
  <2>2. PICK h \in Bad : \A j \in Bad : h <= j
    <3>1. Bad \subseteq Nat
      OBVIOUS
    <3> HIDE DEF Bad
    <3> QED BY <2>1, <3>1, LeastOf
  <2>3. n - h \in 0 .. n /\ ~Typed(n - h)
    BY <1>1
  <2>4. ASSUME NEW e \in n - h + 1 .. n PROVE Typed(e)
    <3>1. n - e \in Nat /\ n - e <= n /\ n - (n - e) = e /\ ~(h <= n - e)
      BY <1>1, <2>3
    <3>2. n - e \notin Bad
      BY <2>2, <3>1
    <3> HIDE DEF Typed
    <3> QED BY <3>1, <3>2
  <2>5. Typed(n - h)
    BY <1>3, <2>3, <2>4
  <2> QED BY <2>3, <2>5
<1>5. i \in 0 .. n /\ r \in B[i] /\ \A e \in i + 1 .. n : Typed(e)
  BY <1>1, <1>4
<1> HIDE DEF Typed
<1> QED BY <1>3, <1>5

\* The first i characters have been copied; from place k on the buffer is
\* the beginning of r, all of it if the body came whole; in the middle of a
\* chunk what is left of it precedes the rest.
Copied(i) == i \in 0 .. Len(document) /\ Len(dst) = i /\ \A j \in 1 .. i : dst[j] = document[j]
Runs(k, r) ==
  /\ k \in 1 .. Len(buf) + 1 /\ Len(buf) - k + 1 <= Len(r)
  /\ \A j \in 1 .. Len(buf) - k + 1 : buf[k - 1 + j] = r[j]
  /\ Body!Whole => Len(buf) - k + 1 = Len(r)
Midway(k, i, e, rest) ==
  /\ k \in 1 .. Len(buf) + 1 /\ Len(buf) - k + 1 <= e - i + 1 + Len(rest)
  /\ \A j \in 1 .. Len(buf) - k + 1 :
       buf[k - 1 + j] = IF j <= e - i THEN document[i + j] ELSE IF j = e - i + 1 THEN Body!EOL ELSE rest[j - (e - i + 1)]
  /\ Body!Whole => Len(buf) - k + 1 = e - i + 1 + Len(rest)

AtStart == \E r \in Body!Bodies(document)[0] : Runs(1, r)
AtChunk(i) == Copied(i) /\ \E r \in Body!Bodies(document)[i] : Runs(src, r)
AtLine(i) == Copied(i) /\ src <= Len(buf) /\ \E r \in Body!Bodies(document)[i] : Runs(src, r) /\ size = r[1].num
AtData(i, e) ==
  /\ Copied(i) /\ e \in i + 1 .. Len(document) /\ size = e - i
  /\ \E rest \in Body!Bodies(document)[e] : Midway(src, i, e, rest)

InChunks ==
  /\ chunkPc \in {"test", "size", "skip", "copy", "done"}
  /\ chunkPc = "test" => src = 1 /\ Copied(0) /\ AtStart
  /\ chunkPc = "size" => \E i \in 0 .. Len(document) : AtChunk(i)
  /\ chunkPc = "skip" => \E i \in 0 .. Len(document) : AtLine(i)
  /\ chunkPc = "copy" => \E i \in 0 .. Len(document) : \E e \in i + 1 .. Len(document) : AtData(i, e)
  /\ chunkPc = "done" => \E i \in 0 .. Len(document) : Copied(i) /\ (Body!Whole => i = Len(document))
InOnePiece ==
  /\ Len(buf) <= Len(document) /\ \A j \in 1 .. Len(buf) : buf[j] = document[j]
  /\ chunkPc = "test" => src = 1
  /\ chunkPc # "test" => Body!Mistaken \/ (chunkPc = "done" /\ dst = buf)
DechunkInv ==
  /\ document \in Seq(UnitT) /\ buf \in Seq(UnitT) /\ chunked \in BOOLEAN /\ Len(document) < Half
  /\ IF chunked THEN dst \in Seq(UnitT) /\ InChunks ELSE InOnePiece

LEMMA LineEndAt ==
  ASSUME NEW p \in Nat, NEW k \in Nat, k <= p, Len(buf) \in Nat,
         (p <= Len(buf) /\ buf[p] = Body!EOL) \/ p = Len(buf),
         \A j \in k .. p - 1 : buf[j] # Body!EOL
  PROVE  Body!LineEnd(k) = p
<1> PICK ends : ends = {i \in k .. Len(buf) : buf[i] = Body!EOL}
  OBVIOUS
<1>1. Body!LineEnd(k) = IF ends = {} THEN Len(buf) ELSE Body!Min(ends)
  BY DEF Body!LineEnd
<1>2. ASSUME NEW j \in ends PROVE j \in Nat /\ p <= j
  BY <1>2
<1>3. CASE ends = {}
  <2>1. ~(p <= Len(buf) /\ buf[p] = Body!EOL)
    BY <1>3
  <2> QED BY <1>1, <1>3, <2>1
<1>4. CASE ends # {}
  <2>1. p \in ends
    <3>1. PICK j \in ends : TRUE
      BY <1>4
    <3>2. j \in k .. Len(buf) /\ buf[j] = Body!EOL /\ p <= j
      BY <1>2
    <3>3. p <= Len(buf) /\ buf[p] = Body!EOL
      BY <3>2
    <3> QED BY <3>3
  <2>2. Body!Min(ends) = CHOOSE x \in ends : \A y \in ends : x <= y
    BY DEF Body!Min
  <2>3. PICK z : z = CHOOSE x \in ends : \A y \in ends : x <= y
    OBVIOUS
  <2>4. z \in ends /\ \A y \in ends : z <= y
    BY <1>2, <2>1, <2>3
  <2>5. z = p
    BY <1>2, <2>1, <2>4
  <2> QED BY <1>1, <1>4, <2>2, <2>3, <2>5
<1> QED BY <1>3, <1>4

\* The document, the body and whether it is in chunks stay.
LEMMA Settled ==
  ASSUME Body!Next
  PROVE  UNCHANGED <<document, chunked, buf>>
BY DEF Body!Next, Body!LooksChunked, Body!ReadSize, Body!SkipLine, Body!Astray, Body!CopyChunk

LEMMA PieceStep ==
  ASSUME DechunkInv, ~chunked, Body!Next
  PROVE  DechunkInv'
<1>1. UNCHANGED <<document, chunked, buf>>
  BY Settled
<1>2. Body!Mistaken' <=> Body!Mistaken
  BY <1>1 DEF Body!Mistaken, Body!IsDigits
<1>3. chunkPc' # "test" /\ (Body!Mistaken' \/ (chunkPc' = "done" /\ dst' = buf'))
  <2>1. CASE Body!LooksChunked
    <3>1. src = 1 /\ Len(buf) \in Nat /\ (Len(buf) = 0 <=> buf = <<>>)
      BY <2>1 DEF Body!LooksChunked, DechunkInv, InOnePiece
    <3> QED BY <2>1, <3>1, <1>1, <1>2 DEF Body!LooksChunked, Body!Left, Body!Mistaken
  <2>2. CASE Body!ReadSize
    BY <2>2, <1>2 DEF Body!ReadSize, DechunkInv, InOnePiece
  <2>3. CASE Body!SkipLine
    BY <2>3, <1>2 DEF Body!SkipLine, DechunkInv, InOnePiece
  <2>4. CASE Body!CopyChunk
    BY <2>4, <1>2 DEF Body!CopyChunk, DechunkInv, InOnePiece
  <2>5. CASE Body!Astray
    BY <2>5, <1>2 DEF Body!Astray, DechunkInv, InOnePiece
  <2> QED BY <2>1, <2>2, <2>3, <2>4, <2>5 DEF Body!Next
<1> QED BY <1>1, <1>3 DEF DechunkInv, InOnePiece

LEMMA RunsOn ==
  ASSUME UNCHANGED <<document, chunked, buf>>
  PROVE  /\ \A k, r : Runs(k, r)' <=> Runs(k, r)
         /\ \A k, i, e, rest : Midway(k, i, e, rest)' <=> Midway(k, i, e, rest)
         /\ Body!Whole' <=> Body!Whole
BY DEF Runs, Midway, Body!Whole

LEMMA TestStep ==
  ASSUME DechunkInv, chunked, Body!LooksChunked
  PROVE  DechunkInv'
<1>1. UNCHANGED <<document, chunked, buf, src>> /\ chunkPc = "test" /\ src = 1 /\ Copied(0) /\ AtStart
  BY DEF Body!LooksChunked, DechunkInv, InChunks
<1>2. PICK r \in Body!Bodies(document)[0] : Runs(1, r)
  BY <1>1 DEF AtStart
<1>3. document \in Seq(UnitT) /\ 0 \in 0 .. Len(document) /\ buf \in Seq(UnitT) /\ dst \in Seq(UnitT)
  BY DEF DechunkInv
<1>4. Len(r) >= 3 /\ r[1].char = "number"
  BY <1>3, BodyIs
<1>5. CASE Len(buf) = 0
  <2>1. chunkPc' = "done" /\ dst' = buf /\ buf = <<>>
    BY <1>1, <1>3, <1>5 DEF Body!LooksChunked, Body!Left
  <2>2. ~Body!Whole
    BY <1>2, <1>4, <1>5 DEF Runs
  <2>3. Copied(0)'
    BY <1>1, <1>3, <1>5, <2>1 DEF Copied
  <2>4. ~Body!Whole'
    BY <1>1, <2>2, RunsOn
  <2>5. \E i \in 0 .. Len(document') : Copied(i)' /\ (Body!Whole' => i = Len(document'))
    BY <1>1, <1>3, <2>3, <2>4
  <2> QED BY <1>1, <1>3, <2>1, <2>5 DEF DechunkInv, InChunks
<1>6. CASE Len(buf) # 0
  <2>1. buf[1] = r[1]
    <3>1. 1 \in 1 .. Len(buf) - 1 + 1 /\ 1 - 1 + 1 = 1
      BY <1>3, <1>6
    <3> QED BY <1>2, <3>1 DEF Runs
  <2>2. chunkPc' = "size" /\ dst' = dst
    <3>1. Body!Left /\ Body!IsDigits(buf[1])
      BY <1>1, <1>3, <1>4, <1>6, <2>1 DEF Body!Left, Body!IsDigits
    <3> QED BY <3>1 DEF Body!LooksChunked
  <2>3. Copied(0)'
    BY <1>1, <2>2 DEF Copied
  <2>4. Runs(src, r)'
    BY <1>1, <1>2 DEF Runs, Body!Whole
  <2>5. AtChunk(0)'
    BY <1>1, <1>2, <2>3, <2>4 DEF AtChunk
  <2>6. \E i \in 0 .. Len(document') : AtChunk(i)'
    BY <1>1, <1>3, <2>5
  <2> QED BY <1>1, <1>3, <2>2, <2>6 DEF DechunkInv, InChunks
<1> QED BY <1>5, <1>6

LEMMA SizeStep ==
  ASSUME DechunkInv, chunked, Body!ReadSize
  PROVE  DechunkInv'
<1>1. UNCHANGED <<document, chunked, buf, src, dst>> /\ chunkPc = "size"
  BY DEF Body!ReadSize
<1>2. PICK i \in 0 .. Len(document) : AtChunk(i)
  BY <1>1 DEF DechunkInv, InChunks
<1>3. PICK r \in Body!Bodies(document)[i] : Runs(src, r)
  BY <1>2 DEF AtChunk
<1>4. document \in Seq(UnitT) /\ buf \in Seq(UnitT) /\ dst \in Seq(UnitT)
  BY DEF DechunkInv
<1>5. Len(r) >= 3 /\ r[1].char = "number"
  BY <1>4, BodyIs
<1>6. Copied(i)'
  BY <1>1, <1>2 DEF AtChunk, Copied
<1>7. src \in 1 .. Len(buf) + 1 /\ Len(buf) \in Nat
  BY <1>3, <1>4 DEF Runs
<1>8. CASE src = Len(buf) + 1
  <2>1. chunkPc' = "done"
    BY <1>7, <1>8 DEF Body!ReadSize, Body!Left
  <2>2. ~Body!Whole
    BY <1>3, <1>5, <1>7, <1>8 DEF Runs
  <2>3. ~Body!Whole'
    BY <1>1, <2>2, RunsOn
  <2>4. \E j \in 0 .. Len(document') : Copied(j)' /\ (Body!Whole' => j = Len(document'))
    BY <1>1, <1>2, <1>6, <2>3
  <2> QED BY <1>1, <1>4, <2>1, <2>4 DEF DechunkInv, InChunks
<1>9. CASE src <= Len(buf)
  <2>1. buf[src] = r[1]
    <3>1. 1 \in 1 .. Len(buf) - src + 1 /\ src - 1 + 1 = src
      BY <1>7, <1>9
    <3> QED BY <1>3, <3>1 DEF Runs
  <2>2. chunkPc' = "skip" /\ size' = r[1].num
    <3>1. Body!Left /\ Body!IsDigits(buf[src])
      BY <1>5, <1>9, <2>1 DEF Body!Left, Body!IsDigits
    <3>2. Body!ReadAs(buf[src]) = {r[1].num}
      BY <1>5, <2>1 DEF Body!ReadAs
    <3> QED BY <3>1, <3>2 DEF Body!ReadSize
  <2>3. Runs(src, r)'
    BY <1>1, <1>3 DEF Runs, Body!Whole
  <2>4. AtLine(i)'
    BY <1>1, <1>3, <1>6, <1>9, <2>2, <2>3 DEF AtLine
  <2>5. \E j \in 0 .. Len(document') : AtLine(j)'
    BY <1>1, <2>4
  <2> QED BY <1>1, <1>4, <2>2, <2>5 DEF DechunkInv, InChunks
<1> QED BY <1>7, <1>8, <1>9

LEMMA LineStep ==
  ASSUME DechunkInv, chunked, Body!SkipLine
  PROVE  DechunkInv'
<1>1. UNCHANGED <<document, chunked, buf, size, dst>> /\ chunkPc = "skip"
  BY DEF Body!SkipLine
<1>2. PICK i \in 0 .. Len(document) : AtLine(i)
  BY <1>1 DEF DechunkInv, InChunks
<1>3. PICK r \in Body!Bodies(document)[i] : Runs(src, r) /\ size = r[1].num
  BY <1>2 DEF AtLine
<1>4. document \in Seq(UnitT) /\ buf \in Seq(UnitT) /\ dst \in Seq(UnitT) /\ Len(document) \in Nat /\ Len(buf) \in Nat
  BY DEF DechunkInv
<1>5. Len(r) >= 3 /\ Len(r) \in Nat /\ r[1].char = "number" /\ r[2] = Body!EOL
  BY <1>4, BodyIs
<1>6. Copied(i)'
  BY <1>1, <1>2 DEF AtLine, Copied
<1>7. src \in 1 .. Len(buf)
  BY <1>2, <1>3, <1>4 DEF AtLine, Runs
<1>8. buf[src] = r[1] /\ (src < Len(buf) => buf[src + 1] = Body!EOL)
  <2>1. 1 \in 1 .. Len(buf) - src + 1 /\ src - 1 + 1 = src /\ src - 1 + 2 = src + 1
    BY <1>4, <1>7
  <2>2. src < Len(buf) => 2 \in 1 .. Len(buf) - src + 1
    BY <1>4, <1>7
  <2> QED BY <1>3, <1>5, <2>1, <2>2 DEF Runs
<1>9. buf[src] # Body!EOL
  BY <1>5, <1>8 DEF Body!EOL, Body!Unit
<1>10. PICK p \in Nat : p = IF src < Len(buf) THEN src + 1 ELSE src
  BY <1>7
<1>11. Body!LineEnd(src) = p
  <2>1. src \in Nat /\ src <= p /\ ((p <= Len(buf) /\ buf[p] = Body!EOL) \/ p = Len(buf))
    BY <1>4, <1>7, <1>8, <1>10
  <2>2. \A j \in src .. p - 1 : buf[j] # Body!EOL
    BY <1>7, <1>9, <1>10
  <2> QED BY <1>4, <2>1, <2>2, LineEndAt
<1>12. src' = p + 1 /\ chunkPc' = IF size = 0 THEN "done" ELSE "copy"
  BY <1>11 DEF Body!SkipLine
<1>13. CASE i = Len(document) /\ Len(r) = 3 /\ r[1] = Body!Number(0)
  <2>1. chunkPc' = "done"
    BY <1>3, <1>12, <1>13 DEF Body!Number
  <2>2. \E j \in 0 .. Len(document') : Copied(j)' /\ (Body!Whole' => j = Len(document'))
    BY <1>1, <1>6, <1>13
  <2> QED BY <1>1, <1>4, <2>1, <2>2 DEF DechunkInv, InChunks
<1>14. CASE \E e \in i + 1 .. Len(document) : \E rest \in Body!Bodies(document)[e] : Opens(document, i, r, e, rest)
  <2>1. PICK e \in i + 1 .. Len(document) : \E rest \in Body!Bodies(document)[e] : Opens(document, i, r, e, rest)
    BY <1>14
  <2>2. PICK rest \in Body!Bodies(document)[e] : Opens(document, i, r, e, rest)
    BY <2>1
  <2>3. PICK d, m \in Nat : d = e - i /\ m = Len(rest) /\ d > 0
    <3>1. e - i \in Nat /\ e - i > 0
      BY <1>4
    <3>2. Len(rest) \in Nat
      BY <2>2 DEF Opens
    <3> QED BY <3>1, <3>2
  <2>4. /\ Len(r) = d + 3 + m /\ r[1] = Body!Number(d) /\ r[d + 3] = Body!EOL
        /\ \A j \in 1 .. d : r[2 + j] = document[i + j]
        /\ \A j \in 1 .. m : r[d + 3 + j] = rest[j]
    BY <2>2, <2>3 DEF Opens
  <2>5. size = d /\ chunkPc' = "copy"
    BY <1>3, <1>12, <2>3, <2>4 DEF Body!Number
  <2>6. PICK n \in Nat : n = Len(buf) - (p + 1) + 1
    <3>1. p <= Len(buf)
      BY <1>4, <1>7, <1>10
    <3>2. Len(buf) - (p + 1) + 1 \in Nat
      BY <1>4, <3>1
    <3> QED BY <3>2
  <2>7. n <= d + 1 + m /\ (Body!Whole => n = d + 1 + m)
    <3>1. Len(buf) - src + 1 <= d + 3 + m /\ (Body!Whole => Len(buf) - src + 1 = d + 3 + m)
      BY <1>3, <2>4 DEF Runs
    <3>2. n = (IF src < Len(buf) THEN Len(buf) - src - 1 ELSE 0) /\ src \in Nat /\ src <= Len(buf)
      BY <1>4, <1>7, <1>10, <2>6
    <3> PICK l, k \in Nat : l = Len(buf) /\ k = src
      BY <1>4, <3>2
    <3>3. l - k + 1 <= d + 3 + m /\ n = (IF k < l THEN l - k - 1 ELSE 0) /\ k <= l
      BY <3>1, <3>2
    <3>4. n <= d + 1 + m
      BY <3>3
    <3>5. ASSUME Body!Whole PROVE n = d + 1 + m
      <4>1. l - k + 1 = d + 3 + m
        BY <3>1, <3>5
      <4> QED BY <3>3, <4>1
    <3> QED BY <3>4, <3>5
  <2>8. ASSUME NEW j \in 1 .. n
        PROVE buf[p + 1 - 1 + j] = IF j <= d THEN document[i + j] ELSE IF j = d + 1 THEN Body!EOL ELSE rest[j - (d + 1)]
    <3>1. src < Len(buf) /\ p = src + 1
      BY <1>4, <1>7, <1>10, <2>6
    <3>2. 2 + j \in 1 .. Len(buf) - src + 1 /\ src - 1 + (2 + j) = p + 1 - 1 + j
      BY <1>4, <1>7, <2>6, <3>1
    <3>3. buf[p + 1 - 1 + j] = r[2 + j]
      BY <1>3, <3>2 DEF Runs
    <3>4. CASE j <= d
      <4>1. j \in 1 .. d
        BY <3>4
      <4> QED BY <2>4, <3>3, <3>4, <4>1
    <3>5. CASE j = d + 1
      BY <2>4, <3>3, <3>5
    <3>6. CASE j > d + 1
      <4>1. j - (d + 1) \in 1 .. m /\ d + 3 + (j - (d + 1)) = 2 + j
        BY <2>3, <2>7, <3>6
      <4>2. r[2 + j] = rest[j - (d + 1)]
        BY <2>4, <4>1
      <4> QED BY <2>3, <3>3, <3>6, <4>2
    <3> QED BY <2>3, <3>4, <3>5, <3>6
  <2>9. Midway(p + 1, i, e, rest)
    BY <1>4, <1>7, <1>10, <2>3, <2>6, <2>7, <2>8 DEF Midway
  <2>10. Midway(src, i, e, rest)'
    BY <1>1, <1>12, <2>9 DEF Midway, Body!Whole
  <2>11. AtData(i, e)'
    BY <1>1, <1>6, <2>3, <2>5, <2>10 DEF AtData
  <2>12. \E j \in 0 .. Len(document') : \E x \in j + 1 .. Len(document') : AtData(j, x)'
    BY <1>1, <2>11
  <2> QED BY <1>1, <1>4, <2>5, <2>12 DEF DechunkInv, InChunks
<1> QED BY <1>4, <1>13, <1>14, BodyIs

LEMMA DataStep ==
  ASSUME DechunkInv, chunked, Body!CopyChunk
  PROVE  DechunkInv'
<1>1. UNCHANGED <<document, chunked, buf, size>> /\ chunkPc = "copy"
  BY DEF Body!CopyChunk
<1>2. PICK i \in 0 .. Len(document) : \E e \in i + 1 .. Len(document) : AtData(i, e)
  BY <1>1 DEF DechunkInv, InChunks
<1>3. PICK e \in i + 1 .. Len(document) : AtData(i, e)
  BY <1>2
<1>4. PICK rest \in Body!Bodies(document)[e] : Midway(src, i, e, rest)
  BY <1>3 DEF AtData
<1>5. document \in Seq(UnitT) /\ buf \in Seq(UnitT) /\ dst \in Seq(UnitT) /\ Len(document) \in Nat /\ Len(buf) \in Nat
  BY DEF DechunkInv
<1>6. e \in 0 .. Len(document) /\ i \in Nat
  BY <1>5
<1>7. Len(rest) \in Nat /\ Len(rest) >= 3
  BY <1>5, <1>6, BodyIs
<1>8. PICK d, m \in Nat : d = e - i /\ m = Len(rest) /\ d > 0 /\ m >= 3
  <2>1. e - i \in Nat /\ e - i > 0
    BY <1>5, <1>6
  <2> QED BY <1>7, <2>1
<1>9. PICK l, k \in Nat : l = Len(buf) /\ k = src /\ k > 0 /\ k <= l + 1
  BY <1>4, <1>5 DEF Midway
<1>10. PICK n \in Nat : n = l - k + 1
  BY <1>9
<1>11. /\ n <= d + 1 + m /\ (Body!Whole => n = d + 1 + m)
       /\ \A j \in 1 .. n : buf[k - 1 + j] = IF j <= d THEN document[i + j] ELSE IF j = d + 1 THEN Body!EOL ELSE rest[j - (d + 1)]
  BY <1>4, <1>8, <1>9, <1>10 DEF Midway
<1>12. PICK c \in Nat : c = IF d <= n THEN d ELSE n
  OBVIOUS
<1>13. PICK end \in Int : end = k + c - 1
  OBVIOUS
<1>14. end = IF src + size - 1 > Len(buf) THEN Len(buf) ELSE src + size - 1
  <2>1. size = d
    BY <1>3, <1>8 DEF AtData
  <2> QED BY <2>1, <1>9, <1>10, <1>12, <1>13
<1>15. /\ dst' = dst \o SubSeq(buf, k, end) /\ src' = Body!AfterEnd(end + 1)
       /\ chunkPc' = IF src' <= l THEN "size" ELSE "done"
  BY <1>1, <1>9, <1>14 DEF Body!CopyChunk
<1>16. dst' \in Seq(UnitT) /\ Copied(i + c)'
  <2>1. PICK x : x = SubSeq(buf, k, end)
    OBVIOUS
  <2>2. \A j \in k .. end : buf[j] \in UnitT
    <3>1. ASSUME NEW j \in k .. end PROVE j \in 1 .. Len(buf)
      BY <1>9, <1>10, <1>12, <1>13
    <3> QED BY <1>5, <3>1, ElementOfSeq
  <2>3. x \in Seq(UnitT) /\ Len(x) = c
    <3>1. Len(x) = IF k <= end THEN end - k + 1 ELSE 0
      BY <2>1, <2>2, SubSeqProperties
    <3>2. x \in Seq(UnitT)
      BY <2>1, <2>2, SubSeqProperties
    <3> QED BY <1>13, <3>1, <3>2
  <2>4. \A j \in 1 .. c : x[j] = buf[k + j - 1]
    <3>1. \A j \in 1 .. end - k + 1 : x[j] = buf[k + j - 1]
      BY <2>1, <2>2, SubSeqProperties
    <3> QED BY <1>13, <3>1
  <2>5. ASSUME NEW j \in 1 .. c PROVE x[j] = document[i + j]
    <3>1. j \in 1 .. n /\ j <= d /\ k + j - 1 = k - 1 + j
      BY <1>12
    <3> QED BY <1>11, <2>4, <3>1
  <2>6. Len(dst) = i /\ \A j \in 1 .. i : dst[j] = document[j]
    BY <1>3 DEF AtData, Copied
  <2>7. PICK y : y = dst'
    OBVIOUS
  <2>8. y \in Seq(UnitT) /\ Len(y) = i + c
    <3>1. y = dst \o x
      BY <1>15, <2>1, <2>7
    <3> QED BY <1>5, <2>3, <2>6, <3>1, ConcatProperties
  <2>9. \A j \in 1 .. i + c : y[j] = IF j <= i THEN dst[j] ELSE x[j - i]
    <3>1. y = dst \o x
      BY <1>15, <2>1, <2>7
    <3>2. \A j \in 1 .. Len(dst) + Len(x) : y[j] = IF j <= Len(dst) THEN dst[j] ELSE x[j - Len(dst)]
      BY <1>5, <2>3, <3>1, ConcatProperties
    <3> QED BY <2>3, <2>6, <3>2
  <2>10. ASSUME NEW j \in 1 .. i + c PROVE y[j] = document[j]
    <3>1. CASE j <= i
      <4>1. j \in 1 .. i
        BY <1>6, <3>1
      <4> QED BY <2>6, <2>9, <3>1, <4>1
    <3>2. CASE ~(j <= i)
      <4>1. j - i \in 1 .. c /\ i + (j - i) = j
        BY <1>6, <3>2
      <4> QED BY <2>5, <2>9, <3>2, <4>1
    <3> QED BY <3>1, <3>2
  <2>11. i + c \in 0 .. Len(document)
    BY <1>5, <1>6, <1>8, <1>12
  <2> QED BY <1>1, <2>7, <2>8, <2>10, <2>11 DEF Copied
<1>17. CASE n <= d
  <2>1. end + 1 = l + 1
    BY <1>10, <1>12, <1>13, <1>17
  <2>2. src' = l + 1
    BY <1>9, <1>15, <2>1 DEF Body!AfterEnd
  <2>3. chunkPc' = "done"
    BY <1>15, <2>2
  <2>4. ~Body!Whole
    BY <1>8, <1>11, <1>17
  <2>5. ~Body!Whole'
    BY <1>1, <2>4, RunsOn
  <2>6. i + c \in 0 .. Len(document')
    BY <1>1, <1>5, <1>6, <1>8, <1>12
  <2>7. \E j \in 0 .. Len(document') : Copied(j)' /\ (Body!Whole' => j = Len(document'))
    BY <1>16, <2>5, <2>6
  <2> QED BY <1>1, <1>5, <1>16, <2>3, <2>7 DEF DechunkInv, InChunks
<1>18. CASE n > d
  <2>1. i + c = e /\ end + 1 = k + d /\ k + d <= l /\ k + d = k - 1 + (d + 1)
    BY <1>6, <1>8, <1>9, <1>10, <1>12, <1>13, <1>18
  <2>2. buf[k + d] = Body!EOL
    <3>1. d + 1 \in 1 .. n /\ ~(d + 1 <= d)
      BY <1>18
    <3> QED BY <1>11, <2>1, <3>1
  <2>3. src' = k + d + 1
    BY <1>9, <1>15, <2>1, <2>2 DEF Body!AfterEnd
  <2>4. Copied(e)'
    BY <1>16, <2>1
  <2>5. CASE n = d + 1
    <3>1. chunkPc' = "done"
      BY <1>9, <1>10, <1>15, <2>3, <2>5
    <3>2. ~Body!Whole
      BY <1>8, <1>11, <2>5
    <3>3. ~Body!Whole'
      BY <1>1, <3>2, RunsOn
    <3>4. \E j \in 0 .. Len(document') : Copied(j)' /\ (Body!Whole' => j = Len(document'))
      BY <1>1, <1>6, <2>4, <3>3
    <3> QED BY <1>1, <1>5, <1>16, <3>1, <3>4 DEF DechunkInv, InChunks
  <2>6. CASE n > d + 1
    <3>1. chunkPc' = "size"
      <4>1. k + d + 1 <= l
        BY <1>9, <1>10, <2>6
      <4> QED BY <1>15, <2>3, <4>1
    <3>2. PICK h \in Nat : h = k + d + 1
      OBVIOUS
    <3>3. h \in 1 .. l + 1 /\ l - h + 1 = n - (d + 1)
      BY <1>9, <1>10, <2>6, <3>2
    <3>4. l - h + 1 <= m
      BY <1>11, <3>3
    <3>5. Body!Whole => l - h + 1 = m
      BY <1>11, <3>3
    <3>6. ASSUME NEW j \in 1 .. l - h + 1 PROVE buf[h - 1 + j] = rest[j]
      <4>1. d + 1 + j \in 1 .. n /\ ~(d + 1 + j <= d) /\ d + 1 + j # d + 1 /\ (d + 1 + j) - (d + 1) = j
        BY <3>3
      <4>2. k - 1 + (d + 1 + j) = h - 1 + j
        BY <3>2
      <4> QED BY <1>11, <4>1, <4>2
    <3>7. Runs(h, rest)
      BY <1>8, <1>9, <3>3, <3>4, <3>5, <3>6 DEF Runs
    <3>8. Runs(src, rest)'
      BY <1>1, <2>3, <3>2, <3>7 DEF Runs, Body!Whole
    <3>9. AtChunk(e)'
      BY <1>1, <2>4, <3>8 DEF AtChunk
    <3>10. \E j \in 0 .. Len(document') : AtChunk(j)'
      BY <1>1, <1>6, <3>9
    <3> QED BY <1>1, <1>5, <1>16, <3>1, <3>10 DEF DechunkInv, InChunks
  <2> QED BY <1>18, <2>5, <2>6
<1> QED BY <1>17, <1>18

\* The lengths in a body that is in chunks are those of its chunks.
LEMMA NeverAstray == DechunkInv /\ chunked => ~Body!Astray
<1> SUFFICES ASSUME DechunkInv, chunked, Body!Astray PROVE FALSE
  OBVIOUS
<1>1. chunkPc = "copy" /\ size >= Half /\ Len(document) \in Nat /\ Len(document) < Half
  BY DEF Body!Astray, DechunkInv
<1>2. PICK i \in 0 .. Len(document) : \E e \in i + 1 .. Len(document) : AtData(i, e)
  BY <1>1 DEF DechunkInv, InChunks
<1>3. PICK e \in i + 1 .. Len(document) : size = e - i
  BY <1>2 DEF AtData
<1> QED BY <1>1, <1>3, BodyAssumption

LEMMA DechunkNext == DechunkInv /\ Body!Next => DechunkInv'
<1> SUFFICES ASSUME DechunkInv, Body!Next PROVE DechunkInv'
  OBVIOUS
<1>1. CASE ~chunked
  BY <1>1, PieceStep
<1>2. CASE chunked
  BY <1>2, TestStep, SizeStep, LineStep, DataStep, NeverAstray DEF Body!Next
<1> QED BY <1>1, <1>2

LEMMA DechunkInit == Body!Init => DechunkInv
<1> SUFFICES ASSUME Body!Init PROVE DechunkInv
  OBVIOUS
<1>1. document \in Seq(UnitT) /\ Len(document) \in Nat /\ Len(document) < Half
  <2>1. PICK n \in 0 .. MaxDocument : document \in [1 .. n -> {Body!Unit(c) : c \in Chars}]
    BY DEF Body!Init, Body!Documents
  <2>2. n \in Nat /\ {Body!Unit(c) : c \in Chars} \subseteq UnitT
    BY BodyAssumption DEF Body!Unit, UnitT
  <2>3. document \in [1 .. n -> UnitT]
    BY <2>1, <2>2
  <2>4. document \in Seq(UnitT) /\ Len(document) = n
    BY <2>2, <2>3
  <2> QED BY <2>2, <2>4, BodyAssumption
<1>2. chunked \in BOOLEAN /\ src = 1 /\ dst = <<>> /\ chunkPc = "test"
  BY DEF Body!Init
<1>3. PICK b \in IF chunked THEN Body!Bodies(document)[0] ELSE {document} : \E cut \in 0 .. Len(b) : buf = SubSeq(b, 1, cut)
  BY DEF Body!Init
<1>4. PICK cut \in 0 .. Len(b) : buf = SubSeq(b, 1, cut)
  BY <1>3
<1>5. b \in Seq(UnitT) /\ Len(b) \in Nat
  BY <1>1, <1>2, BodyIs
<1>6. buf \in Seq(UnitT) /\ Len(buf) = cut /\ \A j \in 1 .. cut : buf[j] = b[j]
  <2>1. \A j \in 1 .. cut : b[j] \in UnitT
    <3>1. \A j \in 1 .. cut : j \in 1 .. Len(b)
      BY <1>5
    <3> QED BY <1>5, <3>1, ElementOfSeq
  <2>2. buf \in Seq(UnitT) /\ Len(buf) = IF 1 <= cut THEN cut - 1 + 1 ELSE 0
    BY <1>4, <2>1, SubSeqProperties
  <2>3. \A j \in 1 .. cut - 1 + 1 : buf[j] = b[1 + j - 1]
    BY <1>4, <2>1, SubSeqProperties
  <2> QED BY <1>5, <2>2, <2>3
<1>7. CASE ~chunked
  <2>1. b = document
    BY <1>7
  <2> QED BY <1>1, <1>2, <1>5, <1>6, <1>7, <2>1 DEF DechunkInv, InOnePiece
<1>8. CASE chunked
  <2>1. Copied(0)
    BY <1>1, <1>2 DEF Copied
  <2>2. AtStart
    <3>1. CASE Body!Whole
      <4>1. buf \in Body!Bodies(document)[0]
        BY <1>8, <3>1 DEF Body!Whole
      <4>2. Runs(1, buf)
        BY <1>6 DEF Runs
      <4> QED BY <4>1, <4>2 DEF AtStart
    <3>2. CASE ~Body!Whole
      <4>1. b \in Body!Bodies(document)[0]
        BY <1>8
      <4>2. Runs(1, b)
        BY <1>5, <1>6, <3>2 DEF Runs
      <4> QED BY <4>1, <4>2 DEF AtStart
    <3> QED BY <3>1, <3>2
  <2>3. dst \in Seq(UnitT)
    BY <1>2
  <2> QED BY <1>1, <1>2, <1>6, <1>8, <2>1, <2>2, <2>3 DEF DechunkInv, InChunks
<1> QED BY <1>2, <1>7, <1>8

LEMMA SentPage == DechunkInv => Body!PageAsSent
<1> SUFFICES ASSUME DechunkInv, chunkPc = "done", ~Body!Mistaken
             PROVE  Body!IsPrefix(dst, document) /\ (Body!Whole => dst = document)
  BY DEF Body!PageAsSent
<1>1. document \in Seq(UnitT) /\ Len(document) \in Nat
  BY DEF DechunkInv
<1>2. PICK i \in 0 .. Len(document) :
        /\ dst \in Seq(UnitT) /\ Len(dst) = i /\ \A j \in 1 .. i : dst[j] = document[j]
        /\ Body!Whole => i = Len(document)
  <2>1. CASE chunked
    BY <2>1 DEF DechunkInv, InChunks, Copied
  <2>2. CASE ~chunked
    <3>1. /\ dst = buf /\ buf \in Seq(UnitT) /\ Len(buf) <= Len(document) /\ Len(buf) \in Nat
          /\ \A j \in 1 .. Len(buf) : buf[j] = document[j]
      BY <2>2 DEF DechunkInv, InOnePiece
    <3>2. Body!Whole => Len(buf) = Len(document)
      BY <2>2 DEF Body!Whole
    <3>3. Len(buf) \in 0 .. Len(document)
      BY <1>1, <3>1
    <3> QED BY <3>1, <3>2, <3>3
  <2> QED BY <2>1, <2>2
<1>3. SubSeq(dst, 1, Len(dst)) = SubSeq(document, 1, Len(dst))
  <2>1. \A j \in 1 .. i : dst[j] \in UnitT /\ document[j] \in UnitT
    <3>1. \A j \in 1 .. i : j \in 1 .. Len(document)
      BY <1>1
    <3> QED BY <1>1, <1>2, <3>1, ElementOfSeq
  <2> PICK x, y : x = SubSeq(dst, 1, i) /\ y = SubSeq(document, 1, i)
    OBVIOUS
  <2>2. x \in Seq(UnitT) /\ Len(x) = (IF 1 <= i THEN i - 1 + 1 ELSE 0)
    BY <2>1, SubSeqProperties
  <2>3. y \in Seq(UnitT) /\ Len(y) = (IF 1 <= i THEN i - 1 + 1 ELSE 0)
    BY <2>1, SubSeqProperties
  <2>4. \A j \in 1 .. i - 1 + 1 : x[j] = dst[1 + j - 1]
    BY <2>1, SubSeqProperties
  <2>5. \A j \in 1 .. i - 1 + 1 : y[j] = document[1 + j - 1]
    BY <2>1, SubSeqProperties
  <2>6. Len(x) = i /\ Len(y) = i
    BY <1>1, <2>2, <2>3
  <2>7. ASSUME NEW j \in 1 .. i PROVE x[j] = y[j]
    <3>1. j \in 1 .. i - 1 + 1 /\ 1 + j - 1 = j
      BY <1>1
    <3> QED BY <1>2, <2>4, <2>5, <3>1
  <2>8. x = y
    BY <2>2, <2>3, <2>6, <2>7, SeqEqual
  <2> QED BY <1>2, <2>8
<1>4. Body!Whole => dst = document
  BY <1>1, <1>2, SeqEqual
<1>5. Len(dst) <= Len(document)
  BY <1>1, <1>2
<1> QED BY <1>3, <1>4, <1>5 DEF Body!IsPrefix

LEMMA BodySteps == [PartsNext]_partVars => Body!Next \/ UNCHANGED bodyVars
BY DEF PartsNext, partVars, NetTurn, CalcTurn, PuzzleTurn, PongTurn, AtaTurn, CardTurn, PageTurn, Rendering, Browsing, Body!Next

(* The browser shows the document that the server sent, as far as it came,  *)
(* whether or not it came in chunks and wherever they were cut.             *)
THEOREM DechunkSafe == PartsSpec => []PageAsSent
<1>1. PartsInit => DechunkInv
  <2> SUFFICES ASSUME PartsInit PROVE DechunkInv
    OBVIOUS
  <2>1. CASE part = "body"
    BY <2>1, DechunkInit DEF PartsInit
  <2>2. CASE part # "body"
    <3>1. document = <<>> /\ chunked = FALSE /\ buf = <<>> /\ src = 1 /\ chunkPc = "test"
      BY <2>2 DEF PartsInit
    <3>2. document \in Seq(UnitT) /\ buf \in Seq(UnitT) /\ Len(buf) = 0 /\ Len(document) = 0
      BY <3>1
    <3>3. InOnePiece
      BY <3>1, <3>2 DEF InOnePiece
    <3>4. Len(document) < Half
      BY <3>2, BodyAssumption
    <3>5. chunked \in BOOLEAN /\ ~chunked
      BY <3>1
    <3> QED BY <3>2, <3>3, <3>4, <3>5 DEF DechunkInv
  <2> QED BY <2>1, <2>2
<1>2. DechunkInv /\ UNCHANGED bodyVars => DechunkInv'
  <2> SUFFICES ASSUME DechunkInv, UNCHANGED bodyVars PROVE DechunkInv'
    OBVIOUS
  <2>1. /\ document' = document /\ chunked' = chunked /\ buf' = buf /\ src' = src
        /\ dst' = dst /\ size' = size /\ chunkPc' = chunkPc
    BY DEF bodyVars
  <2>2. /\ \A i : Copied(i)' <=> Copied(i)
        /\ Body!Whole' <=> Body!Whole
        /\ Body!Mistaken' <=> Body!Mistaken
    BY <2>1 DEF Copied, Body!Whole, Body!Mistaken
  <2>3. AtStart' <=> AtStart
    BY <2>1, RunsOn DEF AtStart
  <2>4. \A i : (AtChunk(i)' <=> AtChunk(i)) /\ (AtLine(i)' <=> AtLine(i))
    BY <2>1, <2>2, RunsOn DEF AtChunk, AtLine
  <2>5. \A i, e : AtData(i, e)' <=> AtData(i, e)
    BY <2>1, <2>2, RunsOn DEF AtData
  <2>6. InChunks' <=> InChunks
    BY <2>1, <2>2, <2>3, <2>4, <2>5 DEF InChunks
  <2>7. InOnePiece' <=> InOnePiece
    BY <2>1, <2>2 DEF InOnePiece
  <2> QED BY <2>1, <2>6, <2>7 DEF DechunkInv
<1>3. DechunkInv /\ [PartsNext]_partVars => DechunkInv'
  BY <1>2, BodySteps, DechunkNext
<1>4. DechunkInv => PageAsSent
  BY SentPage DEF PageAsSent
<1> QED BY <1>1, <1>3, <1>4, PTL DEF PartsSpec

(***************************************************************************)
(* The calculator: its fractions.  Powers of ten and greatest common       *)
(* divisors are recursive functions; f holds their values up to n.         *)
(***************************************************************************)
TensTo(f, n) == f = [k \in 0 .. n |-> IF k = 0 THEN 1 ELSE 10 * f[k - 1]]

LEMMA TensOn ==
  ASSUME NEW n \in Nat
  PROVE  \E f : TensTo(f, n)
<1> DEFINE Bad == {m \in Nat : ~\E f : TensTo(f, m)}
<1>1. SUFFICES ASSUME Bad # {} PROVE FALSE
  OBVIOUS
<1>2. PICK m \in Bad : \A j \in Bad : m <= j
  <2>1. Bad \subseteq Nat
    OBVIOUS
  <2> QED BY <1>1, <2>1, LeastOf
<1>3. m # 0
  <2>1. SUFFICES ASSUME m = 0 PROVE FALSE
    OBVIOUS
  <2>2. PICK f : f = [k \in 0 .. 0 |-> 1]
    OBVIOUS
  <2>3. f = [k \in 0 .. 0 |-> IF k = 0 THEN 1 ELSE 10 * f[k - 1]]
    <3>1. \A k \in 0 .. 0 : k = 0
      OBVIOUS
    <3> QED BY <2>2, <3>1
  <2> QED BY <2>1, <2>3 DEF TensTo
<1>4. PICK h \in Nat : m = h + 1 /\ ~(m <= h)
  BY <1>3
<1>5. PICK f : TensTo(f, h)
  BY <1>2, <1>4
<1>6. PICK g : g = [k \in 0 .. m |-> IF k = 0 THEN 1 ELSE 10 * f[k - 1]]
  OBVIOUS
<1>7. ASSUME NEW k \in 0 .. m, k # 0 PROVE g[k - 1] = f[k - 1]
  <2>1. k - 1 \in 0 .. h /\ k - 1 \in 0 .. m
    BY <1>4, <1>7
  <2>2. f[k - 1] = IF k - 1 = 0 THEN 1 ELSE 10 * f[k - 1 - 1]
    BY <1>5, <2>1 DEF TensTo
  <2>3. g[k - 1] = IF k - 1 = 0 THEN 1 ELSE 10 * f[k - 1 - 1]
    BY <1>6, <2>1
  <2> QED BY <2>2, <2>3
<1>8. TensTo(g, m)
  BY <1>6, <1>7 DEF TensTo
<1> QED BY <1>8

LEMMA TensAgree ==
  ASSUME NEW m \in Nat, NEW n \in Nat, NEW f, NEW g, TensTo(f, m), TensTo(g, n), NEW k \in Nat, k <= m, k <= n
  PROVE  f[k] = g[k]
<1> DEFINE Bad == {j \in 0 .. k : f[j] # g[j]}
<1>1. SUFFICES ASSUME Bad # {} PROVE FALSE
  OBVIOUS
<1>2. PICK j \in Bad : \A i \in Bad : j <= i
  <2>1. Bad \subseteq Nat
    OBVIOUS
  <2> QED BY <1>1, <2>1, LeastOf
<1>3. j \in 0 .. m /\ j \in 0 .. n /\ j \in 0 .. k /\ f[j] # g[j]
  OBVIOUS
<1>4. /\ f[j] = IF j = 0 THEN 1 ELSE 10 * f[j - 1]
      /\ g[j] = IF j = 0 THEN 1 ELSE 10 * g[j - 1]
  BY <1>3 DEF TensTo
<1>5. j # 0
  BY <1>3, <1>4
<1>6. j - 1 \in 0 .. k /\ ~(j <= j - 1)
  BY <1>3, <1>5
<1>7. f[j - 1] = g[j - 1]
  BY <1>2, <1>6
<1> QED BY <1>3, <1>4, <1>7

\* The powers of ten, and the greatest common divisors, obey their definitions.
LEMMA TensIs ==
  /\ Calculator!Tens[0] = 1
  /\ \A k \in Nat : Calculator!Tens[k + 1] = 10 * Calculator!Tens[k]
<1> DEFINE h == [n \in Nat |-> CHOOSE f : TensTo(f, n)]
           t == [n \in Nat |-> h[n][n]]
<1>1. ASSUME NEW n \in Nat PROVE TensTo(h[n], n)
  BY TensOn, Zenon
<1> HIDE DEF h
<1>2. ASSUME NEW n \in Nat PROVE t[n] = IF n = 0 THEN 1 ELSE 10 * t[n - 1]
  <2>1. n \in 0 .. n
    OBVIOUS
  <2>2. h[n][n] = IF n = 0 THEN 1 ELSE 10 * h[n][n - 1]
    BY <1>1, <2>1 DEF TensTo
  <2>3. ASSUME n # 0 PROVE h[n][n - 1] = h[n - 1][n - 1]
    <3>1. n - 1 \in Nat /\ n - 1 <= n /\ n - 1 <= n - 1
      BY <2>3
    <3>2. TensTo(h[n], n) /\ TensTo(h[n - 1], n - 1)
      BY <1>1, <3>1
    <3> QED BY <3>1, <3>2, TensAgree
  <2>4. ASSUME n # 0 PROVE t[n - 1] = h[n - 1][n - 1]
    <3>1. n - 1 \in Nat
      BY <2>4
    <3> QED BY <3>1
  <2>5. t[n] = h[n][n]
    OBVIOUS
  <2> HIDE DEF t
  <2> QED BY <2>2, <2>3, <2>4, <2>5
<1>3. t = [k \in Nat |-> IF k = 0 THEN 1 ELSE 10 * t[k - 1]]
  BY <1>2
<1> HIDE DEF t
<1>4. PICK x : x = Calculator!Tens
  OBVIOUS
<1>5. x = [k \in Nat |-> IF k = 0 THEN 1 ELSE 10 * x[k - 1]]
  BY <1>3, <1>4, Zenon DEF Calculator!Tens
<1>6. x[0] = 1
  BY <1>5
<1>7. ASSUME NEW k \in Nat PROVE x[k + 1] = 10 * x[k]
  <2>1. k + 1 \in Nat /\ k + 1 # 0 /\ k + 1 - 1 = k
    OBVIOUS
  <2> QED BY <1>5, <2>1
<1> QED BY <1>4, <1>6, <1>7

LEMMA TensPositive == \A k \in Nat : Calculator!Tens[k] \in Nat /\ Calculator!Tens[k] > 0
<1> DEFINE t == Calculator!Tens
           Bad == {k \in Nat : ~(t[k] \in Nat /\ t[k] > 0)}
<1>1. SUFFICES ASSUME Bad # {} PROVE FALSE
  OBVIOUS
<1>2. PICK m \in Bad : \A j \in Bad : m <= j
  <2>1. Bad \subseteq Nat
    OBVIOUS
  <2> QED BY <1>1, <2>1, LeastOf
<1>3. m # 0
  BY TensIs
<1>4. PICK h \in Nat : m = h + 1 /\ ~(m <= h)
  BY <1>3
<1>5. t[h] \in Nat /\ t[h] > 0
  BY <1>2, <1>4
<1>6. t[m] = 10 * t[h]
  BY <1>4, TensIs
<1> HIDE DEF t
<1> QED BY <1>5, <1>6

GcdTo(f, n) == f = [p \in Nat \X (0 .. n) |-> IF p[2] = 0 THEN p[1] ELSE f[<<p[2], p[1] % p[2]>>]]

LEMMA Remainder ==
  ASSUME NEW a \in Int, NEW b \in Nat, b # 0
  PROVE  a \div b \in Int /\ a % b \in 0 .. b - 1 /\ a = b * (a \div b) + (a % b)
<1>1. a \div b \in Int /\ a % b \in 0 .. b - 1
  OBVIOUS
<1>2. a % b = a - b * (a \div b)
  OBVIOUS
<1> QED BY <1>1, <1>2

LEMMA GcdToIs ==
  ASSUME NEW n \in Nat, NEW f, GcdTo(f, n), NEW a \in Nat, NEW b \in 0 .. n
  PROVE  /\ b = 0 => f[<<a, b>>] = a
         /\ b # 0 => f[<<a, b>>] = f[<<b, a % b>>]
<1>1. PICK p : p = <<a, b>>
  OBVIOUS
<1>2. p \in Nat \X (0 .. n) /\ p[1] = a /\ p[2] = b
  BY <1>1
<1>3. f[p] = IF p[2] = 0 THEN p[1] ELSE f[<<p[2], p[1] % p[2]>>]
  BY <1>2 DEF GcdTo
<1> QED BY <1>1, <1>2, <1>3

LEMMA GcdOn ==
  ASSUME NEW n \in Nat
  PROVE  \E f : GcdTo(f, n)
<1> DEFINE Bad == {m \in Nat : ~\E f : GcdTo(f, m)}
<1>1. SUFFICES ASSUME Bad # {} PROVE FALSE
  OBVIOUS
<1>2. PICK m \in Bad : \A j \in Bad : m <= j
  <2>1. Bad \subseteq Nat
    OBVIOUS
  <2> QED BY <1>1, <2>1, LeastOf
<1>3. m # 0
  <2>1. SUFFICES ASSUME m = 0 PROVE FALSE
    OBVIOUS
  <2>2. PICK f : f = [p \in Nat \X (0 .. 0) |-> p[1]]
    OBVIOUS
  <2>3. \A p \in Nat \X (0 .. 0) : p[2] = 0
    OBVIOUS
  <2>4. f = [p \in Nat \X (0 .. 0) |-> IF p[2] = 0 THEN p[1] ELSE f[<<p[2], p[1] % p[2]>>]]
    BY <2>2, <2>3
  <2> QED BY <2>1, <2>4 DEF GcdTo
<1>4. PICK h \in Nat : m = h + 1 /\ ~(m <= h)
  BY <1>3
<1>5. PICK f : GcdTo(f, h)
  BY <1>2, <1>4
<1>6. PICK g : g = [p \in Nat \X (0 .. m) |-> IF p[2] = 0 THEN p[1] ELSE f[<<p[2], p[1] % p[2]>>]]
  OBVIOUS
<1>7. ASSUME NEW a \in Nat, NEW b \in 0 .. h PROVE g[<<a, b>>] = f[<<a, b>>]
  <2>1. PICK p : p = <<a, b>>
    OBVIOUS
  <2>2. p \in Nat \X (0 .. m) /\ p[1] = a /\ p[2] = b
    BY <1>4, <2>1
  <2>3. g[p] = IF b = 0 THEN a ELSE f[<<b, a % b>>]
    BY <1>6, <2>2
  <2> QED BY <1>5, <2>1, <2>3, GcdToIs
<1>8. ASSUME NEW p \in Nat \X (0 .. m), p[2] # 0 PROVE g[<<p[2], p[1] % p[2]>>] = f[<<p[2], p[1] % p[2]>>]
  <2>1. PICK a, b : a = p[1] /\ b = p[2]
    OBVIOUS
  <2>2. a \in Nat /\ b \in 0 .. m /\ b \in Nat /\ b # 0
    BY <1>8, <2>1
  <2>3. a % b \in 0 .. b - 1
    BY <2>2
  <2>4. PICK c : c = a % b
    OBVIOUS
  <2>5. c \in 0 .. h
    BY <1>4, <2>2, <2>3, <2>4
  <2>6. g[<<b, c>>] = f[<<b, c>>]
    BY <1>7, <2>2, <2>5
  <2> QED BY <2>1, <2>4, <2>6
<1>9. GcdTo(g, m)
  <2>1. ASSUME NEW p \in Nat \X (0 .. m) PROVE g[p] = IF p[2] = 0 THEN p[1] ELSE g[<<p[2], p[1] % p[2]>>]
    BY <1>6, <1>8
  <2> QED BY <1>6, <2>1 DEF GcdTo
<1> QED BY <1>9

LEMMA GcdAgree ==
  ASSUME NEW m \in Nat, NEW n \in Nat, NEW f, NEW g, GcdTo(f, m), GcdTo(g, n), NEW k \in Nat, k <= m, k <= n, NEW c \in Nat
  PROVE  f[<<c, k>>] = g[<<c, k>>]
<1> DEFINE Bad == {b \in 0 .. k : \E a \in Nat : f[<<a, b>>] # g[<<a, b>>]}
<1>1. SUFFICES ASSUME Bad # {} PROVE FALSE
  <2>1. k \in 0 .. k
    OBVIOUS
  <2> QED BY <1>1, <2>1
<1>2. PICK b \in Bad : \A j \in Bad : b <= j
  <2>1. Bad \subseteq Nat
    OBVIOUS
  <2> QED BY <1>1, <2>1, LeastOf
<1>3. PICK a \in Nat : f[<<a, b>>] # g[<<a, b>>]
  OBVIOUS
<1>4. b \in 0 .. k /\ b \in 0 .. m /\ b \in 0 .. n /\ b \in Nat
  OBVIOUS
<1>5. /\ b = 0 => f[<<a, b>>] = a /\ g[<<a, b>>] = a
      /\ b # 0 => f[<<a, b>>] = f[<<b, a % b>>] /\ g[<<a, b>>] = g[<<b, a % b>>]
  BY <1>4, GcdToIs
<1>6. b # 0
  BY <1>3, <1>5
<1>7. PICK c0 : c0 = a % b
  OBVIOUS
<1>8. c0 \in 0 .. k /\ ~(b <= c0)
  <2>1. a % b \in 0 .. b - 1
    BY <1>4, <1>6
  <2> QED BY <1>4, <1>7, <2>1
<1>9. f[<<b, c0>>] = g[<<b, c0>>]
  BY <1>2, <1>4, <1>8
<1> QED BY <1>3, <1>5, <1>6, <1>7, <1>9

LEMMA GcdIs ==
  ASSUME NEW a \in Nat, NEW b \in Nat
  PROVE  /\ b = 0 => Calculator!Gcd[<<a, b>>] = a
         /\ b # 0 => Calculator!Gcd[<<a, b>>] = Calculator!Gcd[<<b, a % b>>]
<1> DEFINE h == [n \in Nat |-> CHOOSE f : GcdTo(f, n)]
           t == [p \in Nat \X Nat |-> h[p[2]][p]]
<1>1. ASSUME NEW n \in Nat PROVE GcdTo(h[n], n)
  BY GcdOn, Zenon
<1> HIDE DEF h
<1>2. ASSUME NEW x \in Nat, NEW y \in Nat PROVE t[<<x, y>>] = h[y][<<x, y>>]
  <2>1. PICK p : p = <<x, y>>
    OBVIOUS
  <2>2. p \in Nat \X Nat /\ p[2] = y
    BY <2>1
  <2>3. t[p] = h[y][p]
    BY <2>2
  <2> QED BY <2>1, <2>3
<1>3. ASSUME NEW p \in Nat \X Nat PROVE t[p] = IF p[2] = 0 THEN p[1] ELSE t[<<p[2], p[1] % p[2]>>]
  <2>1. PICK x \in Nat, y \in Nat : p = <<x, y>> /\ p[1] = x /\ p[2] = y
    OBVIOUS
  <2>2. y \in 0 .. y
    OBVIOUS
  <2>3. /\ y = 0 => h[y][<<x, y>>] = x
        /\ y # 0 => h[y][<<x, y>>] = h[y][<<y, x % y>>]
    BY <1>1, <2>2, GcdToIs
  <2>4. ASSUME y # 0 PROVE h[y][<<y, x % y>>] = t[<<y, x % y>>]
    <3>1. PICK r : r = x % y
      OBVIOUS
    <3>2. r \in Nat /\ r <= y /\ r <= r
      <4>1. x % y \in 0 .. y - 1
        BY <2>4
      <4> QED BY <3>1, <4>1
    <3>3. h[y][<<y, r>>] = h[r][<<y, r>>]
      BY <1>1, <3>2, GcdAgree
    <3>4. t[<<y, r>>] = h[r][<<y, r>>]
      BY <1>2, <3>2
    <3> QED BY <3>1, <3>3, <3>4
  <2>5. t[<<x, y>>] = h[y][<<x, y>>]
    BY <1>2
  <2> HIDE DEF t
  <2> QED BY <2>1, <2>3, <2>4, <2>5
<1>4. t = [p \in Nat \X Nat |-> IF p[2] = 0 THEN p[1] ELSE t[<<p[2], p[1] % p[2]>>]]
  BY <1>3
<1> HIDE DEF t
<1>5. PICK x : x = Calculator!Gcd
  OBVIOUS
<1>6. x = [p \in Nat \X Nat |-> IF p[2] = 0 THEN p[1] ELSE x[<<p[2], p[1] % p[2]>>]]
  BY <1>4, <1>5, Zenon DEF Calculator!Gcd
<1>7. PICK p : p = <<a, b>>
  OBVIOUS
<1>8. p \in Nat \X Nat /\ p[1] = a /\ p[2] = b
  BY <1>7
<1>9. x[p] = IF b = 0 THEN a ELSE x[<<b, a % b>>]
  BY <1>6, <1>8
<1> QED BY <1>5, <1>7, <1>9

\* The greatest common divisor divides both numbers, and is 0 only for 0 and 0.
LEMMA GcdDivides ==
  ASSUME NEW a \in Nat, NEW b \in Nat
  PROVE  /\ Calculator!Gcd[<<a, b>>] \in Nat
         /\ a # 0 \/ b # 0 => Calculator!Gcd[<<a, b>>] > 0
         /\ \E u, v \in Nat : a = Calculator!Gcd[<<a, b>>] * u /\ b = Calculator!Gcd[<<a, b>>] * v
<1> DEFINE G(x, y) == Calculator!Gcd[<<x, y>>]
           Divides(x, y) == /\ G(x, y) \in Nat /\ (x # 0 \/ y # 0 => G(x, y) > 0)
                            /\ \E u, v \in Nat : x = G(x, y) * u /\ y = G(x, y) * v
           Bad == {y \in Nat : \E x \in Nat : ~Divides(x, y)}
<1>1. SUFFICES ASSUME Bad # {} PROVE FALSE
  OBVIOUS
<1>2. PICK y \in Bad : \A j \in Bad : y <= j
  <2>1. Bad \subseteq Nat
    OBVIOUS
  <2> QED BY <1>1, <2>1, LeastOf
<1>3. PICK x \in Nat : ~Divides(x, y)
  OBVIOUS
<1>4. y \in Nat
  OBVIOUS
<1>5. y # 0
  <2>1. SUFFICES ASSUME y = 0 PROVE FALSE
    OBVIOUS
  <2>2. PICK g : g = G(x, y)
    OBVIOUS
  <2>3. g = x
    BY <1>4, <2>1, <2>2, GcdIs
  <2>4. x = g * 1 /\ y = g * 0
    BY <2>1, <2>3
  <2>5. g \in Nat /\ (x # 0 \/ y # 0 => g > 0)
    BY <2>1, <2>3
  <2> QED BY <1>3, <2>2, <2>4, <2>5
<1>6. PICK r \in Nat : r = x % y /\ ~(y <= r) /\ x = y * (x \div y) + r
  <2>1. x \div y \in Int /\ x % y \in 0 .. y - 1 /\ x = y * (x \div y) + (x % y)
    BY <1>4, <1>5, Remainder
  <2> QED BY <1>4, <2>1
<1>7. PICK q \in Nat : q = x \div y /\ x = y * q + r
  BY <1>4, <1>5, <1>6
<1>8. Divides(y, r)
  <2>1. r \notin Bad
    BY <1>2, <1>6
  <2> QED BY <1>4, <2>1
<1>9. PICK g : g = G(y, r)
  OBVIOUS
<1>10. G(x, y) = g
  BY <1>4, <1>5, <1>6, <1>9, GcdIs
<1>11. g \in Nat /\ g > 0
  BY <1>5, <1>8, <1>9
<1>12. PICK u \in Nat, v \in Nat : y = g * u /\ r = g * v
  BY <1>8, <1>9
<1>13. x = g * (u * q + v) /\ u * q + v \in Nat
  BY <1>7, <1>11, <1>12
<1> HIDE DEF G
<1>14. Divides(x, y)
  BY <1>10, <1>11, <1>12, <1>13
<1> QED BY <1>3, <1>14

LEMMA ScaledRemainder ==
  ASSUME NEW a \in Nat, NEW b \in Nat, b # 0, NEW k \in Nat, k # 0
  PROVE  (k * a) % (k * b) = k * (a % b) /\ (k * a) \div (k * b) = a \div b
<1>1. PICK q \in Int, r \in Int : q = a \div b /\ r = a % b /\ a = b * q + r /\ 0 <= r /\ r < b
  <2>1. a \div b \in Int /\ a % b \in 0 .. b - 1 /\ a = b * (a \div b) + (a % b)
    BY Remainder
  <2> QED BY <2>1
<1>2. k * a = (k * b) * q + k * r
  <2>1. k * (b * q + r) = (k * b) * q + k * r
    OBVIOUS
  <2>2. b * q + r = a
    BY <1>1
  <2> QED BY <2>1, <2>2
<1>3. 0 <= k * r /\ k * r < k * b
  BY <1>1
<1>4. PICK A \in Int, B \in Nat, R \in Int : A = k * a /\ B = k * b /\ R = k * r /\ B # 0 /\ 0 <= R /\ R < B /\ A = B * q + R
  BY <1>1, <1>2, <1>3
<1>5. A % B = R /\ A \div B = q
  BY <1>4
<1> QED BY <1>1, <1>4, <1>5

\* The greatest common divisor of c times a and c times b is c times theirs.
LEMMA ScaledGcd ==
  ASSUME NEW a \in Nat, NEW b \in Nat, NEW k \in Nat, k # 0
  PROVE  Calculator!Gcd[<<k * a, k * b>>] = k * Calculator!Gcd[<<a, b>>]
<1> DEFINE G(x, y) == Calculator!Gcd[<<x, y>>]
           Bad == {y \in Nat : \E x \in Nat : G(k * x, k * y) # k * G(x, y)}
<1>1. SUFFICES ASSUME Bad # {} PROVE FALSE
  OBVIOUS
<1>2. PICK y \in Bad : \A j \in Bad : y <= j
  <2>1. Bad \subseteq Nat
    OBVIOUS
  <2> QED BY <1>1, <2>1, LeastOf
<1>3. PICK x \in Nat : G(k * x, k * y) # k * G(x, y)
  OBVIOUS
<1>4. y \in Nat
  OBVIOUS
<1>5. y # 0
  <2>1. SUFFICES ASSUME y = 0 PROVE FALSE
    OBVIOUS
  <2>2. G(x, y) = x
    BY <1>4, <2>1, GcdIs
  <2>3. PICK A \in Nat, B \in Nat : A = k * x /\ B = k * y /\ B = 0
    BY <2>1
  <2>4. G(A, B) = A
    BY <2>3, GcdIs
  <2> QED BY <1>3, <2>2, <2>3, <2>4
<1>6. PICK r \in Nat : r = x % y /\ ~(y <= r)
  <2>1. x % y \in 0 .. y - 1
    BY <1>4, <1>5
  <2> QED BY <1>4, <2>1
<1>7. G(k * y, k * r) = k * G(y, r)
  <2>1. r \notin Bad
    BY <1>2, <1>6
  <2> QED BY <1>4, <2>1
<1>8. G(x, y) = G(y, r)
  BY <1>4, <1>5, <1>6, GcdIs
<1>9. PICK A \in Nat, B \in Nat, R \in Nat : A = k * x /\ B = k * y /\ R = k * r /\ B # 0
  BY <1>4, <1>5
<1>10. A % B = R
  <2>1. (k * x) % (k * y) = k * (x % y)
    BY <1>4, <1>5, ScaledRemainder
  <2> QED BY <1>6, <1>9, <2>1
<1>11. G(A, B) = G(B, R)
  BY <1>9, <1>10, GcdIs
<1> HIDE DEF G
<1> QED BY <1>3, <1>7, <1>8, <1>9, <1>11

LEMMA AbsIs ==
  ASSUME NEW n \in Int
  PROVE  /\ Calculator!Abs(n) \in Nat /\ (n >= 0 => Calculator!Abs(n) = n) /\ (n < 0 => Calculator!Abs(n) = -n)
         /\ Calculator!Abs(-n) = Calculator!Abs(n) /\ (n # 0 => Calculator!Abs(n) # 0)
BY DEF Calculator!Abs

\* Frac divides both numbers by their greatest common divisor.
LEMMA FracForm ==
  ASSUME NEW n \in Int, NEW d \in Nat, d # 0, NEW a, a = Calculator!Abs(n), NEW g, g = Calculator!Gcd[<<a, d>>]
  PROVE  /\ a \in Nat /\ g \in Nat /\ g > 0
         /\ Calculator!Frac(n, d) = [n |-> IF n < 0 THEN -(a \div g) ELSE a \div g, d |-> d \div g]
<1>1. a \in Nat /\ Calculator!Abs(d) = d
  BY AbsIs
<1>2. g \in Nat /\ g > 0
  BY <1>1, GcdDivides
<1>3. ~(d < 0) /\ (~(n < 0) => a = n)
  BY AbsIs
<1>4. Calculator!Frac(n, d) = [n |-> 1 * (IF n < 0 THEN -(a \div g) ELSE n \div g), d |-> d \div g]
  BY <1>1, <1>3, Zenon DEF Calculator!Frac
<1>5. 1 * (IF n < 0 THEN -(a \div g) ELSE n \div g) = IF n < 0 THEN -(a \div g) ELSE a \div g
  <2>1. a \div g \in Int
    BY <1>1, <1>2
  <2> QED BY <1>3, <2>1
<1> QED BY <1>1, <1>2, <1>4, <1>5

\* A fraction is a number over a positive one, and has the value of n over d.
LEMMA FracIs ==
  ASSUME NEW n \in Int, NEW d \in Nat, d # 0
  PROVE  /\ Calculator!Frac(n, d) \in [n : Int, d : Nat \ {0}]
         /\ Calculator!Frac(n, d).n * d = n * Calculator!Frac(n, d).d
<1>1. PICK a, g : a = Calculator!Abs(n) /\ g = Calculator!Gcd[<<a, d>>]
  OBVIOUS
<1>2. /\ a \in Nat /\ g \in Nat /\ g > 0
      /\ Calculator!Frac(n, d) = [n |-> IF n < 0 THEN -(a \div g) ELSE a \div g, d |-> d \div g]
  BY <1>1, FracForm
<1>3. \E u, v \in Nat : a = g * u /\ d = g * v
  BY <1>1, <1>2, GcdDivides
<1>4. PICK u \in Nat, v \in Nat : a = g * u /\ d = g * v
  BY <1>3
<1>5. v # 0
  <2>1. SUFFICES ASSUME v = 0 PROVE FALSE
    OBVIOUS
  <2>2. g * v = 0
    BY <1>2, <2>1
  <2> QED BY <1>4, <2>2
<1>6. a \div g = u /\ d \div g = v
  <2>1. a = g * u + 0 /\ d = g * v + 0
    BY <1>2, <1>4
  <2>2. \A x, q \in Nat : x = g * q + 0 => x \div g = q
    BY <1>2
  <2> QED BY <1>2, <2>1, <2>2
<1>7. PICK x : x = Calculator!Frac(n, d)
  OBVIOUS
<1>8. x.n = (IF n < 0 THEN -u ELSE u) /\ x.d = v /\ x = [n |-> IF n < 0 THEN -u ELSE u, d |-> v]
  BY <1>2, <1>6, <1>7
<1>9. x.n * d = n * x.d
  <2>1. CASE n < 0
    <3>1. n = -(g * u) /\ x.n = -u
      <4>1. a = -n
        BY <1>1, <2>1, AbsIs
      <4>2. n = -a
        BY <4>1
      <4> QED BY <1>4, <1>8, <2>1, <4>2
    <3>2. (-u) * (g * v) = (-(g * u)) * v
      BY <1>2
    <3> QED BY <1>4, <1>8, <3>1, <3>2
  <2>2. CASE ~(n < 0)
    <3>1. n = g * u /\ x.n = u
      <4>1. a = n
        BY <1>1, <2>2, AbsIs
      <4> QED BY <1>4, <1>8, <2>2, <4>1
    <3>2. u * (g * v) = (g * u) * v
      BY <1>2
    <3> QED BY <1>4, <1>8, <3>1, <3>2
  <2> QED BY <2>1, <2>2
<1>10. x \in [n : Int, d : Nat \ {0}]
  BY <1>5, <1>8
<1> QED BY <1>7, <1>9, <1>10

LEMMA NegatedFrac ==
  ASSUME NEW n \in Int, NEW d \in Int, d < 0
  PROVE  Calculator!Frac(n, d) = Calculator!Frac(-n, -d)
<1>1. PICK A \in Nat, D \in Nat : A = Calculator!Abs(n) /\ D = Calculator!Abs(d) /\ D = -d /\ D # 0
  BY AbsIs
<1>2. A = Calculator!Abs(-n) /\ D = Calculator!Abs(-d) /\ ~(-d < 0)
  BY <1>1, AbsIs
<1>3. PICK g \in Nat : g = Calculator!Gcd[<<A, D>>] /\ g > 0
  BY <1>1, GcdDivides
<1>4. Calculator!Frac(n, d) = [n |-> (-1) * (IF n < 0 THEN -(A \div g) ELSE n \div g), d |-> D \div g]
  BY <1>1, <1>3, Zenon DEF Calculator!Frac
<1>5. Calculator!Frac(-n, -d) = [n |-> 1 * (IF -n < 0 THEN -(A \div g) ELSE (-n) \div g), d |-> D \div g]
  BY <1>2, <1>3, Zenon DEF Calculator!Frac
<1>6. A \div g \in Int
  BY <1>1, <1>3
<1>7. (-1) * (IF n < 0 THEN -(A \div g) ELSE n \div g) = 1 * (IF -n < 0 THEN -(A \div g) ELSE (-n) \div g)
  <2>1. CASE n < 0
    <3>1. A = -n /\ ~(-n < 0)
      BY <1>1, <2>1, AbsIs
    <3> QED BY <1>6, <2>1, <3>1
  <2>2. CASE n > 0
    <3>1. A = n /\ -n < 0
      BY <1>1, <2>2, AbsIs
    <3> QED BY <1>6, <2>2, <3>1
  <2>3. CASE n = 0
    <3>1. 0 \div g = 0
      BY <1>3
    <3> QED BY <2>3, <3>1
  <2> QED BY <2>1, <2>2, <2>3
<1> QED BY <1>4, <1>5, <1>7

\* The fractions the calculator can hold: they are in lowest terms.
Fractions == {x \in [n : Int, d : Nat \ {0}] : Calculator!Frac(x.n, x.d) = x}

\* A factor common to both numbers makes no difference.
LEMMA ScaledFrac ==
  ASSUME NEW n \in Int, NEW d \in Nat, d # 0, NEW k \in Nat, k # 0
  PROVE  Calculator!Frac(k * n, k * d) = Calculator!Frac(n, d)
<1>1. PICK a, g : a = Calculator!Abs(n) /\ g = Calculator!Gcd[<<a, d>>]
  OBVIOUS
<1>2. /\ a \in Nat /\ g \in Nat /\ g > 0
      /\ Calculator!Frac(n, d) = [n |-> IF n < 0 THEN -(a \div g) ELSE a \div g, d |-> d \div g]
  BY <1>1, FracForm
<1>3. PICK m \in Int, e \in Nat : m = k * n /\ e = k * d /\ e # 0
  OBVIOUS
<1>4. Calculator!Abs(m) = k * a /\ (m < 0 <=> n < 0)
  <2>1. CASE n < 0
    <3>1. a = -n /\ m < 0
      BY <1>1, <1>3, <2>1, AbsIs
    <3>2. Calculator!Abs(m) = -m
      BY <3>1, AbsIs
    <3> QED BY <1>3, <2>1, <3>1, <3>2
  <2>2. CASE ~(n < 0)
    <3>1. a = n /\ m >= 0
      BY <1>1, <1>3, <2>2, AbsIs
    <3>2. Calculator!Abs(m) = m
      BY <3>1, AbsIs
    <3> QED BY <1>3, <2>2, <3>1, <3>2
  <2> QED BY <2>1, <2>2
<1>5. PICK b, h : b = Calculator!Abs(m) /\ h = Calculator!Gcd[<<b, e>>]
  OBVIOUS
<1>6. Calculator!Frac(m, e) = [n |-> IF m < 0 THEN -(b \div h) ELSE b \div h, d |-> e \div h]
  BY <1>3, <1>5, FracForm
<1>7. b = k * a
  BY <1>4, <1>5
<1>8. h = k * g
  <2>1. Calculator!Gcd[<<k * a, k * d>>] = k * Calculator!Gcd[<<a, d>>]
    BY <1>2, ScaledGcd
  <2> QED BY <1>1, <1>3, <1>5, <1>7, <2>1
<1>9. b \div h = a \div g /\ e \div h = d \div g
  <2>1. (k * a) \div (k * g) = a \div g /\ (k * d) \div (k * g) = d \div g
    BY <1>2, ScaledRemainder
  <2> QED BY <1>3, <1>7, <1>8, <2>1
<1> QED BY <1>2, <1>3, <1>4, <1>6, <1>9

\* Fractions of one value are one fraction.
LEMMA SameFrac ==
  ASSUME NEW n \in Int, NEW d \in Nat, d # 0, NEW m \in Int, NEW e \in Nat, e # 0, n * e = m * d
  PROVE  Calculator!Frac(n, d) = Calculator!Frac(m, e)
<1>1. Calculator!Frac(e * n, e * d) = Calculator!Frac(n, d) /\ Calculator!Frac(d * m, d * e) = Calculator!Frac(m, e)
  BY ScaledFrac
<1>2. e * n = d * m /\ e * d = d * e
  OBVIOUS
<1> QED BY <1>1, <1>2

LEMMA FracHeld ==
  ASSUME NEW n \in Int, NEW d \in Nat, d # 0
  PROVE  Calculator!Frac(n, d) \in Fractions
<1>1. PICK x : x = Calculator!Frac(n, d)
  OBVIOUS
<1>2. x \in [n : Int, d : Nat \ {0}] /\ x.n * d = n * x.d
  BY <1>1, FracIs
<1>3. PICK m \in Int, e \in Nat : m = x.n /\ e = x.d /\ e # 0
  BY <1>2
<1>4. Calculator!Frac(m, e) = Calculator!Frac(n, d)
  BY <1>2, <1>3, SameFrac
<1> QED BY <1>1, <1>2, <1>3, <1>4 DEF Fractions

LEMMA WholeFrac ==
  ASSUME NEW n \in Int
  PROVE  Calculator!Frac(n, 1) = Calculator!Num(n) /\ Calculator!Num(n) \in Fractions
<1>1. PICK a, g : a = Calculator!Abs(n) /\ g = Calculator!Gcd[<<a, 1>>]
  OBVIOUS
<1>2. /\ a \in Nat /\ g \in Nat /\ g > 0
      /\ Calculator!Frac(n, 1) = [n |-> IF n < 0 THEN -(a \div g) ELSE a \div g, d |-> 1 \div g]
  BY <1>1, FracForm
<1>3. \E u, v \in Nat : a = g * u /\ 1 = g * v
  BY <1>1, <1>2, GcdDivides
<1>4. g = 1
  <2>1. PICK v \in Nat : 1 = g * v
    BY <1>3
  <2>2. v # 0
    BY <1>2, <2>1
  <2>3. g * (v - 1) >= 0 /\ g * v = g * (v - 1) + g
    BY <1>2, <2>2
  <2> QED BY <1>2, <2>1, <2>3
<1>5. a \div 1 = a /\ 1 \div 1 = 1
  BY <1>2
<1>6. (IF n < 0 THEN -a ELSE a) = n
  BY <1>1, AbsIs
<1>7. Calculator!Frac(n, 1) = [n |-> n, d |-> 1]
  BY <1>2, <1>4, <1>5, <1>6
<1> QED BY <1>7, FracHeld DEF Calculator!Num

\* What a fraction is made of.
LEMMA FractionIs ==
  ASSUME NEW x \in Fractions
  PROVE  x.n \in Int /\ x.d \in Nat /\ x.d # 0 /\ Calculator!Frac(x.n, x.d) = x
BY DEF Fractions

LEMMA AddHeld ==
  ASSUME NEW x \in Fractions, NEW y \in Fractions
  PROVE  Calculator!Add(x, y) \in Fractions
<1>1. PICK a \in Int, b \in Nat, c \in Int, d \in Nat : a = x.n /\ b = x.d /\ c = y.n /\ d = y.d /\ b # 0 /\ d # 0
  BY FractionIs
<1>2. a * d + c * b \in Int /\ b * d \in Nat /\ b * d # 0
  BY <1>1
<1>3. Calculator!Add(x, y) = Calculator!Frac(a * d + c * b, b * d)
  BY <1>1 DEF Calculator!Add
<1> QED BY <1>2, <1>3, FracHeld

\* 0 added to a fraction in lowest terms gives that fraction.
LEMMA AddZero ==
  ASSUME NEW x \in Fractions
  PROVE  Calculator!Add(Calculator!Zero, x) = x
<1>1. PICK a \in Int, b \in Nat : a = x.n /\ b = x.d /\ b # 0 /\ Calculator!Frac(a, b) = x
  BY FractionIs
<1>2. Calculator!Add(Calculator!Zero, x) = Calculator!Frac(0 * b + a * 1, 1 * b)
  BY <1>1 DEF Calculator!Add, Calculator!Zero, Calculator!Num
<1>3. 0 * b + a * 1 = a /\ 1 * b = b
  BY <1>1
<1> QED BY <1>1, <1>2, <1>3

Signs == {"+", "-", "*", "/"}

\* What an operation gives is a fraction in lowest terms.
LEMMA ApplyHeld ==
  ASSUME NEW op \in Signs, NEW x \in Fractions, NEW y \in Fractions, ~(op = "/" /\ y.n = 0)
  PROVE  Calculator!Apply(op, x, y) \in Fractions
<1>1. PICK a \in Int, b \in Nat, c \in Int, d \in Nat : a = x.n /\ b = x.d /\ c = y.n /\ d = y.d /\ b # 0 /\ d # 0
  BY FractionIs
<1>2. CASE op = "+"
  BY <1>2, AddHeld DEF Calculator!Apply
<1>3. CASE op = "-"
  <2>1. Calculator!Apply(op, x, y) = Calculator!Add(x, [y EXCEPT !.n = -@])
    BY <1>3 DEF Calculator!Apply
  <2>2. PICK z : z = [y EXCEPT !.n = -@]
    OBVIOUS
  <2>3. z.n = -c /\ z.d = d
    BY <1>1, <2>2 DEF Fractions
  <2>4. Calculator!Add(x, z) = Calculator!Frac(a * d + (-c) * b, b * d)
    BY <1>1, <2>3 DEF Calculator!Add
  <2>5. a * d + (-c) * b \in Int /\ b * d \in Nat /\ b * d # 0
    BY <1>1
  <2> QED BY <2>1, <2>2, <2>4, <2>5, FracHeld
<1>4. CASE op = "*"
  <2>1. Calculator!Apply(op, x, y) = Calculator!Frac(a * c, b * d)
    BY <1>1, <1>4 DEF Calculator!Apply
  <2>2. a * c \in Int /\ b * d \in Nat /\ b * d # 0
    BY <1>1
  <2> QED BY <2>1, <2>2, FracHeld
<1>5. CASE op = "/"
  <2>1. Calculator!Apply(op, x, y) = Calculator!Frac(a * d, b * c)
    BY <1>1, <1>5 DEF Calculator!Apply
  <2>2. c # 0
    BY <1>1, <1>5
  <2>3. PICK n \in Int, m \in Int : n = a * d /\ m = b * c /\ m # 0
    BY <1>1, <2>2
  <2>4. CASE m > 0
    <3>1. m \in Nat
      BY <2>4
    <3> QED BY <2>1, <2>3, <3>1, FracHeld
  <2>5. CASE m < 0
    <3>1. Calculator!Frac(n, m) = Calculator!Frac(-n, -m)
      BY <2>5, NegatedFrac
    <3>2. -n \in Int /\ -m \in Nat /\ -m # 0
      BY <2>3, <2>5
    <3> QED BY <2>1, <2>3, <3>1, <3>2, FracHeld
  <2> QED BY <2>3, <2>4, <2>5
<1> QED BY <1>2, <1>3, <1>4, <1>5 DEF Signs

\* A digit typed after the point, and one typed before it.
LEMMA DecimalTyped ==
  ASSUME NEW n \in Nat, NEW f \in Nat, NEW d \in Nat
  PROVE  Calculator!Add(Calculator!Frac(n, Calculator!Tens[f]), Calculator!Frac(d, Calculator!Tens[f + 1]))
           = Calculator!Frac(n * 10 + d, Calculator!Tens[f + 1])
<1>1. PICK t \in Nat : t = Calculator!Tens[f] /\ t # 0 /\ Calculator!Tens[f + 1] = 10 * t
  BY TensIs, TensPositive
<1>2. PICK x, y : x = Calculator!Frac(n, t) /\ y = Calculator!Frac(d, 10 * t)
  OBVIOUS
<1>3. /\ x \in [n : Int, d : Nat \ {0}] /\ x.n * t = n * x.d
      /\ y \in [n : Int, d : Nat \ {0}] /\ y.n * (10 * t) = d * y.d
  <2>1. Calculator!Frac(n, t) \in [n : Int, d : Nat \ {0}] /\ Calculator!Frac(n, t).n * t = n * Calculator!Frac(n, t).d
    <3>1. n \in Int
      OBVIOUS
    <3> QED BY <1>1, <3>1, FracIs
  <2>2. PICK u \in Nat : u = 10 * t /\ u # 0
    BY <1>1
  <2>3. y \in [n : Int, d : Nat \ {0}] /\ y.n * u = d * y.d
    BY <1>2, <2>2, FracIs
  <2> QED BY <1>2, <2>1, <2>2, <2>3
<1>4. PICK a \in Int, b \in Nat, c \in Int, e \in Nat :
        a = x.n /\ b = x.d /\ c = y.n /\ e = y.d /\ b # 0 /\ e # 0 /\ a * t = n * b /\ c * (10 * t) = d * e
  BY <1>3
<1>5. (a * e + c * b) * (10 * t) = (n * 10 + d) * (b * e)
  <2>1. (a * e + c * b) * (10 * t) = 10 * e * (a * t) + b * (c * (10 * t))
    OBVIOUS
  <2>2. 10 * e * (n * b) + b * (d * e) = (n * 10 + d) * (b * e)
    OBVIOUS
  <2> QED BY <1>4, <2>1, <2>2
<1>6. a * e + c * b \in Int /\ b * e \in Nat /\ b * e # 0 /\ 10 * t \in Nat /\ 10 * t # 0 /\ n * 10 + d \in Int
  BY <1>1, <1>4
<1>7. PICK A \in Int, B \in Nat, M \in Int, T \in Nat :
        A = a * e + c * b /\ B = b * e /\ M = n * 10 + d /\ T = 10 * t /\ B # 0 /\ T # 0 /\ A * T = M * B
  BY <1>5, <1>6
<1>8. Calculator!Frac(A, B) = Calculator!Frac(M, T)
  BY <1>7, SameFrac
<1>9. Calculator!Add(x, y) = Calculator!Frac(A, B)
  BY <1>4, <1>7 DEF Calculator!Add
<1> QED BY <1>1, <1>2, <1>7, <1>8, <1>9

LEMMA DigitTyped ==
  ASSUME NEW n \in Nat, NEW d \in Nat, NEW x, x = Calculator!Frac(n, Calculator!Tens[0])
  PROVE  Calculator!Add(Calculator!Frac(x.n * 10, x.d), Calculator!Num(d)) = Calculator!Frac(n * 10 + d, Calculator!Tens[0])
<1>1. x = Calculator!Num(n) /\ Calculator!Tens[0] = 1
  BY TensIs, WholeFrac
<1>2. x.n = n /\ x.d = 1
  BY <1>1 DEF Calculator!Num
<1>3. PICK m \in Nat : m = n * 10
  OBVIOUS
<1>4. Calculator!Frac(m, 1) = Calculator!Num(m)
  BY WholeFrac
<1>5. Calculator!Add(Calculator!Num(m), Calculator!Num(d)) = Calculator!Frac(m * 1 + d * 1, 1 * 1)
  BY DEF Calculator!Add, Calculator!Num
<1>6. m * 1 + d * 1 = m + d /\ 1 * 1 = 1
  OBVIOUS
<1> QED BY <1>1, <1>2, <1>3, <1>4, <1>5, <1>6

(* What the display shows is a fraction in lowest terms, and its decimals. *)
Texts == [num : Fractions, places : Nat]

LEMMA WholeText ==
  ASSUME NEW n \in Int
  PROVE  Calculator!Whole(n) \in Texts
BY WholeFrac DEF Calculator!Whole, Texts

LEMMA ScaledHeld ==
  ASSUME NEW x \in Fractions, NEW e \in Int
  PROVE  Calculator!Scaled(x, e) \in Fractions
<1>1. PICK a \in Int, b \in Nat : a = x.n /\ b = x.d /\ b # 0
  BY FractionIs
<1>2. CASE e < 0
  <2>1. PICK t \in Nat : t = Calculator!Tens[-e] /\ t # 0
    <3>1. -e \in Nat
      BY <1>2
    <3> QED BY <3>1, TensPositive
  <2>2. b * t \in Nat /\ b * t # 0
    BY <1>1, <2>1
  <2>3. Calculator!Scaled(x, e) = Calculator!Frac(a, b * t)
    BY <1>1, <1>2, <2>1 DEF Calculator!Scaled
  <2> QED BY <2>2, <2>3, FracHeld
<1>3. CASE ~(e < 0)
  <2>1. PICK t \in Nat : t = Calculator!Tens[e] /\ t # 0
    <3>1. e \in Nat
      BY <1>3
    <3> QED BY <3>1, TensPositive
  <2>2. a * t \in Int
    BY <1>1, <2>1
  <2>3. Calculator!Scaled(x, e) = Calculator!Frac(a * t, b)
    BY <1>1, <1>3, <2>1 DEF Calculator!Scaled
  <2> QED BY <1>1, <2>2, <2>3, FracHeld
<1> QED BY <1>2, <1>3

LEMMA RoundedText ==
  ASSUME NEW x \in Fractions, NEW p \in Nat
  PROVE  Calculator!Rounded(x, p) \in Texts
<1>1. PICK a \in Nat, b \in Nat, t \in Nat : a = Calculator!Abs(x.n) /\ b = x.d /\ t = Calculator!Tens[p] /\ b # 0 /\ t # 0
  BY FractionIs, AbsIs, TensPositive
<1>2. PICK y : y = (2 * a * t + b) \div (2 * b)
  OBVIOUS
<1>3. y \in Int
  <2>1. PICK u \in Nat, w \in Nat : u = 2 * a * t + b /\ w = 2 * b /\ w # 0
    BY <1>1
  <2>2. u \div w \in Int
    BY <2>1
  <2> QED BY <1>2, <2>1, <2>2
<1>4. PICK z \in Int : z = (IF x.n < 0 THEN -1 ELSE 1) * y
  BY <1>3
<1>5. Calculator!Round(x, p) = Calculator!Frac(z, t)
  BY <1>1, <1>2, <1>4 DEF Calculator!Round
<1>6. Calculator!Round(x, p) \in Fractions
  BY <1>1, <1>4, <1>5, FracHeld
<1> QED BY <1>6 DEF Calculator!Rounded, Texts

\* The loops that look for the exponent stop.
LEMMA FirstOf ==
  ASSUME NEW S, NEW m \in Nat, NEW n \in Nat, n \in S, m <= n
  PROVE  \E k \in m .. n : k \in S /\ \A j \in m .. k - 1 : j \notin S
<1> DEFINE T == {k \in m .. n : k \in S}
<1>1. n \in T /\ T \subseteq Nat
  OBVIOUS
<1>2. PICK k \in T : \A j \in T : k <= j
  BY <1>1, LeastOf
<1>3. ASSUME NEW j \in m .. k - 1 PROVE j \notin S
  <2>1. j \in m .. n /\ ~(k <= j)
    BY <1>2
  <2> QED BY <1>2, <2>1
<1> QED BY <1>2, <1>3

LEMMA ExponentIs ==
  ASSUME NEW x \in Fractions
  PROVE  Calculator!Exponent(x) \in Int
<1> DEFINE Ten(k) == Calculator!Abs(x.n) >= 10 * Calculator!Tens[k] * x.d
           One(k) == Calculator!Abs(x.n) * Calculator!Tens[k] >= x.d
           S == {k \in 0 .. 99 : k = 99 \/ ~Ten(k)}
           T == {k \in 1 .. 99 : k = 99 \/ One(k)}
<1>1. \E k \in 0 .. 99 : (k = 99 \/ ~Ten(k)) /\ \A j \in 0 .. k - 1 : Ten(j)
  <2>1. 99 \in S
    OBVIOUS
  <2> HIDE DEF S, Ten
  <2>2. PICK k \in 0 .. 99 : k \in S /\ \A j \in 0 .. k - 1 : j \notin S
    BY <2>1, FirstOf
  <2>3. ASSUME NEW j \in 0 .. k - 1 PROVE Ten(j)
    <3>1. j \in 0 .. 99 /\ j \notin S
      BY <2>2
    <3> QED BY <3>1 DEF S
  <2>4. k = 99 \/ ~Ten(k)
    BY <2>2 DEF S
  <2> QED BY <2>3, <2>4
<1>2. \E k \in 1 .. 99 : (k = 99 \/ One(k)) /\ \A j \in 1 .. k - 1 : ~One(j)
  <2>1. 99 \in T
    OBVIOUS
  <2> HIDE DEF T, One
  <2>2. PICK k \in 1 .. 99 : k \in T /\ \A j \in 1 .. k - 1 : j \notin T
    BY <2>1, FirstOf
  <2>3. ASSUME NEW j \in 1 .. k - 1 PROVE ~One(j)
    <3>1. j \in 1 .. 99 /\ j \notin T
      BY <2>2
    <3> QED BY <3>1 DEF T
  <2>4. k = 99 \/ One(k)
    BY <2>2 DEF T
  <2> QED BY <2>3, <2>4
<1>3. PICK u : u = CHOOSE k \in 0 .. 99 : (k = 99 \/ ~Ten(k)) /\ \A j \in 0 .. k - 1 : Ten(j)
  OBVIOUS
<1>4. PICK v : v = CHOOSE k \in 1 .. 99 : (k = 99 \/ One(k)) /\ \A j \in 1 .. k - 1 : ~One(j)
  OBVIOUS
<1>5. Calculator!Exponent(x) = IF One(0) THEN u ELSE -v
  <2>1. Calculator!Exponent(x) = IF One(0) THEN CHOOSE k \in 0 .. 99 : (k = 99 \/ ~Ten(k)) /\ \A j \in 0 .. k - 1 : Ten(j)
                                ELSE -(CHOOSE k \in 1 .. 99 : (k = 99 \/ One(k)) /\ \A j \in 1 .. k - 1 : ~One(j))
    BY DEF Calculator!Exponent
  <2> HIDE DEF One, Ten
  <2> QED BY <1>3, <1>4, <2>1, Zenon
<1> HIDE DEF One, Ten
<1>6. u \in 0 .. 99
  BY <1>1, <1>3, Zenon
<1>7. v \in 1 .. 99
  BY <1>2, <1>4, Zenon
<1> QED BY <1>5, <1>6, <1>7

\* Whatever is shown, in whichever form, is a number and its decimals.
LEMMA ShownText ==
  ASSUME NEW x \in Fractions, NEW p \in Nat
  PROVE  Calculator!Shown(x, p) \in Texts
<1>1. PICK a \in Int, b \in Nat : a = x.n /\ b = x.d /\ b # 0
  BY FractionIs
<1>2. PICK q \in Nat : q = IF p = 0 THEN 3 ELSE IF p > 6 THEN 6 ELSE p
  OBVIOUS
<1>3. Calculator!Mantissa(x, q) \in Texts
  <2>1. PICK e \in Int : e = Calculator!Exponent(x)
    BY ExponentIs
  <2>2. -e \in Int
    OBVIOUS
  <2>3. Calculator!Scaled(x, -e) \in Fractions
    BY <2>2, ScaledHeld
  <2>4. PICK m : m = Calculator!Rounded(Calculator!Scaled(x, -e), q)
    OBVIOUS
  <2>5. m \in Texts
    BY <2>3, <2>4, RoundedText
  <2>6. Calculator!Mantissa(x, q) = [m EXCEPT !.num = Calculator!Scaled(@, e)]
    BY <2>1, <2>4 DEF Calculator!Mantissa
  <2>7. m.num \in Fractions
    BY <2>5 DEF Texts
  <2>8. Calculator!Scaled(m.num, e) \in Fractions
    BY <2>7, ScaledHeld
  <2> QED BY <2>5, <2>6, <2>8 DEF Texts
<1>4. PICK n : n = IF x.n < 0 THEN -(Calculator!Abs(x.n) \div x.d) ELSE x.n \div x.d
  OBVIOUS
<1>5. n \in Int
  <2>1. PICK c \in Nat : c = Calculator!Abs(x.n)
    BY <1>1, AbsIs
  <2>2. c \div b \in Int /\ a \div b \in Int
    BY <1>1
  <2> QED BY <1>1, <1>4, <2>1, <2>2
<1>6. Calculator!Whole(n) \in Texts /\ Calculator!Whole(0) \in Texts /\ Calculator!Rounded(x, p) \in Texts
  BY <1>5, WholeText, RoundedText
<1> QED BY <1>2, <1>3, <1>4, <1>6, Zenon DEF Calculator!Shown

\* f holds what the terms give from the left, up to the n-th.
ValuesTo(f, ts, n) ==
  f = [i \in 0 .. n |-> IF i = 0 THEN Calculator!Zero ELSE Calculator!Apply(ts[i].op, f[i - 1], ts[i].num)]

LEMMA ValuesToIs ==
  ASSUME NEW ts, NEW n \in Nat, NEW f, ValuesTo(f, ts, n)
  PROVE  /\ f[0] = Calculator!Zero
         /\ \A i \in 1 .. n : f[i] = Calculator!Apply(ts[i].op, f[i - 1], ts[i].num)
<1>1. ASSUME NEW i \in 0 .. n
      PROVE f[i] = IF i = 0 THEN Calculator!Zero ELSE Calculator!Apply(ts[i].op, f[i - 1], ts[i].num)
  BY DEF ValuesTo
<1>2. 0 \in 0 .. n /\ \A i \in 1 .. n : i \in 0 .. n /\ i # 0
  OBVIOUS
<1> QED BY <1>1, <1>2

LEMMA ValuesOn ==
  ASSUME NEW ts, NEW n \in Nat
  PROVE  \E f : ValuesTo(f, ts, n)
<1> DEFINE Bad == {m \in Nat : ~\E f : ValuesTo(f, ts, m)}
<1>1. SUFFICES ASSUME Bad # {} PROVE FALSE
  OBVIOUS
<1>2. PICK m \in Bad : \A j \in Bad : m <= j
  <2>1. Bad \subseteq Nat
    OBVIOUS
  <2> QED BY <1>1, <2>1, LeastOf
<1>3. m # 0
  <2>1. SUFFICES ASSUME m = 0 PROVE FALSE
    OBVIOUS
  <2>2. PICK f : f = [i \in 0 .. 0 |-> Calculator!Zero]
    OBVIOUS
  <2>3. \A i \in 0 .. 0 : i = 0
    OBVIOUS
  <2>4. f = [i \in 0 .. 0 |-> IF i = 0 THEN Calculator!Zero ELSE Calculator!Apply(ts[i].op, f[i - 1], ts[i].num)]
    BY <2>2, <2>3
  <2> QED BY <2>1, <2>4 DEF ValuesTo
<1>4. PICK h \in Nat : m = h + 1 /\ ~(m <= h)
  BY <1>3
<1>5. PICK f : ValuesTo(f, ts, h)
  BY <1>2, <1>4
<1>6. PICK g : g = [i \in 0 .. m |-> IF i = 0 THEN Calculator!Zero ELSE Calculator!Apply(ts[i].op, f[i - 1], ts[i].num)]
  OBVIOUS
<1>7. ASSUME NEW i \in 0 .. m, i # 0 PROVE g[i - 1] = f[i - 1]
  <2>1. i - 1 \in 0 .. h /\ i - 1 \in 0 .. m
    BY <1>4, <1>7
  <2>2. f[i - 1] = IF i - 1 = 0 THEN Calculator!Zero ELSE Calculator!Apply(ts[i - 1].op, f[i - 1 - 1], ts[i - 1].num)
    BY <1>5, <2>1 DEF ValuesTo
  <2>3. g[i - 1] = IF i - 1 = 0 THEN Calculator!Zero ELSE Calculator!Apply(ts[i - 1].op, f[i - 1 - 1], ts[i - 1].num)
    BY <1>6, <2>1
  <2> QED BY <2>2, <2>3
<1>8. ValuesTo(g, ts, m)
  BY <1>6, <1>7 DEF ValuesTo
<1> QED BY <1>8

LEMMA ValuesAgree ==
  ASSUME NEW ts, NEW us, NEW m \in Nat, NEW n \in Nat, NEW f, NEW g, ValuesTo(f, ts, m), ValuesTo(g, us, n),
         NEW k \in Nat, k <= m, k <= n, \A i \in 1 .. k : ts[i] = us[i]
  PROVE  f[k] = g[k]
<1> DEFINE Bad == {j \in 0 .. k : f[j] # g[j]}
<1>1. SUFFICES ASSUME Bad # {} PROVE FALSE
  OBVIOUS
<1>2. PICK j \in Bad : \A i \in Bad : j <= i
  <2>1. Bad \subseteq Nat
    OBVIOUS
  <2> QED BY <1>1, <2>1, LeastOf
<1>3. j \in 0 .. k /\ f[j] # g[j]
  OBVIOUS
<1>4. j # 0
  BY <1>3, ValuesToIs
<1>5. j \in 1 .. m /\ j \in 1 .. n /\ j \in 1 .. k /\ j - 1 \in 0 .. k /\ ~(j <= j - 1)
  BY <1>3, <1>4
<1>6. f[j - 1] = g[j - 1] /\ ts[j] = us[j]
  BY <1>2, <1>5
<1>7. f[j] = Calculator!Apply(ts[j].op, f[j - 1], ts[j].num)
  BY <1>5, ValuesToIs
<1>8. g[j] = Calculator!Apply(us[j].op, g[j - 1], us[j].num)
  BY <1>5, ValuesToIs
<1> QED BY <1>3, <1>6, <1>7, <1>8

LEMMA ValueIs ==
  ASSUME NEW ts, Len(ts) \in Nat
  PROVE  \E f : ValuesTo(f, ts, Len(ts)) /\ Calculator!ValueOf(ts) = f[Len(ts)]
<1>1. PICK f : f = CHOOSE x : ValuesTo(x, ts, Len(ts))
  OBVIOUS
<1>2. ValuesTo(f, ts, Len(ts))
  BY <1>1, ValuesOn, Zenon
<1>3. Calculator!ValueOf(ts) = f[Len(ts)]
  BY <1>1 DEF Calculator!ValueOf, ValuesTo
<1> QED BY <1>2, <1>3

LEMMA ValueOfNone == Calculator!ValueOf(<<>>) = Calculator!Zero
<1>1. PICK ts, n : ts = <<>> /\ n = Len(ts) /\ n = 0
  OBVIOUS
<1>2. PICK f : ValuesTo(f, ts, n) /\ Calculator!ValueOf(ts) = f[n]
  BY <1>1, ValueIs
<1> QED BY <1>1, <1>2, ValuesToIs

\* A term more applies its operator to the value of those before it.
LEMMA ValueOfAppended ==
  ASSUME NEW T, NEW ts \in Seq(T), NEW t \in T
  PROVE  Calculator!ValueOf(Append(ts, t)) = Calculator!Apply(t.op, Calculator!ValueOf(ts), t.num)
<1>1. PICK us, n : us = Append(ts, t) /\ n = Len(ts)
  OBVIOUS
<1>2. n \in Nat /\ Len(us) = n + 1 /\ us[n + 1] = t /\ \A i \in 1 .. n : us[i] = ts[i]
  BY <1>1
<1>3. PICK f : ValuesTo(f, ts, n) /\ Calculator!ValueOf(ts) = f[n]
  BY <1>1, <1>2, ValueIs
<1>4. PICK g : ValuesTo(g, us, n + 1) /\ Calculator!ValueOf(us) = g[n + 1]
  BY <1>2, ValueIs
<1>5. g[n] = f[n]
  BY <1>2, <1>3, <1>4, ValuesAgree
<1>6. g[n + 1] = Calculator!Apply(us[n + 1].op, g[n], us[n + 1].num)
  <2>1. PICK m \in Nat : m = n + 1 /\ m \in 1 .. m /\ m - 1 = n
    BY <1>2
  <2>2. \A i \in 1 .. m : g[i] = Calculator!Apply(us[i].op, g[i - 1], us[i].num)
    BY <1>4, <2>1, ValuesToIs
  <2>3. g[m] = Calculator!Apply(us[m].op, g[m - 1], us[m].num)
    BY <2>1, <2>2
  <2> QED BY <2>1, <2>3
<1> QED BY <1>1, <1>2, <1>3, <1>4, <1>5, <1>6

(***************************************************************************)
(* The calculator: its keys.                                               *)
(***************************************************************************)
(* The invariant.  Unless a key was used in a way the reference says        *)
(* nothing of, the calculator is in one of four situations: nothing has     *)
(* been typed; a number is being typed, behind the terms of front, which    *)
(* the accumulator holds; an operator has been typed; a result is shown.    *)
SignedTerms == [op : Signs, num : Fractions]
NoZero(ts) == \A i \in DOMAIN ts : ~(ts[i].op = "/" /\ ts[i].num.n = 0)

Registers ==
  /\ current \in Fractions /\ accumulator \in Fractions /\ leftOperand \in Fractions
  /\ decimals \in Nat /\ leftDecimals \in Nat /\ operation \in Ops \cup {""}
  /\ newEntry \in BOOLEAN /\ hasDecimal \in BOOLEAN /\ error \in BOOLEAN
TextsHeld == display.left \in Texts /\ display.right \in Texts /\ clipboard \in Seq(Texts)
KeysHeld ==
  /\ pend \in Ops \cup {"", "="} /\ odd \in BOOLEAN
  /\ entry \in [digits : Nat, frac : Nat] /\ terms \in Seq(SignedTerms)
CalcTypes == Registers /\ TextsHeld /\ KeysHeld

NothingTyped == terms = <<>> => pend = "" /\ operation = "" /\ newEntry /\ ~error /\ current = Calculator!Zero
After(front) ==
  /\ terms = Append(front, Calculator!Term(IF front = <<>> THEN "+" ELSE operation, current))
  /\ IF front = <<>> THEN operation = ""
     ELSE operation \in Ops /\ NoZero(front) /\ accumulator = Calculator!ValueOf(front)
NumberTyped ==
  pend = "" /\ terms # <<>> =>
    /\ ~newEntry /\ ~error /\ current = Calculator!Entered(entry)
    /\ IF hasDecimal THEN decimals = entry.frac ELSE entry.frac = 0
    /\ \E front \in Seq(SignedTerms) : After(front)
OperatorTyped ==
  pend \in Ops =>
    /\ terms # <<>> /\ newEntry /\ ~error /\ operation = pend
    /\ accumulator = current /\ current = Calculator!ValueOf(terms) /\ NoZero(terms)
ResultShown ==
  pend = "=" =>
    /\ terms # <<>> /\ newEntry /\ operation = ""
    /\ error = ~NoZero(terms) /\ (~error => current = Calculator!ValueOf(terms))

Calculating == ~odd => NothingTyped /\ NumberTyped /\ OperatorTyped /\ ResultShown
CalcInv == CalcTypes /\ Calculating

\* A term more divides by zero, or what was there does.
LEMMA NoZeroAppended ==
  ASSUME NEW ts \in Seq(SignedTerms), NEW t \in SignedTerms
  PROVE  NoZero(Append(ts, t)) <=> NoZero(ts) /\ ~(t.op = "/" /\ t.num.n = 0)
<1>1. PICK us, n : us = Append(ts, t) /\ n = Len(ts)
  OBVIOUS
<1>2. n \in Nat /\ DOMAIN ts = 1 .. n /\ DOMAIN us = 1 .. n + 1 /\ us[n + 1] = t /\ \A i \in 1 .. n : us[i] = ts[i]
  BY <1>1
<1>3. \A i : i \in 1 .. n + 1 <=> i \in 1 .. n \/ i = n + 1
  BY <1>2
<1>4. (\A i \in 1 .. n + 1 : ~(us[i].op = "/" /\ us[i].num.n = 0))
        <=> (\A i \in 1 .. n : ~(ts[i].op = "/" /\ ts[i].num.n = 0)) /\ ~(t.op = "/" /\ t.num.n = 0)
  BY <1>2, <1>3
<1> QED BY <1>1, <1>2, <1>4 DEF NoZero

\* The digit typed changes the number of the last term.
LEMMA LastReplaced ==
  ASSUME NEW ts \in Seq(SignedTerms), NEW o \in Signs, NEW x \in Fractions, NEW y \in Fractions,
         NEW us, us = Append(ts, Calculator!Term(o, x))
  PROVE  [us EXCEPT ![Len(us)].num = y] = Append(ts, Calculator!Term(o, y))
<1>1. PICK t, v : t = Calculator!Term(o, x) /\ v = Calculator!Term(o, y)
  OBVIOUS
<1>2. t \in SignedTerms /\ v \in SignedTerms /\ [t EXCEPT !.num = y] = v
  BY <1>1 DEF Calculator!Term, SignedTerms
<1>3. PICK n \in Nat : n = Len(ts)
  OBVIOUS
<1>4. us \in Seq(SignedTerms) /\ Len(us) = n + 1 /\ us[n + 1] = t /\ \A i \in 1 .. n : us[i] = ts[i]
  BY <1>1, <1>2, <1>3
<1>5. [us EXCEPT ![Len(us)].num = y] = [us EXCEPT ![n + 1] = v]
  BY <1>2, <1>4
<1>6. PICK w : w = [us EXCEPT ![n + 1] = v]
  OBVIOUS
<1>7. PICK z : z = Append(ts, v)
  OBVIOUS
<1>8. w \in Seq(SignedTerms) /\ Len(w) = n + 1 /\ \A i \in 1 .. n + 1 : w[i] = IF i = n + 1 THEN v ELSE us[i]
  <2>1. PICK k \in 1 .. Len(us) : k = n + 1
    BY <1>3, <1>4
  <2>2. us \in Seq(SignedTerms) /\ v \in SignedTerms /\ w = [us EXCEPT ![k] = v]
    BY <1>2, <1>4, <1>6, <2>1
  <2>3. w \in Seq(SignedTerms) /\ Len(w) = Len(us)
    BY <2>2, ExceptSeq
  <2>4. \A i \in 1 .. Len(us) : w[i] = IF i = k THEN v ELSE us[i]
    <3>1. DOMAIN us = 1 .. Len(us)
      BY <2>2
    <3> QED BY <2>2, <3>1, Zenon
  <2> QED BY <1>4, <2>1, <2>3, <2>4
<1>9. z \in Seq(SignedTerms) /\ Len(z) = n + 1 /\ \A i \in 1 .. n + 1 : z[i] = IF i = n + 1 THEN v ELSE ts[i]
  BY <1>2, <1>3, <1>7
<1>10. ASSUME NEW i \in 1 .. n + 1 PROVE w[i] = z[i]
  <2>1. i = n + 1 \/ i \in 1 .. n
    OBVIOUS
  <2> QED BY <1>4, <1>8, <1>9, <2>1
<1>11. w = z
  BY <1>8, <1>9, <1>10, SeqEqual
<1> QED BY <1>1, <1>5, <1>6, <1>7, <1>11

\* The value of the terms when a number is behind those of front.
LEMMA AfterValue ==
  ASSUME CalcTypes, NEW front \in Seq(SignedTerms), After(front)
  PROVE  /\ front = <<>> => Calculator!ValueOf(terms) = current /\ NoZero(terms) /\ Len(terms) = 1
         /\ front # <<>> => /\ Calculator!ValueOf(terms) = Calculator!Apply(operation, accumulator, current)
                            /\ NoZero(terms) <=> ~Calculator!Fails
                            /\ Len(terms) > 1
<1>1. Ops \subseteq Signs /\ "+" \in Signs /\ current \in Fractions
  BY KeysAssumption DEF Signs, CalcTypes, Registers
<1>2. PICK t : t = Calculator!Term(IF front = <<>> THEN "+" ELSE operation, current)
  OBVIOUS
<1>3. t \in SignedTerms /\ t.num = current /\ t.op = (IF front = <<>> THEN "+" ELSE operation)
  BY <1>1, <1>2 DEF Calculator!Term, SignedTerms, After
<1>4. /\ terms = Append(front, t)
      /\ Calculator!ValueOf(terms) = Calculator!Apply(t.op, Calculator!ValueOf(front), current)
      /\ NoZero(terms) <=> NoZero(front) /\ ~(t.op = "/" /\ current.n = 0)
  <2>1. terms = Append(front, t)
    BY <1>2 DEF After
  <2>2. Calculator!ValueOf(Append(front, t)) = Calculator!Apply(t.op, Calculator!ValueOf(front), t.num)
    BY <1>3, ValueOfAppended
  <2>3. NoZero(Append(front, t)) <=> NoZero(front) /\ ~(t.op = "/" /\ t.num.n = 0)
    BY <1>3, NoZeroAppended
  <2> QED BY <1>3, <2>1, <2>2, <2>3
<1>5. Len(terms) = Len(front) + 1 /\ (front # <<>> => Len(front) > 0)
  BY <1>3, <1>4
<1>6. ASSUME front = <<>> PROVE Calculator!ValueOf(terms) = current /\ NoZero(terms) /\ Len(terms) = 1
  <2>1. Calculator!ValueOf(front) = Calculator!Zero
    BY <1>6, ValueOfNone
  <2>2. Calculator!Apply("+", Calculator!Zero, current) = current
    BY <1>1, AddZero DEF Calculator!Apply
  <2>3. NoZero(front)
    BY <1>6 DEF NoZero
  <2> QED BY <1>3, <1>4, <1>5, <1>6, <2>1, <2>2, <2>3
<1>7. ASSUME front # <<>>
      PROVE  /\ Calculator!ValueOf(terms) = Calculator!Apply(operation, accumulator, current)
             /\ NoZero(terms) <=> ~Calculator!Fails
             /\ Len(terms) > 1
  <2>1. t.op = operation /\ NoZero(front) /\ accumulator = Calculator!ValueOf(front)
    BY <1>3, <1>7 DEF After
  <2>2. Len(terms) > 1
    BY <1>5, <1>7
  <2> QED BY <1>4, <2>1, <2>2 DEF Calculator!Fails
<1> QED BY <1>6, <1>7

LEMMA Updated ==
  ASSUME leftOperand' \in Fractions, current' \in Fractions, leftDecimals' \in Nat, decimals' \in Nat, Calculator!UpdateDisplay
  PROVE  display'.left \in Texts /\ display'.right \in Texts
<1>1. PICK l, r : l = Calculator!Shown(leftOperand', leftDecimals') /\ r = Calculator!Shown(current', decimals')
  OBVIOUS
<1>2. l \in Texts /\ r \in Texts
  BY <1>1, ShownText
<1>3. Calculator!Whole(0) \in Texts
  BY WholeText
<1>4. display' \in {Calculator!Error, Calculator!Both(l, l), Calculator!Both(l, r), Calculator!Both(r, r)}
  BY <1>1 DEF Calculator!UpdateDisplay
<1> QED BY <1>2, <1>3, <1>4 DEF Calculator!Error, Calculator!Both

LEMMA ZeroHeld ==
  Calculator!Zero \in Fractions /\ Calculator!Num(0) = Calculator!Zero /\ Calculator!Whole(0) \in Texts
BY WholeFrac, WholeText DEF Calculator!Zero

LEMMA EnteredHeld ==
  ASSUME NEW e \in [digits : Nat, frac : Nat]
  PROVE  Calculator!Entered(e) \in Fractions /\ Calculator!Entered(e) = Calculator!Frac(e.digits, Calculator!Tens[e.frac])
<1>1. e.digits \in Int /\ Calculator!Tens[e.frac] \in Nat /\ Calculator!Tens[e.frac] # 0
  BY TensPositive
<1> QED BY <1>1, FracHeld DEF Calculator!Entered

LEMMA TermHeld ==
  ASSUME NEW o \in Ops \cup {"+"}, NEW x \in Fractions
  PROVE  Calculator!Term(o, x) \in SignedTerms /\ Calculator!Term(o, x).op = o /\ Calculator!Term(o, x).num = x
BY KeysAssumption DEF Calculator!Term, SignedTerms, Signs

LEMMA TermLists ==
  /\ <<>> \in Seq(SignedTerms) /\ \A t : <<t>> = Append(<<>>, t)
  /\ \A ts \in Seq(SignedTerms), t \in SignedTerms : Append(ts, t) \in Seq(SignedTerms) /\ Append(ts, t) # <<>>
<1>1. <<>> \in Seq(SignedTerms)
  OBVIOUS
<1>2. \A t : <<t>> = Append(<<>>, t)
  OBVIOUS
<1>3. ASSUME NEW ts \in Seq(SignedTerms), NEW t \in SignedTerms PROVE Append(ts, t) \in Seq(SignedTerms) /\ Append(ts, t) # <<>>
  BY AppendProperties
<1> QED BY <1>1, <1>2, <1>3

\* A lone number is its own value.
LEMMA OneTerm ==
  ASSUME NEW x \in Fractions, NEW ts, ts = <<Calculator!Term("+", x)>>
  PROVE  ts \in Seq(SignedTerms) /\ ts # <<>> /\ Calculator!ValueOf(ts) = x /\ NoZero(ts)
<1>1. PICK u : u = Calculator!Term("+", x) /\ u \in SignedTerms /\ u.op = "+" /\ u.num = x
  BY TermHeld
<1>2. ts = Append(<<>>, u)
  BY <1>1, TermLists
<1>3. Calculator!ValueOf(Append(<<>>, u)) = Calculator!Apply(u.op, Calculator!ValueOf(<<>>), u.num)
  BY <1>1, TermLists, ValueOfAppended
<1>4. Calculator!Apply("+", Calculator!Zero, x) = x
  BY AddZero DEF Calculator!Apply
<1>5. NoZero(<<>>)
  BY DEF NoZero
<1>6. NoZero(Append(<<>>, u))
  BY <1>1, <1>5, TermLists, NoZeroAppended
<1>7. ts \in Seq(SignedTerms) /\ ts # <<>>
  BY <1>1, <1>2, TermLists
<1> QED BY <1>1, <1>2, <1>3, <1>4, <1>6, <1>7, ValueOfNone

\* A number is typed afresh exactly when the next digit begins one.
LEMMA FreshIs ==
  ASSUME CalcInv, ~odd
  PROVE  Calculator!Fresh <=> newEntry
BY DEF CalcInv, CalcTypes, Registers, KeysHeld, Calculating, NothingTyped, NumberTyped, OperatorTyped, ResultShown, Calculator!Fresh

\* One lemma for each key and menu entry.
LEMMA ClearStep ==
  ASSUME CalcInv, Calculator!Clear
  PROVE  CalcInv'
<1>1. /\ current' = Calculator!Zero /\ accumulator' = Calculator!Zero /\ operation' = "" /\ leftOperand' = Calculator!Zero
      /\ leftDecimals' = 0 /\ newEntry' = TRUE /\ hasDecimal' = FALSE /\ decimals' = 0 /\ error' = FALSE /\ odd' = FALSE
      /\ terms' = <<>> /\ pend' = "" /\ entry' = [digits |-> 0, frac |-> 0] /\ clipboard' = clipboard
  BY DEF Calculator!Clear, Calculator!Forget
<1>2. display'.left \in Texts /\ display'.right \in Texts
  <2>1. leftOperand' \in Fractions /\ current' \in Fractions /\ leftDecimals' \in Nat /\ decimals' \in Nat
    BY <1>1, ZeroHeld
  <2>2. Calculator!UpdateDisplay
    BY DEF Calculator!Clear
  <2> QED BY <2>1, <2>2, Updated
<1>3. CalcTypes'
  <2>1. Registers'
    BY <1>1, ZeroHeld DEF Registers
  <2>2. TextsHeld'
    BY <1>1, <1>2 DEF CalcInv, CalcTypes, TextsHeld
  <2>3. pend' \in Ops \cup {"", "="} /\ odd' \in BOOLEAN
    BY <1>1
  <2>4. entry' \in [digits : Nat, frac : Nat]
    BY <1>1
  <2>5. terms' \in Seq(SignedTerms)
    <3>1. <<>> \in Seq(SignedTerms)
      OBVIOUS
    <3> QED BY <1>1, <3>1
  <2> QED BY <2>1, <2>2, <2>3, <2>4, <2>5 DEF CalcTypes, KeysHeld
<1>4. "" \notin Ops
  BY KeysAssumption
<1> QED BY <1>1, <1>3, <1>4 DEF CalcInv, Calculating, NothingTyped, NumberTyped, OperatorTyped, ResultShown

LEMMA ClearEntryStep ==
  ASSUME CalcInv, Calculator!ClearEntry
  PROVE  CalcInv'
<1>1. /\ current' = Calculator!Zero /\ hasDecimal' = FALSE /\ decimals' = 0 /\ newEntry' = TRUE /\ error' = FALSE
      /\ UNCHANGED <<accumulator, operation, leftOperand, leftDecimals, clipboard>>
  BY DEF Calculator!ClearEntry
<1>2. display'.left \in Texts /\ display'.right \in Texts
  <2>1. leftOperand' \in Fractions /\ current' \in Fractions /\ leftDecimals' \in Nat /\ decimals' \in Nat
    BY <1>1, ZeroHeld DEF CalcInv, CalcTypes, Registers
  <2>2. Calculator!UpdateDisplay
    BY DEF Calculator!ClearEntry
  <2> QED BY <2>1, <2>2, Updated
<1>3. CASE operation = ""
  <2>1. terms' = <<>> /\ pend' = "" /\ entry' = [digits |-> 0, frac |-> 0] /\ odd' = odd
    BY <1>3 DEF Calculator!ClearEntry, Calculator!Forget
  <2>2. CalcTypes'
    <3>1. Registers'
      BY <1>1, ZeroHeld DEF CalcInv, CalcTypes, Registers
    <3>2. TextsHeld'
      BY <1>1, <1>2 DEF CalcInv, CalcTypes, TextsHeld
    <3>3. pend' \in Ops \cup {"", "="} /\ odd' \in BOOLEAN
      BY <2>1 DEF CalcInv, CalcTypes, KeysHeld
    <3>4. entry' \in [digits : Nat, frac : Nat]
      BY <2>1
    <3>5. terms' \in Seq(SignedTerms)
      <4>1. <<>> \in Seq(SignedTerms)
        OBVIOUS
      <4> QED BY <2>1, <4>1
    <3> QED BY <3>1, <3>2, <3>3, <3>4, <3>5 DEF CalcTypes, KeysHeld
  <2>3. "" \notin Ops
    BY KeysAssumption
  <2> QED BY <1>1, <1>3, <2>1, <2>2, <2>3 DEF CalcInv, Calculating, NothingTyped, NumberTyped, OperatorTyped, ResultShown
<1>4. CASE operation # ""
  <2>1. odd' = TRUE /\ UNCHANGED <<terms, pend, entry>>
    BY <1>4 DEF Calculator!ClearEntry
  <2>2. CalcTypes'
    <3>1. Registers'
      BY <1>1, ZeroHeld DEF CalcInv, CalcTypes, Registers
    <3>2. TextsHeld'
      BY <1>1, <1>2 DEF CalcInv, CalcTypes, TextsHeld
    <3>3. pend' \in Ops \cup {"", "="} /\ odd' \in BOOLEAN
      BY <2>1 DEF CalcInv, CalcTypes, KeysHeld
    <3>4. entry' \in [digits : Nat, frac : Nat]
      BY <2>1 DEF CalcInv, CalcTypes, KeysHeld
    <3>5. terms' \in Seq(SignedTerms)
      BY <2>1 DEF CalcInv, CalcTypes, KeysHeld
    <3> QED BY <3>1, <3>2, <3>3, <3>4, <3>5 DEF CalcTypes, KeysHeld
  <2> QED BY <2>1, <2>2 DEF CalcInv, Calculating
<1> QED BY <1>3, <1>4

LEMMA CopyStep ==
  ASSUME CalcInv, Calculator!Copy
  PROVE  CalcInv'
<1>1. UNCHANGED <<current, accumulator, operation, leftOperand, leftDecimals, newEntry, hasDecimal, decimals, error, display,
                  terms, pend, entry, odd>>
  BY DEF Calculator!Copy, Calculator!operands, Calculator!flags, Calculator!typed
<1>2. PICK t : t = [num |-> display.left.num, places |-> IF display.left.places > 0 THEN display.left.places ELSE display.right.places]
  OBVIOUS
<1>3. clipboard' = <<t>>
  BY <1>2 DEF Calculator!Copy
<1>4. t \in Texts
  BY <1>2 DEF CalcInv, CalcTypes, TextsHeld, Texts
<1>5. CalcTypes'
  <2>1. Registers'
    BY <1>1 DEF CalcInv, CalcTypes, Registers
  <2>2. TextsHeld'
    BY <1>1, <1>3, <1>4 DEF CalcInv, CalcTypes, TextsHeld
  <2>3. KeysHeld'
    BY <1>1 DEF CalcInv, CalcTypes, KeysHeld
  <2> QED BY <2>1, <2>2, <2>3 DEF CalcTypes
<1> QED BY <1>1, <1>5 DEF CalcInv, Calculating, NothingTyped, NumberTyped, OperatorTyped, ResultShown, After

LEMMA ScientificStep ==
  ASSUME CalcInv, Calculator!SetScientific
  PROVE  CalcInv'
<1>1. UNCHANGED <<current, accumulator, operation, leftOperand, leftDecimals, newEntry, hasDecimal, decimals, error, clipboard,
                  terms, pend, entry, odd>>
  BY DEF Calculator!SetScientific, Calculator!operands, Calculator!flags, Calculator!typed
<1>2. display'.left \in Texts /\ display'.right \in Texts
  <2>1. leftOperand' \in Fractions /\ current' \in Fractions /\ leftDecimals' \in Nat /\ decimals' \in Nat
    BY <1>1 DEF CalcInv, CalcTypes, Registers
  <2>2. Calculator!UpdateDisplay
    BY DEF Calculator!SetScientific
  <2> QED BY <2>1, <2>2, Updated
<1>3. CalcTypes'
  BY <1>1, <1>2 DEF CalcInv, CalcTypes, Registers, TextsHeld, KeysHeld
<1> QED BY <1>1, <1>3 DEF CalcInv, Calculating, NothingTyped, NumberTyped, OperatorTyped, ResultShown, After

LEMMA PasteStep ==
  ASSUME CalcInv, Calculator!Paste
  PROVE  CalcInv'
<1>1. PICK t \in Texts : clipboard[1] = t
  <2>1. clipboard # <<>> /\ clipboard \in Seq(Texts)
    BY DEF CalcInv, CalcTypes, TextsHeld, Calculator!Paste
  <2> QED BY <2>1
<1>2. t.num \in Fractions /\ t.places \in Nat
  BY DEF Texts
<1>3. /\ current' = t.num /\ accumulator' = Calculator!Zero /\ operation' = "" /\ leftOperand' = Calculator!Zero
      /\ leftDecimals' = 0 /\ newEntry' = TRUE /\ error' = FALSE /\ hasDecimal' = (t.places > 0)
      /\ terms' = <<Calculator!Term("+", current')>> /\ pend' = "=" /\ entry' = entry /\ odd' = FALSE /\ clipboard' = clipboard
  BY <1>1 DEF Calculator!Paste
<1>4. decimals' \in Nat
  <2>1. decimals' = IF t.places > 6 THEN 6 ELSE t.places
    BY <1>1 DEF Calculator!Paste
  <2> QED BY <1>2, <2>1
<1>5. display'.left \in Texts /\ display'.right \in Texts
  <2>1. leftOperand' \in Fractions /\ current' \in Fractions /\ leftDecimals' \in Nat
    BY <1>2, <1>3, ZeroHeld
  <2>2. Calculator!UpdateDisplay
    BY DEF Calculator!Paste
  <2> QED BY <1>4, <2>1, <2>2, Updated
<1>6. CalcTypes'
  <2>1. Registers'
    <3>1. hasDecimal' \in BOOLEAN
      <4>1. (t.places > 0) \in BOOLEAN
        BY <1>2
      <4> QED BY <1>3, <4>1, Zenon
    <3> QED BY <1>2, <1>3, <1>4, <3>1, ZeroHeld DEF Registers
  <2>2. TextsHeld'
    BY <1>3, <1>5 DEF CalcInv, CalcTypes, TextsHeld
  <2>3. pend' \in Ops \cup {"", "="} /\ odd' \in BOOLEAN
    BY <1>3
  <2>4. entry' \in [digits : Nat, frac : Nat]
    BY <1>3 DEF CalcInv, CalcTypes, KeysHeld
  <2>5. terms' \in Seq(SignedTerms)
    BY <1>2, <1>3, OneTerm
  <2> QED BY <2>1, <2>2, <2>3, <2>4, <2>5 DEF CalcTypes, KeysHeld
<1>7. Calculator!ValueOf(terms') = current' /\ NoZero(terms') /\ terms' # <<>>
  BY <1>2, <1>3, OneTerm
<1>8. ResultShown'
  BY <1>3, <1>7 DEF ResultShown
<1>9. "=" \notin Ops
  BY KeysAssumption
<1> QED BY <1>3, <1>6, <1>7, <1>8, <1>9 DEF CalcInv, Calculating, NothingTyped, NumberTyped, OperatorTyped

LEMMA LastHeld ==
  ASSUME NEW ts \in Seq(SignedTerms), ts # <<>>, NEW x \in Fractions
  PROVE  [ts EXCEPT ![Len(ts)].num = x] \in Seq(SignedTerms)
<1>1. PICK n \in 1 .. Len(ts) : n = Len(ts)
  OBVIOUS
<1>2. PICK t : t = [ts[n] EXCEPT !.num = x]
  OBVIOUS
<1>3. t \in SignedTerms
  <2>1. ts[n] \in SignedTerms
    OBVIOUS
  <2> QED BY <1>2, <2>1 DEF SignedTerms
<1>4. [ts EXCEPT ![n] = t] \in Seq(SignedTerms)
  BY <1>3, ExceptSeq
<1>5. [ts EXCEPT ![Len(ts)].num = x] = [ts EXCEPT ![n] = t]
  BY <1>1, <1>2
<1> QED BY <1>4, <1>5

\* A number begun with e, behind what was typed before it.
LEMMA Begun ==
  ASSUME CalcInv, ~odd, newEntry, NEW x \in Fractions, current' = x, operation' = operation, accumulator' = accumulator,
         terms' = IF pend \in {"", "="} THEN <<Calculator!Term("+", x)>> ELSE Append(terms, Calculator!Term(pend, x))
  PROVE  \E front \in Seq(SignedTerms) : After(front)'
<1>1. CASE pend \in {"", "="}
  <2>1. operation = ""
    <3>1. CASE pend = "="
      BY <3>1 DEF CalcInv, Calculating, ResultShown
    <3>2. CASE pend = ""
      BY <3>2 DEF CalcInv, Calculating, NothingTyped, NumberTyped
    <3> QED BY <1>1, <3>1, <3>2
  <2>2. PICK front : front = <<>>
    OBVIOUS
  <2>4. terms' = Append(front, Calculator!Term("+", x))
    BY <1>1, <2>2, TermLists
  <2>5. After(front)'
    BY <2>1, <2>2, <2>4 DEF After
  <2>6. front \in Seq(SignedTerms)
    BY <2>2, TermLists
  <2> QED BY <2>5, <2>6
<1>2. CASE pend \notin {"", "="}
  <2>1. pend \in Ops
    BY <1>2 DEF CalcInv, CalcTypes, KeysHeld
  <2>2. terms # <<>> /\ operation = pend /\ accumulator = Calculator!ValueOf(terms) /\ NoZero(terms)
    BY <2>1 DEF CalcInv, Calculating, OperatorTyped
  <2>3. PICK front : front = terms
    OBVIOUS
  <2>4. front \in Seq(SignedTerms) /\ front # <<>>
    BY <2>2, <2>3 DEF CalcInv, CalcTypes, KeysHeld
  <2>5. terms' = Append(front, Calculator!Term(operation', current'))
    BY <1>2, <2>2, <2>3
  <2>6. operation' \in Ops /\ NoZero(front) /\ accumulator' = Calculator!ValueOf(front)
    BY <2>1, <2>2, <2>3
  <2>7. After(front)'
    BY <2>4, <2>5, <2>6 DEF After
  <2> QED BY <2>4, <2>7
<1> QED BY <1>1, <1>2

LEMMA DigitTypes ==
  ASSUME CalcInv, NEW d \in Nat, Calculator!Digit(d)
  PROVE  CalcTypes'
<1>1. /\ newEntry' = FALSE /\ error' = FALSE
      /\ UNCHANGED <<accumulator, operation, leftOperand, leftDecimals, clipboard>>
  BY DEF Calculator!Digit
<1>2. PICK v, k : v = (IF error THEN Calculator!Zero ELSE current) /\ k = IF error THEN 1 ELSE decimals + 1
  OBVIOUS
<1>3. v \in Fractions /\ k \in Nat
  <2>1. current \in Fractions /\ decimals \in Nat
    BY DEF CalcInv, CalcTypes, Registers
  <2>2. v \in Fractions
    BY <1>2, <2>1, ZeroHeld
  <2>3. k \in Nat
    BY <1>2, <2>1
  <2> QED BY <2>2, <2>3
<1>4. current' \in Fractions
  <2>1. current' \in {Calculator!Num(d), Calculator!Add(v, Calculator!Frac(d, Calculator!Tens[k])),
                      Calculator!Add(Calculator!Frac(v.n * 10, v.d), Calculator!Num(d))}
    BY <1>2 DEF Calculator!Digit
  <2>2. Calculator!Num(d) \in Fractions
    BY WholeFrac
  <2>3. Calculator!Frac(d, Calculator!Tens[k]) \in Fractions
    <3>1. d \in Int /\ Calculator!Tens[k] \in Nat /\ Calculator!Tens[k] # 0
      BY <1>3, TensPositive
    <3> QED BY <3>1, FracHeld
  <2>4. Calculator!Frac(v.n * 10, v.d) \in Fractions
    <3>1. v.n * 10 \in Int /\ v.d \in Nat /\ v.d # 0
      BY <1>3, FractionIs
    <3> QED BY <3>1, FracHeld
  <2>5. Calculator!Add(v, Calculator!Frac(d, Calculator!Tens[k])) \in Fractions
    BY <1>3, <2>3, AddHeld
  <2>6. Calculator!Add(Calculator!Frac(v.n * 10, v.d), Calculator!Num(d)) \in Fractions
    BY <2>2, <2>4, AddHeld
  <2> QED BY <2>1, <2>2, <2>5, <2>6
<1>5. decimals' \in Nat
  <2>1. decimals' \in {k, 0, decimals}
    BY <1>2 DEF Calculator!Digit
  <2>2. decimals \in Nat
    BY DEF CalcInv, CalcTypes, Registers
  <2> QED BY <1>3, <2>1, <2>2
<1>6. hasDecimal' \in BOOLEAN
  <2>1. hasDecimal' = (~newEntry /\ (hasDecimal /\ ~error))
    BY DEF Calculator!Digit
  <2> QED BY <2>1, Zenon
<1>7. Registers'
  <2>1. accumulator' \in Fractions /\ leftOperand' \in Fractions /\ leftDecimals' \in Nat /\ operation' \in Ops \cup {""}
    BY <1>1 DEF CalcInv, CalcTypes, Registers
  <2> QED BY <1>1, <1>4, <1>5, <1>6, <2>1 DEF Registers
<1>8. TextsHeld'
  <2>1. leftOperand' \in Fractions /\ leftDecimals' \in Nat
    BY <1>7 DEF Registers
  <2>2. Calculator!UpdateDisplay
    BY DEF Calculator!Digit
  <2>3. display'.left \in Texts /\ display'.right \in Texts
    BY <1>4, <1>5, <2>1, <2>2, Updated
  <2> QED BY <1>1, <2>3 DEF CalcInv, CalcTypes, TextsHeld
<1>9. entry' \in [digits : Nat, frac : Nat]
  <2>1. entry \in [digits : Nat, frac : Nat]
    BY DEF CalcInv, CalcTypes, KeysHeld
  <2>2. PICK a \in Nat, b \in Nat : a = entry.digits * 10 + d /\ b = IF hasDecimal THEN entry.frac + 1 ELSE entry.frac
    BY <2>1
  <2>3. entry' \in {[digits |-> d, frac |-> 0], [digits |-> a, frac |-> b]}
    BY <2>2 DEF Calculator!Digit, Calculator!TypeDigit
  <2> QED BY <2>2, <2>3
<1>10. Calculator!Entered(entry') \in Fractions
  BY <1>9, EnteredHeld
<1>11. terms' = IF ~Calculator!Fresh THEN [terms EXCEPT ![Len(terms)].num = Calculator!Entered(entry')]
                ELSE IF pend \in {"", "="} THEN <<Calculator!Term("+", Calculator!Entered(entry'))>>
                ELSE Append(terms, Calculator!Term(pend, Calculator!Entered(entry')))
  BY DEF Calculator!Digit, Calculator!TypeDigit
<1>12. terms' \in Seq(SignedTerms)
  <2>1. terms \in Seq(SignedTerms) /\ pend \in Ops \cup {"", "="}
    BY DEF CalcInv, CalcTypes, KeysHeld
  <2>2. CASE ~Calculator!Fresh
    <3>1. terms # <<>>
      BY <2>2 DEF Calculator!Fresh
    <3> QED BY <1>10, <1>11, <2>1, <2>2, <3>1, LastHeld
  <2>3. CASE Calculator!Fresh /\ pend \in {"", "="}
    <3>1. PICK u : u = Calculator!Term("+", Calculator!Entered(entry'))
      OBVIOUS
    <3>2. u \in SignedTerms
      BY <1>10, <3>1, TermHeld
    <3>3. terms' = <<u>>
      BY <1>11, <2>3, <3>1
    <3> QED BY <3>2, <3>3
  <2>4. CASE Calculator!Fresh /\ pend \notin {"", "="}
    <3>1. PICK u : u = Calculator!Term(pend, Calculator!Entered(entry'))
      OBVIOUS
    <3>2. u \in SignedTerms
      BY <1>10, <2>1, <2>4, <3>1, TermHeld
    <3>3. terms' = Append(terms, u)
      BY <1>11, <2>4, <3>1
    <3> QED BY <2>1, <3>2, <3>3, TermLists
  <2> QED BY <2>2, <2>3, <2>4
<1>13. pend' \in Ops \cup {"", "="} /\ odd' \in BOOLEAN
  <2>1. pend' = "" /\ odd' = odd
    BY DEF Calculator!Digit, Calculator!TypeDigit
  <2> QED BY <2>1 DEF CalcInv, CalcTypes, KeysHeld
<1> QED BY <1>7, <1>8, <1>9, <1>12, <1>13 DEF CalcTypes, KeysHeld

LEMMA DigitStep ==
  ASSUME CalcInv, NEW d \in Digits, Calculator!Digit(d)
  PROVE  CalcInv'
<1>1. d \in Nat
  BY KeysAssumption
<1>2. CalcTypes'
  BY <1>1, DigitTypes
<1>3. SUFFICES ASSUME ~odd' PROVE NothingTyped' /\ NumberTyped' /\ OperatorTyped' /\ ResultShown'
  BY <1>2 DEF CalcInv, Calculating
<1>4. ~odd /\ pend' = "" /\ newEntry' = FALSE /\ error' = FALSE /\ UNCHANGED <<accumulator, operation>>
  BY <1>3 DEF Calculator!Digit, Calculator!TypeDigit
<1>5. entry' = IF Calculator!Fresh THEN [digits |-> d, frac |-> 0]
               ELSE [digits |-> entry.digits * 10 + d, frac |-> IF hasDecimal THEN entry.frac + 1 ELSE entry.frac]
  BY DEF Calculator!Digit, Calculator!TypeDigit
<1>6. terms' = IF ~Calculator!Fresh THEN [terms EXCEPT ![Len(terms)].num = Calculator!Entered(entry')]
               ELSE IF pend \in {"", "="} THEN <<Calculator!Term("+", Calculator!Entered(entry'))>>
               ELSE Append(terms, Calculator!Term(pend, Calculator!Entered(entry')))
  BY DEF Calculator!Digit, Calculator!TypeDigit
<1>7. entry' \in [digits : Nat, frac : Nat] /\ Calculator!Entered(entry') \in Fractions
  BY <1>2, EnteredHeld DEF CalcTypes, KeysHeld
<1>8. Calculator!Fresh <=> newEntry
  BY <1>4, FreshIs
<1>9. /\ current' = Calculator!Entered(entry')
      /\ IF hasDecimal' THEN decimals' = entry'.frac ELSE entry'.frac = 0
      /\ \E front \in Seq(SignedTerms) : After(front)'
  <2>1. CASE newEntry
    <3>1. current' = Calculator!Num(d) /\ hasDecimal' = FALSE
      BY <2>1 DEF Calculator!Digit
    <3>2. entry' = [digits |-> d, frac |-> 0]
      BY <1>5, <1>8, <2>1
    <3>3. Calculator!Entered(entry') = Calculator!Num(d)
      <4>1. Calculator!Entered(entry') = Calculator!Frac(d, 1)
        BY <3>2, TensIs DEF Calculator!Entered
      <4> QED BY <1>1, <4>1, WholeFrac
    <3>4. \E front \in Seq(SignedTerms) : After(front)'
      <4>1. terms' = IF pend \in {"", "="} THEN <<Calculator!Term("+", current')>> ELSE Append(terms, Calculator!Term(pend, current'))
        BY <1>6, <1>8, <2>1, <3>1, <3>3
      <4>2. current' \in Fractions
        BY <1>2 DEF CalcTypes, Registers
      <4> QED BY <1>4, <2>1, <4>1, <4>2, Begun
    <3> QED BY <3>1, <3>2, <3>3, <3>4
  <2>2. CASE ~newEntry
    <3>1. pend = "" /\ terms # <<>>
      BY <1>8, <2>2 DEF Calculator!Fresh
    <3>2. /\ ~error /\ current = Calculator!Entered(entry)
          /\ IF hasDecimal THEN decimals = entry.frac ELSE entry.frac = 0
      BY <1>4, <3>1 DEF CalcInv, Calculating, NumberTyped
    <3>3. PICK front \in Seq(SignedTerms) : After(front)
      BY <1>4, <3>1 DEF CalcInv, Calculating, NumberTyped
    <3>4. PICK n \in Nat, f \in Nat : n = entry.digits /\ f = entry.frac /\ current = Calculator!Frac(n, Calculator!Tens[f])
      <4>1. entry \in [digits : Nat, frac : Nat]
        BY DEF CalcInv, CalcTypes, KeysHeld
      <4> QED BY <3>2, <4>1, EnteredHeld
    <3>5. entry' = [digits |-> n * 10 + d, frac |-> IF hasDecimal THEN f + 1 ELSE f]
      BY <1>5, <1>8, <2>2, <3>4
    <3>6. /\ current' = Calculator!Entered(entry')
          /\ IF hasDecimal' THEN decimals' = entry'.frac ELSE entry'.frac = 0
      <4>1. CASE hasDecimal
        <5>1. /\ current' = Calculator!Add(current, Calculator!Frac(d, Calculator!Tens[decimals + 1]))
              /\ hasDecimal' /\ decimals' = decimals + 1
          BY <2>2, <3>2, <4>1 DEF Calculator!Digit
        <5>2. decimals = f
          BY <3>2, <3>4, <4>1
        <5>3. Calculator!Entered(entry') = Calculator!Frac(n * 10 + d, Calculator!Tens[f + 1]) /\ entry'.frac = f + 1
          BY <3>5, <4>1 DEF Calculator!Entered
        <5> QED BY <1>1, <3>4, <5>1, <5>2, <5>3, DecimalTyped
      <4>2. CASE ~hasDecimal
        <5>1. current' = Calculator!Add(Calculator!Frac(current.n * 10, current.d), Calculator!Num(d)) /\ ~hasDecimal'
          BY <2>2, <3>2, <4>2 DEF Calculator!Digit
        <5>2. f = 0
          BY <3>2, <3>4, <4>2
        <5>3. Calculator!Entered(entry') = Calculator!Frac(n * 10 + d, Calculator!Tens[0]) /\ entry'.frac = 0
          BY <3>5, <4>2, <5>2 DEF Calculator!Entered
        <5>4. current = Calculator!Frac(n, Calculator!Tens[0])
          BY <3>4, <5>2
        <5> QED BY <1>1, <5>1, <5>3, <5>4, DigitTyped
      <4> QED BY <4>1, <4>2
    <3>7. After(front)'
      <4>1. PICK o : o = IF front = <<>> THEN "+" ELSE operation
        OBVIOUS
      <4>2. o \in Signs
        BY <3>3, <4>1, KeysAssumption DEF After, Signs
      <4>3. terms = Append(front, Calculator!Term(o, current))
        BY <3>3, <4>1 DEF After
      <4>4. current \in Fractions
        BY DEF CalcInv, CalcTypes, Registers
      <4>5. [terms EXCEPT ![Len(terms)].num = Calculator!Entered(entry')] = Append(front, Calculator!Term(o, Calculator!Entered(entry')))
        BY <1>7, <4>2, <4>3, <4>4, LastReplaced
      <4>6. terms' = Append(front, Calculator!Term(o, current'))
        BY <1>6, <1>8, <2>2, <3>6, <4>5
      <4> QED BY <1>4, <3>3, <4>1, <4>6 DEF After
    <3> QED BY <3>6, <3>7
  <2> QED BY <2>1, <2>2 DEF CalcInv, CalcTypes, Registers
<1>10. terms' # <<>>
  <2>1. PICK front \in Seq(SignedTerms) : After(front)'
    BY <1>9
  <2>2. PICK t : terms' = Append(front, t)
    BY <2>1 DEF After
  <2> QED BY <2>2
<1>11. "" \notin Ops
  BY KeysAssumption
<1>12. NumberTyped'
  BY <1>4, <1>9 DEF NumberTyped
<1> QED BY <1>4, <1>10, <1>11, <1>12 DEF NothingTyped, OperatorTyped, ResultShown

LEMMA DecimalStep ==
  ASSUME CalcInv, Calculator!Decimal
  PROVE  CalcInv'
<1>1. /\ ~error /\ newEntry' = FALSE /\ hasDecimal' = TRUE /\ decimals' = 0 /\ current' = IF newEntry THEN Calculator!Zero ELSE current
      /\ UNCHANGED <<accumulator, operation, leftOperand, leftDecimals, error, display, clipboard>>
  BY DEF Calculator!Decimal
<1>2. Registers'
  BY <1>1, ZeroHeld DEF CalcInv, CalcTypes, Registers
<1>3. TextsHeld'
  BY <1>1 DEF CalcInv, CalcTypes, TextsHeld
<1>4. CASE ~Calculator!Fresh
  <2>1. odd' = (odd \/ hasDecimal) /\ UNCHANGED <<terms, pend, entry>>
    BY <1>4 DEF Calculator!Decimal, Calculator!TypePoint
  <2>2. KeysHeld'
    <3>1. odd' \in BOOLEAN
      BY <2>1
    <3> QED BY <2>1, <3>1 DEF CalcInv, CalcTypes, KeysHeld
  <2>3. ASSUME ~odd' PROVE NothingTyped' /\ NumberTyped' /\ OperatorTyped' /\ ResultShown'
    <3>1. ~odd /\ ~hasDecimal
      BY <2>1, <2>3
    <3>2. pend = "" /\ terms # <<>> /\ ~newEntry
      BY <1>4, <3>1, FreshIs DEF Calculator!Fresh
    <3>3. current = Calculator!Entered(entry) /\ entry.frac = 0
      BY <3>1, <3>2 DEF CalcInv, Calculating, NumberTyped
    <3>4. PICK front \in Seq(SignedTerms) : After(front)
      BY <3>1, <3>2 DEF CalcInv, Calculating, NumberTyped
    <3>5. current' = current
      BY <1>1, <3>2
    <3>6. After(front)'
      BY <1>1, <2>1, <3>4, <3>5 DEF After
    <3>7. NumberTyped'
      BY <1>1, <2>1, <3>3, <3>5, <3>6 DEF NumberTyped
    <3>8. "" \notin Ops
      BY KeysAssumption
    <3> QED BY <2>1, <3>2, <3>7, <3>8 DEF NothingTyped, OperatorTyped, ResultShown
  <2> QED BY <1>2, <1>3, <2>2, <2>3 DEF CalcInv, CalcTypes, Calculating
<1>5. CASE Calculator!Fresh
  <2>1. /\ entry' = [digits |-> 0, frac |-> 0] /\ pend' = "" /\ odd' = odd
        /\ terms' = IF pend \in {"", "="} THEN <<Calculator!Term("+", Calculator!Zero)>>
                    ELSE Append(terms, Calculator!Term(pend, Calculator!Zero))
    BY <1>5 DEF Calculator!Decimal, Calculator!TypePoint
  <2>2. terms' \in Seq(SignedTerms) /\ terms' # <<>>
    <3>1. terms \in Seq(SignedTerms) /\ pend \in Ops \cup {"", "="}
      BY DEF CalcInv, CalcTypes, KeysHeld
    <3>2. CASE pend \in {"", "="}
      BY <2>1, <3>2, ZeroHeld, OneTerm
    <3>3. CASE pend \notin {"", "="}
      <4>1. PICK u : u = Calculator!Term(pend, Calculator!Zero) /\ u \in SignedTerms
        BY <3>1, <3>3, ZeroHeld, TermHeld
      <4>2. terms' = Append(terms, u)
        BY <2>1, <3>3, <4>1
      <4> QED BY <3>1, <4>1, <4>2, TermLists
    <3> QED BY <3>2, <3>3
  <2>3. KeysHeld'
    <3>1. pend' \in Ops \cup {"", "="} /\ odd' \in BOOLEAN
      BY <2>1 DEF CalcInv, CalcTypes, KeysHeld
    <3>2. entry' \in [digits : Nat, frac : Nat]
      BY <2>1
    <3> QED BY <2>2, <3>1, <3>2 DEF KeysHeld
  <2>4. ASSUME ~odd' PROVE NothingTyped' /\ NumberTyped' /\ OperatorTyped' /\ ResultShown'
    <3>1. ~odd /\ newEntry
      BY <1>5, <2>1, <2>4, FreshIs
    <3>2. current' = Calculator!Zero
      BY <1>1, <3>1
    <3>3. Calculator!Entered(entry') = Calculator!Zero /\ entry'.frac = 0
      <4>1. Calculator!Entered(entry') = Calculator!Frac(0, 1) /\ entry'.frac = 0
        BY <2>1, TensIs DEF Calculator!Entered
      <4> QED BY <4>1, WholeFrac, ZeroHeld
    <3>4. \E front \in Seq(SignedTerms) : After(front)'
      BY <1>1, <2>1, <3>1, <3>2, ZeroHeld, Begun
    <3>5. NumberTyped'
      BY <1>1, <3>2, <3>3, <3>4 DEF NumberTyped
    <3>6. "" \notin Ops
      BY KeysAssumption
    <3> QED BY <2>1, <2>2, <3>5, <3>6 DEF NothingTyped, OperatorTyped, ResultShown
  <2> QED BY <1>2, <1>3, <2>3, <2>4 DEF CalcInv, CalcTypes, Calculating
<1> QED BY <1>4, <1>5

\* What an operation leaves is a fraction, and a division by zero leaves what was.
LEMMA ResultHeld ==
  ASSUME CalcInv, operation # ""
  PROVE  Calculator!Result \in Fractions /\ Calculator!Fails \in BOOLEAN
<1>1. operation \in Signs /\ accumulator \in Fractions /\ current \in Fractions
  BY KeysAssumption DEF CalcInv, CalcTypes, Registers, Signs
<1>2. Calculator!Fails \in BOOLEAN
  BY DEF Calculator!Fails
<1>3. CASE Calculator!Fails
  BY <1>1, <1>2, <1>3 DEF Calculator!Result
<1>4. CASE ~Calculator!Fails
  BY <1>1, <1>2, <1>4, ApplyHeld DEF Calculator!Result, Calculator!Fails
<1> QED BY <1>3, <1>4

LEMMA OperationTypes ==
  ASSUME CalcInv, NEW op \in Ops, Calculator!SetOperation(op)
  PROVE  CalcTypes'
<1>1. /\ error' = (Calculator!Due /\ Calculator!Fails) /\ current' = (IF Calculator!Due THEN Calculator!Result ELSE current)
      /\ accumulator' = current' /\ leftOperand' = current' /\ leftDecimals' = (IF Calculator!Due THEN 0 ELSE decimals)
      /\ operation' = op /\ newEntry' = TRUE /\ hasDecimal' = FALSE /\ decimals' = 0 /\ clipboard' = clipboard
  BY DEF Calculator!SetOperation
<1>2. current' \in Fractions
  <2>1. CASE Calculator!Due
    <3>1. operation # ""
      BY <2>1 DEF Calculator!Due
    <3> QED BY <1>1, <2>1, <3>1, ResultHeld
  <2>2. CASE ~Calculator!Due
    BY <1>1, <2>2 DEF CalcInv, CalcTypes, Registers
  <2> QED BY <2>1, <2>2
<1>3. error' \in BOOLEAN
  BY <1>1
<1>4. Registers'
  <2>1. leftDecimals' \in Nat
    BY <1>1 DEF CalcInv, CalcTypes, Registers
  <2> QED BY <1>1, <1>2, <1>3, <2>1 DEF Registers
<1>5. TextsHeld'
  <2>1. PICK t : t = Calculator!Shown(current', 0) /\ t \in Texts
    BY <1>2, ShownText
  <2>2. display' \in {display, Calculator!Error, Calculator!Both(t, t)}
    BY <2>1 DEF Calculator!SetOperation
  <2>3. display'.left \in Texts /\ display'.right \in Texts
    BY <2>1, <2>2, ZeroHeld DEF Calculator!Error, Calculator!Both, CalcInv, CalcTypes, TextsHeld
  <2> QED BY <1>1, <2>3 DEF CalcInv, CalcTypes, TextsHeld
<1>6. /\ pend' = op /\ odd' = (odd \/ error') /\ entry' = entry
      /\ terms' = IF terms = <<>> THEN <<Calculator!Term("+", Calculator!Zero)>> ELSE terms
  BY DEF Calculator!SetOperation, Calculator!TypeOp
<1>7. terms' \in Seq(SignedTerms)
  <2>1. terms \in Seq(SignedTerms)
    BY DEF CalcInv, CalcTypes, KeysHeld
  <2> QED BY <1>6, <2>1, ZeroHeld, OneTerm
<1>8. pend' \in Ops \cup {"", "="} /\ odd' \in BOOLEAN
  BY <1>6
<1>9. entry' \in [digits : Nat, frac : Nat]
  BY <1>6 DEF CalcInv, CalcTypes, KeysHeld
<1> QED BY <1>4, <1>5, <1>7, <1>8, <1>9 DEF CalcTypes, KeysHeld

LEMMA OperationStep ==
  ASSUME CalcInv, NEW op \in Ops, Calculator!SetOperation(op)
  PROVE  CalcInv'
<1>1. CalcTypes'
  BY OperationTypes
<1>2. SUFFICES ASSUME ~odd' PROVE NothingTyped' /\ NumberTyped' /\ OperatorTyped' /\ ResultShown'
  BY <1>1 DEF CalcInv, Calculating
<1>3. /\ ~error /\ error' = (Calculator!Due /\ Calculator!Fails) /\ current' = (IF Calculator!Due THEN Calculator!Result ELSE current)
      /\ accumulator' = current' /\ operation' = op /\ newEntry' = TRUE
  BY DEF Calculator!SetOperation
<1>4. /\ pend' = op /\ odd' = (odd \/ error')
      /\ terms' = IF terms = <<>> THEN <<Calculator!Term("+", Calculator!Zero)>> ELSE terms
  BY DEF Calculator!SetOperation, Calculator!TypeOp
<1>5. ~odd /\ ~error'
  BY <1>2, <1>4
<1>6. terms' # <<>> /\ current' = Calculator!ValueOf(terms') /\ NoZero(terms')
  <2>1. CASE terms = <<>>
    <3>1. newEntry /\ current = Calculator!Zero
      BY <1>5, <2>1 DEF CalcInv, Calculating, NothingTyped
    <3>2. current' = Calculator!Zero
      BY <1>3, <3>1 DEF Calculator!Due
    <3> QED BY <1>4, <2>1, <3>2, ZeroHeld, OneTerm
  <2>2. CASE terms # <<>> /\ pend = ""
    <3>1. ~newEntry
      BY <1>5, <2>2 DEF CalcInv, Calculating, NumberTyped
    <3>2. PICK front \in Seq(SignedTerms) : After(front)
      BY <1>5, <2>2 DEF CalcInv, Calculating, NumberTyped
    <3>3. CASE front = <<>>
      <4>1. current' = current
        BY <1>3, <3>2, <3>3 DEF Calculator!Due, After
      <4> QED BY <1>4, <2>2, <3>2, <3>3, <4>1, AfterValue DEF CalcInv
    <3>4. CASE front # <<>>
      <4>1. operation # ""
        BY <3>2, <3>4, KeysAssumption DEF After
      <4>2. Calculator!Due
        BY <3>1, <4>1 DEF Calculator!Due
      <4>3. ~Calculator!Fails /\ current' = Calculator!Apply(operation, accumulator, current)
        BY <1>3, <1>5, <4>2 DEF Calculator!Result
      <4> QED BY <1>4, <2>2, <3>2, <3>4, <4>3, AfterValue DEF CalcInv
    <3> QED BY <3>3, <3>4
  <2>3. CASE terms # <<>> /\ pend # ""
    <3>1. pend \in Ops \/ pend = "="
      BY <2>3 DEF CalcInv, CalcTypes, KeysHeld
    <3>2. newEntry /\ current = Calculator!ValueOf(terms) /\ NoZero(terms)
      BY <1>3, <1>5, <3>1 DEF CalcInv, Calculating, OperatorTyped, ResultShown
    <3> QED BY <1>3, <1>4, <2>3, <3>2 DEF Calculator!Due
  <2> QED BY <2>1, <2>2, <2>3
<1>7. op # "" /\ op # "="
  BY KeysAssumption
<1>8. OperatorTyped'
  BY <1>3, <1>4, <1>5, <1>6 DEF OperatorTyped
<1> QED BY <1>4, <1>6, <1>7, <1>8 DEF NothingTyped, NumberTyped, ResultShown

LEMMA NotLong == \A ts : ts = <<>> \/ Len(ts) = 1 => ~(Len(ts) > 1)
<1>1. ASSUME NEW ts, ts = <<>> PROVE ~(Len(ts) > 1)
  BY <1>1
<1>2. ASSUME NEW ts, Len(ts) = 1 PROVE ~(Len(ts) > 1)
  BY <1>2
<1> QED BY <1>1, <1>2

\* The terms stay as they are, or "5 + =" adds to them what they give.
LEMMA EqualsTerms ==
  ASSUME CalcInv, Calculator!Equals
  PROVE  KeysHeld'
<1>1. /\ pend' = (IF pend \in Ops \/ Len(terms) > 1 THEN "=" ELSE pend) /\ entry' = entry /\ odd' = odd
      /\ terms' = IF pend \in Ops /\ ~odd THEN Append(terms, Calculator!Term(pend, Calculator!ValueOf(terms))) ELSE terms
  BY DEF Calculator!Equals, Calculator!TypeEquals, Calculator!Value
<1>2. terms \in Seq(SignedTerms) /\ pend \in Ops \cup {"", "="} /\ odd \in BOOLEAN /\ entry \in [digits : Nat, frac : Nat]
  BY DEF CalcInv, CalcTypes, KeysHeld
<1>3. pend' \in Ops \cup {"", "="}
  BY <1>1, <1>2
<1>4. terms' \in Seq(SignedTerms)
  <2>1. CASE pend \in Ops /\ ~odd
    <3>1. Calculator!ValueOf(terms) \in Fractions
      BY <2>1 DEF CalcInv, CalcTypes, Registers, Calculating, OperatorTyped
    <3>2. PICK u : u = Calculator!Term(pend, Calculator!ValueOf(terms)) /\ u \in SignedTerms
      BY <2>1, <3>1, TermHeld
    <3>3. terms' = Append(terms, u)
      BY <1>1, <2>1, <3>2
    <3> QED BY <1>2, <3>2, <3>3, TermLists
  <2>2. CASE ~(pend \in Ops /\ ~odd)
    BY <1>1, <1>2, <2>2
  <2> QED BY <2>1, <2>2
<1> QED BY <1>1, <1>2, <1>3, <1>4 DEF KeysHeld

\* "=" after a lone number, or when nothing is left to do, changes no register.
LEMMA EqualsAlone ==
  ASSUME CalcInv, Calculator!Equals, operation = ""
  PROVE  CalcInv'
<1>1. UNCHANGED <<current, accumulator, operation, leftOperand, leftDecimals, newEntry, hasDecimal, decimals, error, display, clipboard>>
  BY DEF Calculator!Equals, Calculator!operands
<1>2. /\ pend' = (IF pend \in Ops \/ Len(terms) > 1 THEN "=" ELSE pend) /\ entry' = entry /\ odd' = odd
      /\ terms' = IF pend \in Ops /\ ~odd THEN Append(terms, Calculator!Term(pend, Calculator!ValueOf(terms))) ELSE terms
  BY DEF Calculator!Equals, Calculator!TypeEquals, Calculator!Value
<1>3. CalcTypes'
  <2>1. Registers'
    BY <1>1 DEF CalcInv, CalcTypes, Registers
  <2>2. TextsHeld'
    BY <1>1 DEF CalcInv, CalcTypes, TextsHeld
  <2> QED BY <2>1, <2>2, EqualsTerms DEF CalcTypes
<1>4. SUFFICES ASSUME ~odd PROVE NothingTyped' /\ NumberTyped' /\ OperatorTyped' /\ ResultShown'
  BY <1>2, <1>3 DEF CalcInv, Calculating
<1>5. pend \notin Ops
  <2>1. "" \notin Ops
    BY KeysAssumption
  <2> QED BY <1>4, <2>1 DEF CalcInv, Calculating, OperatorTyped
<1>6. terms' = terms /\ pend \in {"", "="}
  BY <1>2, <1>5 DEF CalcInv, CalcTypes, KeysHeld
<1>7. pend' = pend
  <2>1. CASE pend = "="
    BY <1>2, <2>1
  <2>2. CASE pend = "" /\ terms = <<>>
    <3> QED BY <1>2, <1>5, <2>2, NotLong
  <2>3. CASE pend = "" /\ terms # <<>>
    <3>1. PICK front \in Seq(SignedTerms) : After(front)
      BY <1>4, <2>3 DEF CalcInv, Calculating, NumberTyped
    <3>2. front = <<>>
      <4>1. "" \notin Ops
        BY KeysAssumption
      <4> QED BY <3>1, <4>1 DEF After
    <3>3. Len(terms) = 1
      BY <3>1, <3>2, AfterValue DEF CalcInv
    <3> QED BY <1>2, <1>5, <3>3, NotLong
  <2> QED BY <1>6, <2>1, <2>2, <2>3
<1> QED BY <1>1, <1>2, <1>4, <1>6, <1>7 DEF CalcInv, Calculating, NothingTyped, NumberTyped, OperatorTyped, ResultShown, After

LEMMA EqualsStep ==
  ASSUME CalcInv, Calculator!Equals
  PROVE  CalcInv'
<1>1. SUFFICES ASSUME operation # "" PROVE CalcInv'
  BY EqualsAlone
<1>2. /\ ~error /\ error' = Calculator!Fails /\ current' = Calculator!Result /\ accumulator' = Calculator!Result
      /\ operation' = "" /\ newEntry' = TRUE /\ hasDecimal' = FALSE /\ decimals' = 0 /\ leftDecimals' = 0
      /\ leftOperand' = leftOperand /\ clipboard' = clipboard /\ Calculator!UpdateDisplay
  BY <1>1 DEF Calculator!Equals
<1>3. /\ pend' = (IF pend \in Ops \/ Len(terms) > 1 THEN "=" ELSE pend) /\ odd' = odd
      /\ terms' = IF pend \in Ops /\ ~odd THEN Append(terms, Calculator!Term(pend, Calculator!ValueOf(terms))) ELSE terms
  BY DEF Calculator!Equals, Calculator!TypeEquals, Calculator!Value
<1>4. Calculator!Result \in Fractions /\ Calculator!Fails \in BOOLEAN
  BY <1>1, ResultHeld
<1>5. CalcTypes'
  <2>1. leftOperand' \in Fractions
    BY <1>2 DEF CalcInv, CalcTypes, Registers
  <2>2. Registers'
    BY <1>2, <1>4, <2>1 DEF Registers
  <2>3. display'.left \in Texts /\ display'.right \in Texts
    BY <1>2, <1>4, <2>1, Updated
  <2>4. TextsHeld'
    BY <1>2, <2>3 DEF CalcInv, CalcTypes, TextsHeld
  <2> QED BY <2>2, <2>4, EqualsTerms DEF CalcTypes
<1>6. SUFFICES ASSUME ~odd PROVE NothingTyped' /\ NumberTyped' /\ OperatorTyped' /\ ResultShown'
  BY <1>3, <1>5 DEF CalcInv, Calculating
<1>7. terms # <<>> /\ pend # "="
  BY <1>1, <1>6 DEF CalcInv, Calculating, NothingTyped, ResultShown
<1>8. /\ pend' = "=" /\ terms' # <<>>
      /\ NoZero(terms') <=> ~Calculator!Fails
      /\ Calculator!ValueOf(terms') = Calculator!Apply(operation, accumulator, current)
  <2>1. CASE pend = ""
    <3>1. PICK front \in Seq(SignedTerms) : After(front)
      BY <1>6, <1>7, <2>1 DEF CalcInv, Calculating, NumberTyped
    <3>2. front # <<>>
      BY <1>1, <3>1 DEF After
    <3>3. pend \notin Ops
      BY <2>1, KeysAssumption
    <3>4. terms' = terms
      BY <1>3, <3>3
    <3>5. /\ Calculator!ValueOf(terms) = Calculator!Apply(operation, accumulator, current)
          /\ NoZero(terms) <=> ~Calculator!Fails
          /\ Len(terms) > 1
      BY <3>1, <3>2, AfterValue DEF CalcInv
    <3> QED BY <1>3, <1>7, <3>4, <3>5
  <2>2. CASE pend \in Ops
    <3>1. operation = pend /\ accumulator = current /\ current = Calculator!ValueOf(terms) /\ NoZero(terms)
      BY <1>6, <2>2 DEF CalcInv, Calculating, OperatorTyped
    <3>2. current \in Fractions /\ terms \in Seq(SignedTerms)
      BY DEF CalcInv, CalcTypes, Registers, KeysHeld
    <3>3. PICK u : u = Calculator!Term(pend, current) /\ u \in SignedTerms /\ u.op = pend /\ u.num = current
      BY <2>2, <3>2, TermHeld
    <3>4. terms' = Append(terms, u)
      BY <1>3, <1>6, <2>2, <3>1, <3>3
    <3>5. Calculator!ValueOf(Append(terms, u)) = Calculator!Apply(u.op, Calculator!ValueOf(terms), u.num)
      BY <3>2, <3>3, ValueOfAppended
    <3>6. NoZero(Append(terms, u)) <=> NoZero(terms) /\ ~(u.op = "/" /\ u.num.n = 0)
      BY <3>2, <3>3, NoZeroAppended
    <3>7. NoZero(terms') <=> ~Calculator!Fails
      BY <3>1, <3>3, <3>4, <3>6 DEF Calculator!Fails
    <3>8. terms' # <<>>
      BY <3>2, <3>3, <3>4, TermLists
    <3>9. Calculator!ValueOf(terms') = Calculator!Apply(operation, accumulator, current)
      BY <3>1, <3>3, <3>4, <3>5
    <3> QED BY <1>3, <2>2, <3>7, <3>8, <3>9
  <2> QED BY <1>7, <2>1, <2>2 DEF CalcInv, CalcTypes, KeysHeld
<1>9. error' = ~NoZero(terms')
  <2>1. NoZero(terms') \in BOOLEAN
    BY DEF NoZero
  <2> QED BY <1>2, <1>4, <1>8, <2>1
<1>10. ~error' => current' = Calculator!ValueOf(terms')
  BY <1>2, <1>8 DEF Calculator!Result
<1>11. ResultShown'
  BY <1>2, <1>8, <1>9, <1>10 DEF ResultShown
<1>12. "=" \notin Ops
  BY KeysAssumption
<1> QED BY <1>8, <1>11, <1>12 DEF NothingTyped, NumberTyped, OperatorTyped

\* The calculator at the beginning, and whichever key is pressed.
LEMMA CalcBegins == PartsInit => CalcInv
<1> SUFFICES ASSUME PartsInit PROVE CalcInv
  OBVIOUS
<1>1. /\ current = Calculator!Zero /\ accumulator = Calculator!Zero /\ operation = "" /\ leftOperand = Calculator!Zero
      /\ leftDecimals = 0 /\ newEntry = TRUE /\ hasDecimal = FALSE /\ decimals = 0 /\ error = FALSE
      /\ display = Calculator!Plain /\ clipboard = <<>>
      /\ terms = <<>> /\ pend = "" /\ entry = [digits |-> 0, frac |-> 0] /\ odd = FALSE
  BY DEF PartsInit, Calculator!Init
<1>2. Registers
  BY <1>1, ZeroHeld DEF Registers
<1>3. TextsHeld
  <2>1. <<>> \in Seq(Texts)
    OBVIOUS
  <2>2. display.left \in Texts /\ display.right \in Texts
    BY <1>1, ZeroHeld DEF Calculator!Plain
  <2> QED BY <1>1, <2>1, <2>2 DEF TextsHeld
<1>4. KeysHeld
  <2>1. entry \in [digits : Nat, frac : Nat]
    BY <1>1
  <2> QED BY <1>1, <2>1, TermLists DEF KeysHeld
<1>5. "" \notin Ops
  BY KeysAssumption
<1> QED BY <1>1, <1>2, <1>3, <1>4, <1>5 DEF CalcInv, CalcTypes, Calculating, NothingTyped, NumberTyped, OperatorTyped, ResultShown

LEMMA CalcNext ==
  ASSUME CalcInv, Calculator!Next
  PROVE  CalcInv'
<1>1. ASSUME NEW d \in Digits, Calculator!Digit(d) PROVE CalcInv'
  BY <1>1, DigitStep
<1>2. ASSUME NEW o \in Ops, Calculator!SetOperation(o) PROVE CalcInv'
  BY <1>2, OperationStep
<1>3. CASE Calculator!Decimal
  BY <1>3, DecimalStep
<1>4. CASE Calculator!Clear
  BY <1>4, ClearStep
<1>5. CASE Calculator!ClearEntry
  BY <1>5, ClearEntryStep
<1>6. CASE Calculator!Equals
  BY <1>6, EqualsStep
<1>7. CASE Calculator!Copy
  BY <1>7, CopyStep
<1>8. CASE Calculator!Paste
  BY <1>8, PasteStep
<1>9. CASE Calculator!SetScientific
  BY <1>9, ScientificStep
<1> QED BY <1>1, <1>2, <1>3, <1>4, <1>5, <1>6, <1>7, <1>8, <1>9 DEF Calculator!Next

LEMMA CalcKeys == [PartsNext]_partVars => Calculator!Next \/ UNCHANGED calcVars
BY DEF PartsNext, partVars, NetTurn, CalcTurn, PuzzleTurn, PongTurn, AtaTurn, CardTurn, PageTurn, BodyTurn, Rendering, Browsing,
       Calculator!Next

(* The calculator holds what the keys typed give when they are taken from   *)
(* the left, and reports an error exactly if that divides by zero, however  *)
(* many keys there were and whichever were pressed in between.              *)
THEOREM CalculatesLeftToRight == PartsSpec => []LeftToRight
<1>1. CalcInv /\ UNCHANGED calcVars => CalcInv'
  <2> SUFFICES ASSUME CalcInv, UNCHANGED calcVars PROVE CalcInv'
    OBVIOUS
  <2>1. UNCHANGED <<current, accumulator, operation, leftOperand, leftDecimals, newEntry, hasDecimal, decimals, error,
                    display, clipboard, terms, pend, entry, odd>>
    BY DEF calcVars
  <2>2. CalcTypes'
    BY <2>1 DEF CalcInv, CalcTypes, Registers, TextsHeld, KeysHeld
  <2> QED BY <2>1, <2>2 DEF CalcInv, Calculating, NothingTyped, NumberTyped, OperatorTyped, ResultShown, After
<1>2. CalcInv /\ [PartsNext]_partVars => CalcInv'
  BY <1>1, CalcKeys, CalcNext
<1>3. CalcInv => LeftToRight
  <2> SUFFICES ASSUME CalcInv, newEntry, ~odd
               PROVE  error = ~Calculator!Defined /\ (~error => current = Calculator!Value)
    BY DEF LeftToRight, Calculator!LeftToRight
  <2>1. Calculator!Defined <=> NoZero(terms)
    BY DEF Calculator!Defined, NoZero
  <2>2. error = ~NoZero(terms) /\ (~error => current = Calculator!ValueOf(terms))
    <3>1. CASE terms = <<>>
      <4>1. ~error /\ current = Calculator!Zero
        BY <3>1 DEF CalcInv, Calculating, NothingTyped
      <4>2. NoZero(terms)
        BY <3>1 DEF NoZero
      <4>3. Calculator!ValueOf(terms) = Calculator!Zero
        BY <3>1, ValueOfNone
      <4>4. error = FALSE
        BY <4>1 DEF CalcInv, CalcTypes, Registers
      <4> QED BY <4>1, <4>2, <4>3, <4>4
    <3>2. CASE pend \in Ops
      <4>1. ~error /\ current = Calculator!ValueOf(terms) /\ NoZero(terms)
        BY <3>2 DEF CalcInv, Calculating, OperatorTyped
      <4>2. error = FALSE
        BY <4>1 DEF CalcInv, CalcTypes, Registers
      <4> QED BY <4>1, <4>2
    <3>3. CASE pend = "="
      BY <3>3 DEF CalcInv, Calculating, ResultShown
    <3>4. ~(pend = "" /\ terms # <<>>)
      BY DEF CalcInv, Calculating, NumberTyped
    <3> QED BY <3>1, <3>2, <3>3, <3>4 DEF CalcInv, CalcTypes, KeysHeld
  <2>3. error = ~Calculator!Defined
    BY <2>1, <2>2 DEF Calculator!Defined, NoZero
  <2> QED BY <2>2, <2>3 DEF Calculator!Value
<1> QED BY <1>2, <1>3, CalcBegins, PTL DEF PartsSpec
=============================================================================
