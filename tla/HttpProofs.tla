----------------------------- MODULE HttpProofs -----------------------------
(***************************************************************************)
(* Proofs about Http: whatever the network does to the segments, what      *)
(* net_http_get hands over is the beginning of the page it asked for.      *)
(*                                                                         *)
(* HttpInv is the inductive invariant.  Its core is Owned: the connection  *)
(* is that of one server's call, tcp_asm holds the beginning of its page   *)
(* and tcp_rcv_nxt is the place in its sequence space where that page goes *)
(* on.  A segment that net_handle_tcp takes for the next one can then only *)
(* be that server's, since the sequence numbers of two connections of a    *)
(* port do not meet (Clash), and what it appends makes a longer prefix.    *)
(***************************************************************************)
EXTENDS Http, TLAPS, SequenceTheorems

\* The place of token k of the page of a server that began at iss.
At(iss, k) == (iss + k) % Mod

(* What the segments and the servers tell of the calls made so far.        *)
Bookkeeping ==
  /\ pc # "off" => call \in Calls /\ port[call] \in Ports
  /\ call = 0 => tcp_state = "IDLE"
  /\ \A u \in up : u.call <= call /\ port[u.call] \in Ports
  /\ \A n \in Calls : srv[n].st # "none" =>
       n <= call /\ port[n] \in Ports /\ srv[n].iss \in ServerISS /\ srv[n].page \in Pages
  /\ \A n \in Calls : srv[n].st # "served" => srv[n].una = 0

(* Two connections of a port began at different numbers.                   *)
IssApart == \A m, n \in Calls :
  m # n /\ srv[m].st # "none" /\ srv[n].st # "none" /\ port[m] = port[n] => srv[m].iss # srv[n].iss

Full == Len(tcp_asm) = AsmMax - 1

(* The connection the client is in is that of call n: tcp_asm holds the    *)
(* beginning of its page and tcp_rcv_nxt says where it goes on.            *)
Owns(n) ==
  /\ srv[n].st # "none" /\ port[n] = port[call]
  /\ IsPrefixOf(tcp_asm, srv[n].page)
  /\ tcp_state = "ESTAB" =>
       \E k \in 0 .. Len(srv[n].page) :
         /\ tcp_rcv_nxt = At(srv[n].iss, 1 + k)
         /\ k = Len(tcp_asm) \/ (Full /\ Len(tcp_asm) <= k)
  /\ tcp_state = "FIN" => tcp_asm = srv[n].page \/ Full

Owned ==
  /\ tcp_state = "SYN_SENT" => tcp_asm = <<>>
  /\ tcp_asm # <<>> \/ tcp_state \in {"ESTAB", "FIN"} => call > 0 /\ \E n \in Calls : Owns(n)

(* The client has the first k tokens (or k is the FIN after them), or its  *)
(* buffer is full.                                                         *)
Covered(k) ==
  k <= Len(tcp_asm) \/ Full \/ (k = Len(tcp_asm) + 1 /\ tcp_asm = srv[call].page)

AcksSound == \A u \in up : u.call = call /\ u.kind = "ACK" /\ FreshPort =>
  /\ srv[call].st # "none"
  /\ \E k \in 0 .. Len(srv[call].page) + 1 : u.ack = At(srv[call].iss, 1 + k) /\ Covered(k)

Kept(a) ==
  LET off  == BodyOffset(a)
      body == SubSeq(a, off + 1, Len(a))
  IN  SubSeq(body, 1, IF Len(body) > OutCap - 1 THEN OutCap - 1 ELSE Len(body))

Delivered == pc = "off" /\ call > 0 /\ result.code >= 0 =>
  tcp_asm # <<>> /\ BodyOffset(tcp_asm) >= 0 /\ result = [code |-> Len(Kept(tcp_asm)), body |-> Kept(tcp_asm)]

HttpInv == TypeOK /\ Bookkeeping /\ IssApart /\ Owned /\ AcksSound /\ AckedIsKept /\ Delivered

----------------------------------------------------------------------------
LEMMA ModOnce ==
  ASSUME NEW x \in Int, -Mod <= x, x < 2 * Mod
  PROVE  x % Mod = IF x < 0 THEN x + Mod ELSE IF x < Mod THEN x ELSE x - Mod
<1>1. Mod \in Nat \ {0}
  BY HttpAssumption
<1>2. CASE x \in 0 .. Mod - 1
  <2>1. x % Mod = x
    BY <1>1, <1>2
  <2> QED BY <1>1, <1>2, <2>1
<1>3. CASE x \in Mod .. 2 * Mod - 1
  <2>1. x % Mod = x - Mod
    BY <1>1, <1>3
  <2> QED BY <1>1, <1>3, <2>1
<1>4. CASE x \in -Mod .. -1
  <2>1. x % Mod = x + Mod
    BY <1>1, <1>4
  <2> QED BY <1>1, <1>4, <2>1
<1> QED BY <1>1, <1>2, <1>3, <1>4

LEMMA AtValue ==
  ASSUME NEW iss \in 0 .. Mod - 1, NEW k \in 0 .. Mod - 1
  PROVE  /\ At(iss, k) \in 0 .. Mod - 1
         /\ At(iss, k) = IF iss + k < Mod THEN iss + k ELSE iss + k - Mod
<1>1. Mod \in Nat \ {0} /\ iss \in Int /\ k \in Int
  BY HttpAssumption
<1> DEFINE x == iss + k
<1>2. x \in Int /\ 0 <= x /\ -Mod <= x /\ x < 2 * Mod
  BY <1>1
<1>3. x % Mod = IF x < Mod THEN x ELSE x - Mod
  <2> HIDE DEF x
  <2> QED BY <1>1, <1>2, ModOnce
<1> QED BY <1>1, <1>3 DEF At

LEMMA AtInjective ==
  ASSUME NEW iss \in 0 .. Mod - 1, NEW j \in 0 .. Mod - 1, NEW k \in 0 .. Mod - 1,
         At(iss, j) = At(iss, k)
  PROVE  j = k
<1>1. Mod \in Nat \ {0} /\ iss \in Int /\ j \in 0 .. Mod - 1 /\ k \in 0 .. Mod - 1
  BY HttpAssumption
<1>2. /\ At(iss, j) = IF iss + j < Mod THEN iss + j ELSE iss + j - Mod
      /\ At(iss, k) = IF iss + k < Mod THEN iss + k ELSE iss + k - Mod
  BY AtValue
<1>3. (IF iss + j < Mod THEN iss + j ELSE iss + j - Mod)
        = (IF iss + k < Mod THEN iss + k ELSE iss + k - Mod)
  BY <1>2
<1> QED BY <1>1, <1>3

LEMMA AtStep ==
  ASSUME NEW iss \in 0 .. Mod - 1, NEW k \in 0 .. Mod - 1, NEW d \in Nat, k + d < Mod
  PROVE  (At(iss, k) + d) % Mod = At(iss, k + d)
<1>1. Mod \in Nat \ {0} /\ k + d \in 0 .. Mod - 1
  BY HttpAssumption
<1>2. At(iss, k) = IF iss + k < Mod THEN iss + k ELSE iss + k - Mod
  BY AtValue
<1>3. At(iss, k + d) = IF iss + (k + d) < Mod THEN iss + (k + d) ELSE iss + (k + d) - Mod
  BY <1>1, AtValue
<1> DEFINE x == At(iss, k) + d
<1>4. x \in Int /\ 0 <= x /\ -Mod <= x /\ x < 2 * Mod
  BY <1>1, <1>2
<1>5. x % Mod = IF x < Mod THEN x ELSE x - Mod
  <2> HIDE DEF x
  <2> QED BY <1>1, <1>4, ModOnce
<1>6. At(iss, k + d) = IF x < Mod THEN x ELSE x - Mod
  BY <1>1, <1>2, <1>3
<1> QED BY <1>5, <1>6

LEMMA DistValue ==
  ASSUME NEW a \in 0 .. Mod - 1, NEW b \in 0 .. Mod - 1
  PROVE  Dist(a, b) = IF a >= b THEN a - b ELSE a - b + Mod
<1>1. Mod \in Nat \ {0}
  BY HttpAssumption
<1> DEFINE x == a - b
<1>2. x \in Int /\ -Mod <= x /\ x < 2 * Mod /\ x < Mod
  BY <1>1
<1>3. x % Mod = IF x >= 0 THEN x ELSE x + Mod
  <2> HIDE DEF x
  <2> QED BY <1>1, <1>2, ModOnce
<1> QED BY <1>1, <1>3 DEF Dist

(* What TakeAck computes of an acknowledgement.                            *)
LEMMA DistOfAt ==
  ASSUME NEW iss \in 0 .. Mod - 1, NEW k \in Nat, k + 1 < Mod
  PROVE  Dist(At(iss, 1 + k), iss + 1) = k
<1>1. Mod \in Nat \ {0}
  BY HttpAssumption
<1>2. 1 + k \in 0 .. Mod - 1
  BY <1>1
<1>3. CASE iss + (1 + k) < Mod
  <2>1. At(iss, 1 + k) - (iss + 1) = k
    BY <1>1, <1>2, <1>3, AtValue
  <2>2. k \in 0 .. Mod - 1
    BY <1>1
  <2>3. k % Mod = k
    BY <1>1, <2>2
  <2> QED BY <2>1, <2>3 DEF Dist
<1>4. CASE iss + (1 + k) >= Mod
  <2>1. At(iss, 1 + k) - (iss + 1) = k - Mod
    BY <1>1, <1>2, <1>4, AtValue
  <2>2. k - Mod \in -Mod .. -1
    BY <1>1
  <2>3. (k - Mod) % Mod = k
    BY <1>1, <2>2
  <2> QED BY <2>1, <2>3 DEF Dist
<1> QED BY <1>1, <1>3, <1>4

(* The pages, one by one.                                                  *)
LEMMA PageFacts ==
  ASSUME NEW p \in Pages
  PROVE  /\ p \in Seq(Tokens) /\ Len(p) \in Nat /\ Len(p) + 2 < Mod
         /\ HeaderLen(p) \in 1 .. Len(p) /\ p[HeaderLen(p)] = CRLF2
         /\ \A i \in 1 .. HeaderLen(p) - 1 : p[i] \notin {CRLF2, LF2}
<1>1. PICK h \in EmptyLines(p) : p[h] = CRLF2 /\ \A j \in EmptyLines(p) : h <= j
  BY HttpAssumption
<1>2. p \in Seq(Tokens) /\ Len(p) \in Nat /\ Len(p) + 2 < Mod
  BY HttpAssumption DEF Tokens
<1>3. DOMAIN p = 1 .. Len(p)
  BY <1>2
<1>4. HeaderLen(p) \in EmptyLines(p) /\ \A j \in EmptyLines(p) : HeaderLen(p) <= j
  BY <1>1 DEF HeaderLen
<1>5. HeaderLen(p) = h
  BY <1>1, <1>3, <1>4 DEF EmptyLines
<1> QED BY <1>1, <1>2, <1>3, <1>5 DEF EmptyLines

LEMMA Clash ==
  ASSUME NEW a \in ServerISS, NEW b \in ServerISS, a # b, NEW p \in Pages, NEW q \in Pages,
         NEW i \in 0 .. Len(p) + 2, NEW j \in 0 .. Len(q) + 2
  PROVE  At(a, i) # At(b, j)
<1>1. Mod \in Nat \ {0} /\ a \in 0 .. Mod - 1 /\ b \in 0 .. Mod - 1
  BY HttpAssumption
<1>2. i \in 0 .. Mod - 1 /\ j \in 0 .. Mod - 1 /\ i <= Len(p) + 2 /\ j <= Len(q) + 2
  BY <1>1, PageFacts
<1>3. Dist(a, b) > Len(q) + 2 /\ Dist(b, a) > Len(p) + 2
  BY HttpAssumption
<1>4. Len(p) \in Nat /\ Len(q) \in Nat
  BY PageFacts
<1>5. /\ At(a, i) = IF a + i < Mod THEN a + i ELSE a + i - Mod
      /\ At(b, j) = IF b + j < Mod THEN b + j ELSE b + j - Mod
  BY <1>1, <1>2, AtValue
<1>6. /\ Dist(a, b) = IF a >= b THEN a - b ELSE a - b + Mod
      /\ Dist(b, a) = IF b >= a THEN b - a ELSE b - a + Mod
  BY <1>1, DistValue
<1> QED BY <1>1, <1>2, <1>3, <1>4, <1>5, <1>6

(* Slices of sequences, as the servers cut them and tcp_asm is filled.     *)
LEMMA SliceFacts ==
  ASSUME NEW S, NEW p \in Seq(S), NEW i \in 1 .. Len(p) + 1, NEW j \in i - 1 .. Len(p)
  PROVE  /\ SubSeq(p, i, j) \in Seq(S) /\ Len(SubSeq(p, i, j)) = j - i + 1
         /\ \A x \in 1 .. j - i + 1 : SubSeq(p, i, j)[x] = p[i + x - 1]
<1>1. Len(p) \in Nat /\ i \in Int /\ j \in Int
  BY LenProperties
<1>2. \A x \in i .. j : p[x] \in S
  BY <1>1, ElementOfSeq
<1>3. /\ SubSeq(p, i, j) \in Seq(S)
      /\ Len(SubSeq(p, i, j)) = IF i <= j THEN j - i + 1 ELSE 0
      /\ \A x \in 1 .. j - i + 1 : SubSeq(p, i, j)[x] = p[i + x - 1]
  BY <1>1, <1>2, SubSeqProperties
<1> QED BY <1>1, <1>3

LEMMA PrefixOfSlice ==
  ASSUME NEW S, NEW p \in Seq(S), NEW i \in 1 .. Len(p) + 1, NEW j \in i - 1 .. Len(p),
         NEW n \in 0 .. j - i + 1
  PROVE  SubSeq(SubSeq(p, i, j), 1, n) = SubSeq(p, i, i + n - 1)
<1> DEFINE t == SubSeq(p, i, j)
<1>1. Len(p) \in Nat /\ i \in Int /\ j \in Int /\ n \in Nat
  BY LenProperties
<1>2. t \in Seq(S) /\ Len(t) = j - i + 1 /\ \A x \in 1 .. j - i + 1 : t[x] = p[i + x - 1]
  BY SliceFacts
<1>3. i + n - 1 \in i - 1 .. Len(p)
  BY <1>1
<1>4. /\ SubSeq(p, i, i + n - 1) \in Seq(S) /\ Len(SubSeq(p, i, i + n - 1)) = n
      /\ \A x \in 1 .. n : SubSeq(p, i, i + n - 1)[x] = p[i + x - 1]
  <2> DEFINE m == i + n - 1
  <2>1. /\ SubSeq(p, i, m) \in Seq(S) /\ Len(SubSeq(p, i, m)) = m - i + 1
        /\ \A x \in 1 .. m - i + 1 : SubSeq(p, i, m)[x] = p[i + x - 1]
    BY <1>3, SliceFacts
  <2>2. m - i + 1 = n
    BY <1>1
  <2> QED BY <2>1, <2>2
<1>5. /\ SubSeq(t, 1, n) \in Seq(S) /\ Len(SubSeq(t, 1, n)) = n
      /\ \A x \in 1 .. n : SubSeq(t, 1, n)[x] = t[x]
  <2> HIDE DEF t
  <2>1. 1 \in 1 .. Len(t) + 1 /\ n \in 1 - 1 .. Len(t)
    BY <1>1, <1>2
  <2>2. /\ SubSeq(t, 1, n) \in Seq(S) /\ Len(SubSeq(t, 1, n)) = n - 1 + 1
        /\ \A x \in 1 .. n - 1 + 1 : SubSeq(t, 1, n)[x] = t[1 + x - 1]
    BY <1>2, <2>1, SliceFacts
  <2> QED BY <1>1, <2>2
<1>6. \A x \in 1 .. n : SubSeq(t, 1, n)[x] = SubSeq(p, i, i + n - 1)[x]
  BY <1>1, <1>2, <1>4, <1>5
<1> HIDE DEF t
<1>7. SubSeq(t, 1, n) = SubSeq(p, i, i + n - 1)
  BY <1>4, <1>5, <1>6, SeqEqual
<1> QED BY <1>7 DEF t

(* Appending what follows to a prefix makes a longer prefix.               *)
LEMMA Append2Prefix ==
  ASSUME NEW S, NEW p \in Seq(S), NEW l \in 0 .. Len(p), NEW j \in l .. Len(p), NEW n \in 0 .. j - l
  PROVE  SubSeq(p, 1, l) \o SubSeq(SubSeq(p, l + 1, j), 1, n) = SubSeq(p, 1, l + n)
<1>1. Len(p) \in Nat
  BY LenProperties
<1>2. l + 1 \in 1 .. Len(p) + 1 /\ j \in (l + 1) - 1 .. Len(p) /\ n \in 0 .. j - (l + 1) + 1
  BY <1>1
<1>3. SubSeq(SubSeq(p, l + 1, j), 1, n) = SubSeq(p, l + 1, (l + 1) + n - 1)
  BY <1>2, PrefixOfSlice
<1>4. (l + 1) + n - 1 = l + n
  BY <1>1
<1>5. 1 \in 1 .. Len(p) + 1 /\ l \in 1 - 1 .. Len(p) /\ l + n \in l .. Len(p)
  BY <1>1
<1>6. SubSeq(p, 1, l) \o SubSeq(p, l + 1, l + n) = SubSeq(p, 1, l + n)
  BY <1>5, ConcatAdjacentSubSeq
<1> QED BY <1>3, <1>4, <1>6

LEMMA Least ==
  ASSUME NEW C \in SUBSET Int, NEW h \in C, \A j \in C : h <= j
  PROVE  (CHOOSE i \in C : \A j \in C : i <= j) = h
<1> DEFINE c == CHOOSE i \in C : \A j \in C : i <= j
<1>1. c \in C /\ \A j \in C : c <= j
  OBVIOUS
<1> HIDE DEF c
<1>2. c \in Int /\ h \in Int /\ c <= h /\ h <= c
  BY <1>1
<1>3. c = h
  BY <1>2
<1> QED BY <1>3 DEF c

(* A prefix of a page: where its header ends.                              *)
LEMMA OffsetOfPrefix ==
  ASSUME NEW p \in Pages, NEW a, IsPrefixOf(a, p), Len(a) \in Nat
  PROVE  BodyOffset(a) = IF HeaderLen(p) <= Len(a) THEN HeaderLen(p) ELSE -1
<1> DEFINE h == HeaderLen(p)
           C == {i \in DOMAIN a : a[i] = CRLF2}
           L == {i \in DOMAIN a : a[i] = LF2}
<1>1. /\ p \in Seq(Tokens) /\ Len(p) \in Nat
      /\ h \in 1 .. Len(p) /\ p[h] = CRLF2 /\ \A i \in 1 .. h - 1 : p[i] \notin {CRLF2, LF2}
  BY PageFacts
<1>2. Len(a) \in 0 .. Len(p) /\ a = SubSeq(p, 1, Len(a))
  BY <1>1 DEF IsPrefixOf
<1>3. 1 \in 1 .. Len(p) + 1 /\ Len(a) \in 1 - 1 .. Len(p)
  BY <1>1, <1>2
<1>4. a \in Seq(Tokens) /\ \A x \in 1 .. Len(a) : a[x] = p[x]
  <2>1. /\ SubSeq(p, 1, Len(a)) \in Seq(Tokens)
        /\ \A x \in 1 .. Len(a) - 1 + 1 : SubSeq(p, 1, Len(a))[x] = p[1 + x - 1]
    BY <1>1, <1>3, SliceFacts
  <2>2. a \in Seq(Tokens) /\ \A x \in 1 .. Len(a) - 1 + 1 : a[x] = p[1 + x - 1]
    BY <2>1, <1>2
  <2> QED BY <1>1, <1>2, <2>2
<1>5. DOMAIN a = 1 .. Len(a)
  BY <1>4, LenProperties
<1>6. BodyOffset(a) = IF C # {} THEN CHOOSE i \in C : \A j \in C : i <= j
                      ELSE IF L # {} THEN CHOOSE i \in L : \A j \in L : i <= j ELSE -1
  BY DEF BodyOffset
<1>7. CASE h <= Len(a)
  <2>1. h \in C /\ \A j \in C : h <= j
    BY <1>1, <1>2, <1>4, <1>5, <1>7
  <2>2. C \subseteq Int
    BY <1>5
  <2> HIDE DEF C, L, h
  <2>4. (CHOOSE i \in C : \A j \in C : i <= j) = h
    BY <2>1, <2>2, Least
  <2>5. BodyOffset(a) = h
    BY <2>1, <2>4, <1>6
  <2> QED BY <1>7, <2>5 DEF h
<1>8. CASE ~(h <= Len(a))
  <2>1. C = {} /\ L = {}
    BY <1>1, <1>2, <1>4, <1>5, <1>8
  <2> QED BY <2>1, <1>6, <1>8
<1> QED BY <1>7, <1>8

----------------------------------------------------------------------------
(* What may arrive: a reset, the answer to a SYN, or a slice of the page,  *)
(* from a server that was called from the same port.                       *)
IsSynAck(s, n) == s.kind = "SYNACK" /\ s.seq = At(srv[n].iss, 0) /\ s.data = <<>> /\ s.fin = FALSE

IsSlice(s, n, i, j) ==
  /\ s.seq = At(srv[n].iss, i) /\ s.data = SubSeq(srv[n].page, i, j)
  /\ s.fin \in BOOLEAN /\ (s.fin => j = Len(srv[n].page))

LEMMA ServerFacts ==
  ASSUME TypeOK, Bookkeeping, NEW n \in Calls, srv[n].st # "none"
  PROVE  /\ n <= call /\ port[n] \in Ports /\ srv[n].page \in Pages /\ srv[n].iss \in ServerISS
         /\ srv[n].iss \in 0 .. Mod - 1 /\ Mod \in Nat \ {0}
         /\ srv[n].page \in Seq(Tokens) /\ Len(srv[n].page) \in Nat /\ Len(srv[n].page) + 2 < Mod
<1>1. n <= call /\ port[n] \in Ports /\ srv[n].page \in Pages /\ srv[n].iss \in ServerISS
  BY DEF Bookkeeping
<1> QED BY <1>1, PageFacts, HttpAssumption

LEMMA ArrivingFacts ==
  ASSUME TypeOK, Bookkeeping, NEW s \in Arriving
  PROVE  /\ pc # "off" /\ call \in Calls /\ port[call] \in Ports
         /\ \/ s.kind = "RST"
            \/ \E n \in Calls :
                 /\ srv[n].st # "none" /\ port[n] = port[call]
                 /\ \/ IsSynAck(s, n)
                    \/ /\ s.kind = "DATA"
                       /\ \E i \in 1 .. Len(srv[n].page) + 1 :
                            \E j \in i - 1 .. Len(srv[n].page) : IsSlice(s, n, i, j)
<1>1. pc # "off"
  BY DEF Arriving
<1>2. call \in Calls /\ port[call] \in Ports
  BY <1>1 DEF Bookkeeping
<1>3. PICK n \in Calls : s \in Sent(n) /\ s.port = port[call]
  BY <1>1 DEF Arriving
<1>4. CASE srv[n].st # "none" /\ s = Segment(n, "SYNACK", 0, -1, FALSE)
  <2>1. s.kind = "SYNACK" /\ s.port = port[n] /\ s.seq = (srv[n].iss + 0) % Mod
        /\ s.data = SubSeq(srv[n].page, 0, -1) /\ s.fin = FALSE
    BY <1>4 DEF Segment
  <2>2. SubSeq(srv[n].page, 0, -1) = <<>>
    BY SubSeqEmpty
  <2>3. IsSynAck(s, n) /\ port[n] = port[call]
    BY <1>3, <2>1, <2>2 DEF IsSynAck, At
  <2> QED BY <1>1, <1>2, <1>4, <2>3
<1>5. CASE s = Segment(n, "RST", 0, -1, FALSE)
  BY <1>1, <1>2, <1>5 DEF Segment
<1>6. CASE srv[n].st = "served" /\ \E t \in Slices(srv[n].page) : s = Segment(n, "DATA", t[1], t[2], t[3])
  <2>1. PICK t \in Slices(srv[n].page) : s = Segment(n, "DATA", t[1], t[2], t[3])
    BY <1>6
  <2>2. /\ t[1] \in 1 .. Len(srv[n].page) + 1 /\ t[2] \in 0 .. Len(srv[n].page) /\ t[3] \in BOOLEAN
        /\ t[1] <= t[2] + 1 /\ (t[3] => t[2] = Len(srv[n].page))
    BY <2>1 DEF Slices
  <2>3. s.kind = "DATA" /\ s.port = port[n] /\ s.seq = At(srv[n].iss, t[1])
        /\ s.data = SubSeq(srv[n].page, t[1], t[2]) /\ s.fin = t[3]
    BY <2>1 DEF Segment, At
  <2>4. Len(srv[n].page) \in Nat
    BY <1>6, ServerFacts
  <2>5. t[2] \in t[1] - 1 .. Len(srv[n].page)
    BY <2>2, <2>4
  <2>6. IsSlice(s, n, t[1], t[2])
    BY <2>2, <2>3 DEF IsSlice
  <2>7. srv[n].st # "none" /\ port[n] = port[call]
    BY <1>3, <1>6, <2>3
  <2> QED BY <1>1, <1>2, <2>2, <2>3, <2>5, <2>6, <2>7
<1> QED BY <1>3, <1>4, <1>5, <1>6 DEF Sent

(* What is in order comes from the server the client is connected to, and  *)
(* how far it takes the client.                                            *)
LEMMA InOrderFacts ==
  ASSUME TypeOK, Bookkeeping, IssApart, Owned, NEW s \in Arriving, InOrder(s)
  PROVE  \E n \in Calls : \E k \in 0 .. Len(srv[n].page), j \in 0 .. Len(srv[n].page) :
           /\ Owns(n) /\ k <= j
           /\ tcp_rcv_nxt = At(srv[n].iss, 1 + k)
           /\ k = Len(tcp_asm) \/ (Full /\ Len(tcp_asm) <= k)
           /\ s.data = SubSeq(srv[n].page, k + 1, j)
           /\ s.fin \in BOOLEAN /\ (s.fin => j = Len(srv[n].page))
           /\ tcp_rcv_nxt' = IF s.fin THEN At(srv[n].iss, 2 + j) ELSE At(srv[n].iss, 1 + j)
           /\ tcp_rcv_nxt' \in 0 .. Mod - 1
           /\ tcp_asm' = SubSeq(srv[n].page, 1, Len(tcp_asm'))
           /\ Len(tcp_asm') \in 0 .. Len(srv[n].page) /\ Len(tcp_asm) <= Len(tcp_asm')
           /\ Len(tcp_asm') = j \/ (Full' /\ Len(tcp_asm') <= j)
           /\ Full => tcp_asm' = tcp_asm
<1>1. s.kind # "RST" /\ tcp_state = "ESTAB" /\ s.seq = tcp_rcv_nxt /\ Take(s)
  BY DEF InOrder
<1>2. PICK n \in Calls : Owns(n)
  BY <1>1 DEF Owned
<1>3. PICK k \in 0 .. Len(srv[n].page) :
        /\ tcp_rcv_nxt = At(srv[n].iss, 1 + k)
        /\ k = Len(tcp_asm) \/ (Full /\ Len(tcp_asm) <= k)
  BY <1>1, <1>2 DEF Owns
<1>4. PICK m \in Calls :
        /\ srv[m].st # "none" /\ port[m] = port[call]
        /\ \/ IsSynAck(s, m)
           \/ \E i \in 1 .. Len(srv[m].page) + 1 :
                \E j \in i - 1 .. Len(srv[m].page) : IsSlice(s, m, i, j)
  BY <1>1, ArrivingFacts
<1> DEFINE p == srv[n].page
           iss == srv[n].iss
<1>5. srv[n].st # "none" /\ port[n] = port[call]
  BY <1>2 DEF Owns
<1>6. /\ p \in Pages /\ iss \in ServerISS /\ iss \in 0 .. Mod - 1 /\ Mod \in Nat \ {0}
      /\ p \in Seq(Tokens) /\ Len(p) \in Nat /\ Len(p) + 2 < Mod
  BY <1>5, ServerFacts
<1>7. m = n
  <2>1. SUFFICES ASSUME m # n PROVE FALSE
    OBVIOUS
  <2>2. srv[m].iss # iss
    BY <2>1, <1>4, <1>5 DEF IssApart
  <2>3. srv[m].page \in Pages /\ srv[m].iss \in ServerISS /\ Len(srv[m].page) \in Nat
    BY <1>4, ServerFacts
  <2>4. \E i \in 0 .. Len(srv[m].page) + 2 : s.seq = At(srv[m].iss, i)
    <3>1. CASE IsSynAck(s, m)
      BY <3>1, <2>3 DEF IsSynAck
    <3>2. ASSUME NEW i \in 1 .. Len(srv[m].page) + 1, NEW j \in i - 1 .. Len(srv[m].page), IsSlice(s, m, i, j)
          PROVE  \E i_1 \in 0 .. Len(srv[m].page) + 2 : s.seq = At(srv[m].iss, i_1)
      BY <3>2, <2>3 DEF IsSlice
    <3> QED BY <1>4, <3>1, <3>2
  <2>5. 1 + k \in 0 .. Len(p) + 2
    BY <1>6
  <2> QED BY <1>1, <1>3, <1>6, <2>2, <2>3, <2>4, <2>5, Clash
<1>8. ~IsSynAck(s, n)
  <2>1. 1 + k \in 0 .. Mod - 1 /\ 0 \in 0 .. Mod - 1 /\ 1 + k # 0
    BY <1>6
  <2> QED BY <1>1, <1>3, <1>6, <2>1, AtInjective DEF IsSynAck
<1>9. PICK i \in 1 .. Len(p) + 1 : \E j \in i - 1 .. Len(p) : IsSlice(s, n, i, j)
  BY <1>4, <1>7, <1>8
<1>10. PICK j \in i - 1 .. Len(p) : IsSlice(s, n, i, j)
  BY <1>9
<1>11. i = k + 1
  <2>1. i \in 0 .. Mod - 1 /\ 1 + k \in 0 .. Mod - 1
    BY <1>6
  <2>2. At(iss, i) = At(iss, 1 + k)
    BY <1>1, <1>3, <1>10 DEF IsSlice
  <2>3. i = 1 + k
    BY <1>6, <2>1, <2>2, AtInjective
  <2> QED BY <2>3
<1>12. j \in 0 .. Len(p) /\ k <= j /\ k \in Nat /\ j \in Nat
  BY <1>6, <1>11
<1>13. s.data = SubSeq(p, k + 1, j) /\ s.fin \in BOOLEAN /\ (s.fin => j = Len(p))
  BY <1>10, <1>11 DEF IsSlice
<1>14. Len(s.data) = j - k
  <2>1. k + 1 \in 1 .. Len(p) + 1 /\ j \in (k + 1) - 1 .. Len(p)
    BY <1>6, <1>12
  <2>2. Len(SubSeq(p, k + 1, j)) = j - (k + 1) + 1
    BY <1>6, <2>1, SliceFacts
  <2> QED BY <2>2, <1>12, <1>13
<1>15. /\ tcp_rcv_nxt' = IF s.fin THEN At(iss, 2 + j) ELSE At(iss, 1 + j)
       /\ tcp_rcv_nxt' \in 0 .. Mod - 1
  <2>1. CASE s.fin
    <3>1. tcp_rcv_nxt' = (tcp_rcv_nxt + (j - k) + 1) % Mod
      BY <1>1, <1>14, <2>1 DEF Take
    <3>2. tcp_rcv_nxt \in Int
      BY DEF TypeOK
    <3>3. tcp_rcv_nxt' = (At(iss, 1 + k) + (j - k + 1)) % Mod
      BY <3>1, <3>2, <1>3, <1>12
    <3>4. 1 + k \in 0 .. Mod - 1 /\ j - k + 1 \in Nat /\ (1 + k) + (j - k + 1) < Mod /\ (1 + k) + (j - k + 1) = 2 + j
          /\ 2 + j \in 0 .. Mod - 1
      BY <1>6, <1>12
    <3>5. tcp_rcv_nxt' = At(iss, 2 + j)
      BY SMTT(20), <3>3, <3>4, <1>6, AtStep
    <3> QED BY <2>1, <3>4, <3>5, <1>6, AtValue
  <2>2. CASE ~s.fin
    <3>1. tcp_rcv_nxt' = (tcp_rcv_nxt + (j - k) + 0) % Mod
      BY <1>1, <1>14, <2>2 DEF Take
    <3>2. tcp_rcv_nxt \in Int
      BY DEF TypeOK
    <3>3. tcp_rcv_nxt' = (At(iss, 1 + k) + (j - k)) % Mod
      BY <3>1, <3>2, <1>3, <1>12
    <3>4. 1 + k \in 0 .. Mod - 1 /\ j - k \in Nat /\ (1 + k) + (j - k) < Mod /\ (1 + k) + (j - k) = 1 + j
          /\ 1 + j \in 0 .. Mod - 1
      BY <1>6, <1>12
    <3>5. tcp_rcv_nxt' = At(iss, 1 + j)
      BY SMTT(20), <3>3, <3>4, <1>6, AtStep
    <3> QED BY <2>2, <3>4, <3>5, <1>6, AtValue
  <2> QED BY <2>1, <2>2
<1>16. /\ tcp_asm' = SubSeq(p, 1, Len(tcp_asm'))
       /\ Len(tcp_asm') \in 0 .. Len(p) /\ Len(tcp_asm) <= Len(tcp_asm')
       /\ Len(tcp_asm') = j \/ (Full' /\ Len(tcp_asm') <= j)
       /\ Full => tcp_asm' = tcp_asm
  <2> DEFINE l == Len(tcp_asm)
             r == AsmMax - l - 1
             q == IF r < j - k THEN r ELSE j - k
  <2>1. l \in Nat /\ r \in Nat /\ q \in Nat /\ q <= j - k /\ l < AsmMax /\ AsmMax \in Nat
    BY <1>12, HttpAssumption, LenProperties DEF TypeOK
  <2>2. tcp_asm = SubSeq(p, 1, l) /\ l <= Len(p)
    BY <1>2 DEF Owns, IsPrefixOf
  <2>3. tcp_asm' = tcp_asm \o SubSeq(s.data, 1, q)
    BY <1>1, <1>14 DEF Take, Room
  <2>4. CASE Full
    <3>1. q = 0 /\ SubSeq(s.data, 1, q) = <<>>
      <4>1. q = 0
        BY <2>1, <2>4, <1>12 DEF Full
      <4> QED BY <4>1, SubSeqEmpty
    <3>2. tcp_asm' = tcp_asm
      BY <2>3, <3>1, ConcatEmptySeq DEF TypeOK
    <3>3. l <= k
      BY <1>3, <2>1
    <3>4. Len(tcp_asm') = l /\ Full'
      BY <2>4, <3>2 DEF Full
    <3>5. l \in 0 .. Len(p) /\ l <= j
      BY <1>6, <1>12, <2>1, <2>2, <3>3
    <3>6. tcp_asm' = SubSeq(p, 1, Len(tcp_asm'))
      BY <2>2, <3>2, <3>4
    <3>7. Len(tcp_asm') \in 0 .. Len(p) /\ Len(tcp_asm) <= Len(tcp_asm') /\ Len(tcp_asm') <= j
      <4> HIDE DEF p
      <4> QED BY <2>1, <3>4, <3>5 DEF l
    <3> QED BY <3>2, <3>4, <3>6, <3>7
  <2>5. CASE ~Full
    <3>1. k = l
      BY <1>3, <2>5
    <3>2. l \in 0 .. Len(p) /\ j \in l .. Len(p) /\ q \in 0 .. j - l
      BY <1>6, <1>12, <2>1, <2>2, <3>1
    <3>3. tcp_asm' = SubSeq(p, 1, l + q)
      <4> HIDE DEF l, r, q, p
      <4>1. SubSeq(p, 1, l) \o SubSeq(SubSeq(p, l + 1, j), 1, q) = SubSeq(p, 1, l + q)
        BY <1>6, <3>2, Append2Prefix
      <4> QED BY <1>13, <2>2, <2>3, <3>1, <4>1
    <3>4. l + q \in 0 .. Len(p) /\ l + q \in 1 - 1 .. Len(p) /\ 1 \in 1 .. Len(p) + 1
      <4> HIDE DEF l, r, q, p
      <4> QED BY <1>6, <1>12, <2>1, <3>1, <3>2
    <3>5. Len(tcp_asm') = l + q
      <4> HIDE DEF l, r, q, p
      <4>1. Len(SubSeq(p, 1, l + q)) = (l + q) - 1 + 1
        BY <1>6, <3>4, SliceFacts
      <4> QED BY <3>3, <3>4, <4>1
    <3>6. Len(tcp_asm') = j \/ (Full' /\ Len(tcp_asm') <= j)
      BY <1>12, <2>1, <3>1, <3>5 DEF Full
    <3> QED BY <2>1, <2>5, <3>3, <3>4, <3>5, <3>6
  <2> QED BY <2>4, <2>5
<1> QED BY <1>2, <1>3, <1>12, <1>13, <1>15, <1>16

----------------------------------------------------------------------------
(* What stays as it is when the connection does.                           *)
SrvGrows == \A m \in Calls : srv[m].st # "none" =>
  srv'[m].st # "none" /\ srv'[m].iss = srv[m].iss /\ srv'[m].page = srv[m].page

LEMMA SameOwner ==
  ASSUME Owned, UNCHANGED <<call, port, conn>>, SrvGrows
  PROVE  Owned'
<1>1. ASSUME NEW n \in Calls, Owns(n) PROVE Owns(n)'
  <2>1. srv[n].st # "none" /\ srv'[n].st # "none" /\ srv'[n].iss = srv[n].iss /\ srv'[n].page = srv[n].page
    BY <1>1 DEF Owns, SrvGrows
  <2> QED BY <1>1, <2>1 DEF Owns, Full, conn
<1> QED BY <1>1 DEF Owned, conn

LEMMA SameAcks ==
  ASSUME AcksSound, UNCHANGED <<call, port, tcp_asm>>, SrvGrows, call \in Calls,
         \A u \in up' : u.kind = "ACK" => u \in up
  PROVE  AcksSound'
<1> SUFFICES ASSUME NEW u \in up', u.call = call, u.kind = "ACK", FreshPort
             PROVE  /\ srv'[call].st # "none"
                    /\ \E k \in 0 .. Len(srv'[call].page) + 1 : u.ack = At(srv'[call].iss, 1 + k) /\ Covered(k)'
  BY DEF AcksSound, FreshPort
<1>1. srv[call].st # "none"
  BY DEF AcksSound
<1>2. PICK k \in 0 .. Len(srv[call].page) + 1 : u.ack = At(srv[call].iss, 1 + k) /\ Covered(k)
  BY DEF AcksSound
<1>3. srv'[call].st # "none" /\ srv'[call].iss = srv[call].iss /\ srv'[call].page = srv[call].page
  BY <1>1 DEF SrvGrows
<1>4. Covered(k)'
  BY <1>2, <1>3 DEF Covered, Full
<1> QED BY <1>2, <1>3, <1>4

LEMMA FreshOwner ==
  ASSUME TypeOK, Bookkeeping, FreshPort, call \in Calls, NEW n \in Calls, Owns(n)
  PROVE  n = call
<1>1. n <= call /\ port[n] = port[call]
  BY DEF Owns, Bookkeeping
<1>2. ~(n < call)
  BY <1>1 DEF FreshPort
<1> QED BY <1>1, <1>2, HttpAssumption DEF Calls

LEMMA SameDelivered ==
  ASSUME Delivered, UNCHANGED <<pc, call, tcp_asm, result>>
  PROVE  Delivered'
BY DEF Delivered

(* The servers.                                                            *)
LEMMA ServerInv ==
  ASSUME HttpInv, NEW n \in Calls, Server(n)
  PROVE  HttpInv'
<1> USE DEF HttpInv
<1>1. UNCHANGED <<pc, call, port, tcp_state, tcp_rcv_nxt, tcp_asm, result, up>>
  BY DEF Server, Serve, TakeAck, Abort, Accept, client, conn
<1>2. ASSUME NEW v \in [st : {"none", "synced", "served"}, iss : {0} \cup ServerISS,
                         page : Pages \cup {<<>>}, una : Nat, reset : BOOLEAN],
             srv' = [srv EXCEPT ![n] = v],
             v.st # "served" => v.una = 0,
             srv[n].st # "none" => v.st # "none" /\ v.iss = srv[n].iss /\ v.page = srv[n].page,
             srv[n].st = "none" /\ v.st # "none" =>
               /\ n <= call /\ port[n] \in Ports /\ v.iss \in ServerISS /\ v.page \in Pages
               /\ \A m \in Calls : srv[m].st # "none" /\ port[m] = port[n] => srv[m].iss # v.iss,
             n = call /\ FreshPort /\ v.st = "served" /\ srv[n].una # v.una
               => srv[n].st # "none" /\ Covered(v.una)
      PROVE  HttpInv'
  <2>1. srv'[n] = v /\ \A m \in Calls : m # n => srv'[m] = srv[m]
    BY <1>2 DEF TypeOK
  <2>2. SrvGrows
    BY <1>2, <2>1 DEF SrvGrows
  <2>3. TypeOK'
    BY <1>1, <1>2 DEF TypeOK
  <2>4. Bookkeeping'
    BY <1>1, <1>2, <2>1 DEF Bookkeeping
  <2>5. IssApart'
    BY <1>1, <1>2, <2>1 DEF IssApart
  <2>6. Owned'
    BY <1>1, <2>2, SameOwner DEF conn
  <2>7. AcksSound'
    <3>1. CASE call \in Calls
      BY <1>1, <2>2, <3>1, SameAcks
    <3>2. CASE call \notin Calls
      BY <1>1, <3>2 DEF AcksSound, TypeOK
    <3> QED BY <3>1, <3>2
  <2>8. AckedIsKept'
    <3> SUFFICES ASSUME call \in Calls, FreshPort, srv'[call].st = "served"
                 PROVE  \/ srv'[call].una <= Len(tcp_asm)
                        \/ Len(tcp_asm) = AsmMax - 1
                        \/ srv'[call].una = Len(tcp_asm) + 1 /\ tcp_asm = srv'[call].page
      BY <1>1 DEF AckedIsKept, FreshPort
    <3>1. CASE call # n \/ (srv[n].st = "served" /\ v.una = srv[n].una)
      BY <1>2, <2>1, <3>1 DEF AckedIsKept
    <3>2. CASE call = n /\ srv[n].una # v.una
      BY <1>2, <2>1, <3>2 DEF Covered, Full, Bookkeeping
    <3>3. CASE call = n /\ srv[n].st # "served" /\ v.una = srv[n].una
      <4>1. v.una = 0
        BY <3>3 DEF Bookkeeping
      <4>2. Len(tcp_asm) \in Nat
        BY LenProperties DEF TypeOK
      <4> QED BY <2>1, <3>3, <4>1, <4>2
    <3> QED BY <3>1, <3>2, <3>3
  <2>9. Delivered'
    BY <1>1, SameDelivered
  <2> QED BY <2>3, <2>4, <2>5, <2>6, <2>7, <2>8, <2>9
<1>3. CASE Serve(n)
  <2> DEFINE v == [srv[n] EXCEPT !.st = "served"]
  <2>1. srv[n].st = "synced" /\ srv' = [srv EXCEPT ![n] = v]
    BY <1>3 DEF Serve
  <2>2. v \in [st : {"none", "synced", "served"}, iss : {0} \cup ServerISS,
               page : Pages \cup {<<>>}, una : Nat, reset : BOOLEAN]
    BY DEF TypeOK
  <2>3. v.st = "served" /\ v.iss = srv[n].iss /\ v.page = srv[n].page /\ v.una = srv[n].una
    BY DEF TypeOK
  <2> HIDE DEF v
  <2> QED BY <1>2, <2>1, <2>2, <2>3
<1>4. CASE TakeAck(n)
  <2>1. PICK u \in up : LET acked == Dist(u.ack, srv[n].iss + 1) IN
          /\ u.call = n /\ u.kind = "ACK"
          /\ srv[n].una < acked /\ acked <= Len(srv[n].page) + 1
          /\ srv' = [srv EXCEPT ![n].una = acked]
    BY <1>4 DEF TakeAck
  <2> DEFINE acked == Dist(u.ack, srv[n].iss + 1)
             v == [srv[n] EXCEPT !.una = acked]
  <2>2. srv[n].st = "served" /\ srv' = [srv EXCEPT ![n] = v]
    BY <1>4, <2>1 DEF TakeAck
  <2>3. acked \in Nat
    <3>1. u.ack \in Int /\ srv[n].iss \in Int /\ Mod \in Nat \ {0}
      <4>1. srv[n].iss \in Int /\ Mod \in Nat \ {0}
        BY <2>2, ServerFacts
      <4>2. u.ack \in 0 .. Mod - 1
        BY DEF TypeOK
      <4> QED BY <4>1, <4>2
    <3> QED BY <3>1 DEF Dist
  <2>4. v \in [st : {"none", "synced", "served"}, iss : {0} \cup ServerISS,
               page : Pages \cup {<<>>}, una : Nat, reset : BOOLEAN]
    BY <2>3 DEF TypeOK
  <2>5. v.st = "served" /\ v.iss = srv[n].iss /\ v.page = srv[n].page /\ v.una = acked
    BY <2>2 DEF TypeOK
  <2>6. n = call /\ FreshPort => Covered(acked)
    <3> SUFFICES ASSUME n = call, FreshPort PROVE Covered(acked)
      OBVIOUS
    <3>1. PICK k \in 0 .. Len(srv[call].page) + 1 : u.ack = At(srv[call].iss, 1 + k) /\ Covered(k)
      BY <2>1 DEF AcksSound
    <3>2. /\ srv[call].iss \in 0 .. Mod - 1 /\ Len(srv[call].page) \in Nat
          /\ Len(srv[call].page) + 2 < Mod /\ Mod \in Nat
      BY <2>2, ServerFacts
    <3>3. k \in Nat /\ k + 1 < Mod
      BY <3>2
    <3>4. acked = k
      BY <3>1, <3>2, <3>3, DistOfAt
    <3> QED BY <3>1, <3>4
  <2> HIDE DEF v, acked
  <2> QED BY <1>2, <2>2, <2>4, <2>5, <2>6
<1>5. CASE Abort(n)
  <2> DEFINE v == [srv[n] EXCEPT !.reset = TRUE]
  <2>1. srv' = [srv EXCEPT ![n] = v]
    BY <1>5 DEF Abort
  <2>2. v \in [st : {"none", "synced", "served"}, iss : {0} \cup ServerISS,
               page : Pages \cup {<<>>}, una : Nat, reset : BOOLEAN]
    BY DEF TypeOK
  <2>3. v.st = srv[n].st /\ v.iss = srv[n].iss /\ v.page = srv[n].page /\ v.una = srv[n].una
    BY DEF TypeOK
  <2>4. v.st # "served" => v.una = 0
    BY <2>3 DEF Bookkeeping
  <2> HIDE DEF v
  <2> QED BY <1>2, <2>1, <2>2, <2>3, <2>4
<1>6. ASSUME NEW iss \in ServerISS, NEW page \in Pages, Accept(n, iss, page) PROVE HttpInv'
  <2> DEFINE v == [srv[n] EXCEPT !.st = "synced", !.iss = iss, !.page = page]
  <2>1. /\ srv' = [srv EXCEPT ![n] = v] /\ srv[n].st = "none"
        /\ \A m \in Calls : srv[m].st # "none" /\ port[m] = port[n] => srv[m].iss # iss
    <3>1. srv' = [srv EXCEPT ![n].st = "synced", ![n].iss = iss, ![n].page = page]
      BY <1>6 DEF Accept
    <3>2. srv' = [srv EXCEPT ![n] = v]
      BY <3>1 DEF TypeOK
    <3> QED BY <1>6, <3>2 DEF Accept
  <2>2. v \in [st : {"none", "synced", "served"}, iss : {0} \cup ServerISS,
               page : Pages \cup {<<>>}, una : Nat, reset : BOOLEAN]
    BY DEF TypeOK
  <2>3. v.st = "synced" /\ v.iss = iss /\ v.page = page /\ v.una = srv[n].una
    BY DEF TypeOK
  <2>4. v.una = 0
    BY <2>1, <2>3 DEF Bookkeeping
  <2>5. n <= call /\ port[n] \in Ports
    BY <1>6 DEF Accept, Bookkeeping
  <2> HIDE DEF v
  <2> QED BY <1>2, <2>1, <2>2, <2>3, <2>4, <2>5
<1> QED BY <1>3, <1>4, <1>5, <1>6 DEF Server

(* Segments that arrive.                                                   *)
LEMMA ResetInv ==
  ASSUME HttpInv, NEW s \in Arriving, Reset(s)
  PROVE  HttpInv'
<1> USE DEF HttpInv
<1>1. pc # "off" /\ call \in Calls
  BY ArrivingFacts
<1>2. tcp_state' = "IDLE" /\ UNCHANGED <<pc, call, port, tcp_rcv_nxt, tcp_asm, result, up, srv>>
  BY DEF Reset, client
<1>3. TypeOK'
  BY <1>2 DEF TypeOK
<1>4. Bookkeeping' /\ IssApart'
  BY <1>2 DEF Bookkeeping, IssApart
<1>5. Owned'
  <2>1. ASSUME NEW n \in Calls, Owns(n) PROVE Owns(n)'
    BY <1>2, <2>1 DEF Owns, Full
  <2> QED BY <1>2, <2>1 DEF Owned
<1>6. AcksSound'
  BY <1>1, <1>2, SameAcks DEF SrvGrows
<1>7. AckedIsKept'
  BY <1>2 DEF AckedIsKept, FreshPort
<1>8. Delivered'
  BY <1>2, SameDelivered
<1> QED BY <1>3, <1>4, <1>5, <1>6, <1>7, <1>8

LEMMA SynAckInv ==
  ASSUME HttpInv, NEW s \in Arriving, SynAck(s)
  PROVE  HttpInv'
<1> USE DEF HttpInv
<1>1. pc # "off" /\ call \in Calls
  BY ArrivingFacts
<1>2. /\ tcp_state = "SYN_SENT" /\ tcp_state' = "ESTAB" /\ tcp_rcv_nxt' = (s.seq + 1) % Mod
      /\ tcp_asm' = <<>> /\ tcp_asm = <<>> /\ UNCHANGED <<pc, call, port, result, up, srv>>
  BY DEF SynAck, client, Owned
<1>3. PICK n \in Calls : srv[n].st # "none" /\ port[n] = port[call] /\ IsSynAck(s, n)
  BY ArrivingFacts DEF SynAck
<1>4. /\ srv[n].page \in Seq(Tokens) /\ Len(srv[n].page) \in Nat /\ Len(srv[n].page) + 2 < Mod
      /\ srv[n].iss \in 0 .. Mod - 1 /\ Mod \in Nat \ {0}
  BY <1>3, ServerFacts
<1>5. tcp_rcv_nxt' = At(srv[n].iss, 1) /\ tcp_rcv_nxt' \in 0 .. Mod - 1
  <2>1. 0 \in 0 .. Mod - 1 /\ 1 \in Nat /\ 1 \in 0 .. Mod - 1 /\ 0 + 1 < Mod /\ 0 + 1 = 1
    BY <1>4
  <2>2. tcp_rcv_nxt' = (At(srv[n].iss, 0) + 1) % Mod
    BY <1>2, <1>3 DEF IsSynAck
  <2>3. (At(srv[n].iss, 0) + 1) % Mod = At(srv[n].iss, 0 + 1)
    BY <1>4, <2>1, AtStep
  <2>4. At(srv[n].iss, 1) \in 0 .. Mod - 1
    BY <1>4, <2>1, AtValue
  <2>5. At(srv[n].iss, 0 + 1) = At(srv[n].iss, 1)
    BY <2>1
  <2> QED BY <2>2, <2>3, <2>4, <2>5
<1>6. TypeOK'
  BY <1>2, <1>5 DEF TypeOK
<1>7. Bookkeeping' /\ IssApart'
  BY <1>1, <1>2, HttpAssumption DEF Bookkeeping, IssApart, Calls
<1>8. Owned'
  <2>1. Len(<<>>) = 0 /\ SubSeq(srv[n].page, 1, 0) = <<>>
    BY SubSeqEmpty
  <2>2. IsPrefixOf(tcp_asm', srv'[n].page)
    BY <1>2, <1>4, <2>1 DEF IsPrefixOf
  <2>3. 0 \in 0 .. Len(srv'[n].page) /\ tcp_rcv_nxt' = At(srv'[n].iss, 1 + 0) /\ 0 = Len(tcp_asm')
    BY <1>2, <1>4, <1>5, <2>1
  <2>4. Owns(n)'
    BY <1>2, <1>3, <2>2, <2>3 DEF Owns
  <2>5. call > 0
    BY <1>1, HttpAssumption DEF Calls
  <2> QED BY <1>2, <2>4, <2>5 DEF Owned
<1>9. AcksSound'
  BY <1>1, <1>2, SameAcks DEF SrvGrows
<1>10. AckedIsKept'
  BY <1>2 DEF AckedIsKept, FreshPort
<1>11. Delivered'
  BY <1>1, <1>2 DEF Delivered
<1> QED BY <1>6, <1>7, <1>8, <1>9, <1>10, <1>11

(* Every acknowledgement of an in-order client is sound.                   *)
LEMMA AckOfNext ==
  ASSUME TypeOK, Bookkeeping, Owned, FreshPort, call \in Calls, tcp_state = "ESTAB"
  PROVE  /\ srv[call].st # "none"
         /\ \E k \in 0 .. Len(srv[call].page) + 1 :
              tcp_rcv_nxt = At(srv[call].iss, 1 + k) /\ Covered(k)
<1>1. PICK n \in Calls : Owns(n)
  BY DEF Owned
<1>2. n = call
  BY <1>1, FreshOwner
<1>3. PICK k \in 0 .. Len(srv[n].page) :
        tcp_rcv_nxt = At(srv[n].iss, 1 + k) /\ (k = Len(tcp_asm) \/ (Full /\ Len(tcp_asm) <= k))
  BY <1>1 DEF Owns
<1>4. srv[n].st # "none"
  BY <1>1 DEF Owns
<1>5. Len(srv[n].page) \in Nat
  BY <1>4, ServerFacts
<1>6. k \in 0 .. Len(srv[n].page) + 1
  BY <1>5
<1>7. Covered(k)
  BY <1>3 DEF Covered
<1> QED BY <1>2, <1>3, <1>4, <1>6, <1>7

LEMMA OutOfOrderInv ==
  ASSUME HttpInv, NEW s \in Arriving, OutOfOrder(s)
  PROVE  HttpInv'
<1> USE DEF HttpInv
<1>1. pc # "off" /\ call \in Calls /\ port[call] \in Ports
  BY ArrivingFacts
<1>2. /\ tcp_state = "ESTAB" /\ up' = up \cup {[call |-> call, kind |-> "ACK", ack |-> tcp_rcv_nxt]}
      /\ UNCHANGED <<pc, call, port, tcp_state, tcp_rcv_nxt, tcp_asm, result, srv>>
  BY DEF OutOfOrder, SendAck, client, conn
<1>3. TypeOK'
  BY <1>1, <1>2 DEF TypeOK
<1>4. Bookkeeping' /\ IssApart'
  BY <1>1, <1>2, HttpAssumption DEF Bookkeeping, IssApart, Calls
<1>5. Owned'
  BY <1>2, SameOwner DEF conn, SrvGrows
<1>6. AcksSound'
  <2> SUFFICES ASSUME NEW u \in up', u.call = call, u.kind = "ACK", FreshPort
               PROVE  /\ srv[call].st # "none"
                      /\ \E k \in 0 .. Len(srv[call].page) + 1 : u.ack = At(srv[call].iss, 1 + k) /\ Covered(k)
    BY <1>2 DEF AcksSound, FreshPort, Covered, Full
  <2>1. CASE u \in up
    BY <2>1 DEF AcksSound
  <2>2. CASE u = [call |-> call, kind |-> "ACK", ack |-> tcp_rcv_nxt]
    BY <1>1, <1>2, <2>2, AckOfNext
  <2> QED BY <1>2, <2>1, <2>2
<1>7. AckedIsKept'
  BY <1>2 DEF AckedIsKept, FreshPort
<1>8. Delivered'
  BY <1>2, SameDelivered
<1> QED BY <1>3, <1>4, <1>5, <1>6, <1>7, <1>8

LEMMA InOrderInv ==
  ASSUME HttpInv, NEW s \in Arriving, InOrder(s)
  PROVE  HttpInv'
<1> USE DEF HttpInv
<1>1. pc # "off" /\ call \in Calls /\ port[call] \in Ports
  BY ArrivingFacts
<1>2. /\ tcp_state = "ESTAB" /\ up' = up \cup {[call |-> call, kind |-> "ACK", ack |-> tcp_rcv_nxt']}
      /\ tcp_state' = (IF s.fin THEN "FIN" ELSE "ESTAB")
      /\ UNCHANGED <<pc, call, port, result, srv>>
  BY DEF InOrder, Take, SendAck, client
<1>3. PICK n \in Calls : \E k \in 0 .. Len(srv[n].page), j \in 0 .. Len(srv[n].page) :
           /\ Owns(n) /\ k <= j
           /\ tcp_rcv_nxt = At(srv[n].iss, 1 + k)
           /\ k = Len(tcp_asm) \/ (Full /\ Len(tcp_asm) <= k)
           /\ s.data = SubSeq(srv[n].page, k + 1, j)
           /\ s.fin \in BOOLEAN /\ (s.fin => j = Len(srv[n].page))
           /\ tcp_rcv_nxt' = IF s.fin THEN At(srv[n].iss, 2 + j) ELSE At(srv[n].iss, 1 + j)
           /\ tcp_rcv_nxt' \in 0 .. Mod - 1
           /\ tcp_asm' = SubSeq(srv[n].page, 1, Len(tcp_asm'))
           /\ Len(tcp_asm') \in 0 .. Len(srv[n].page) /\ Len(tcp_asm) <= Len(tcp_asm')
           /\ Len(tcp_asm') = j \/ (Full' /\ Len(tcp_asm') <= j)
           /\ Full => tcp_asm' = tcp_asm
  BY InOrderFacts
<1>4. PICK k \in 0 .. Len(srv[n].page), j \in 0 .. Len(srv[n].page) :
           /\ Owns(n) /\ k <= j
           /\ tcp_rcv_nxt = At(srv[n].iss, 1 + k)
           /\ k = Len(tcp_asm) \/ (Full /\ Len(tcp_asm) <= k)
           /\ s.data = SubSeq(srv[n].page, k + 1, j)
           /\ s.fin \in BOOLEAN /\ (s.fin => j = Len(srv[n].page))
           /\ tcp_rcv_nxt' = IF s.fin THEN At(srv[n].iss, 2 + j) ELSE At(srv[n].iss, 1 + j)
           /\ tcp_rcv_nxt' \in 0 .. Mod - 1
           /\ tcp_asm' = SubSeq(srv[n].page, 1, Len(tcp_asm'))
           /\ Len(tcp_asm') \in 0 .. Len(srv[n].page) /\ Len(tcp_asm) <= Len(tcp_asm')
           /\ Len(tcp_asm') = j \/ (Full' /\ Len(tcp_asm') <= j)
           /\ Full => tcp_asm' = tcp_asm
  BY <1>3
<1>5. srv[n].st # "none" /\ port[n] = port[call]
  BY <1>4 DEF Owns
<1>6. /\ srv[n].page \in Seq(Tokens) /\ Len(srv[n].page) \in Nat /\ Len(srv[n].page) + 2 < Mod
      /\ srv[n].iss \in 0 .. Mod - 1 /\ Mod \in Nat \ {0}
  BY <1>5, ServerFacts
<1>7. /\ Len(tcp_asm) \in Nat /\ Len(tcp_asm') \in Nat /\ j \in Nat /\ Len(tcp_asm) <= Len(tcp_asm')
       /\ Len(tcp_asm') <= Len(srv[n].page) /\ Len(tcp_asm') <= j /\ j <= Len(srv[n].page)
       /\ k \in Nat /\ k <= j
  <2>1. Len(tcp_asm) \in Nat
    BY LenProperties DEF TypeOK
  <2>2. Len(tcp_asm') \in 0 .. Len(srv[n].page) /\ Len(tcp_asm) <= Len(tcp_asm')
        /\ j \in 0 .. Len(srv[n].page) /\ k \in 0 .. Len(srv[n].page) /\ k <= j
    BY <1>4
  <2>3. Len(tcp_asm') = j \/ (Full' /\ Len(tcp_asm') <= j)
    BY <1>4
  <2>4. Len(tcp_asm') <= j
    BY <1>6, <2>2, <2>3
  <2> QED BY <1>6, <2>1, <2>2, <2>4
<1>8. Len(tcp_asm') = Len(srv[n].page) => tcp_asm' = srv[n].page
  <2>1. SubSeq(srv[n].page, 1, Len(srv[n].page)) = srv[n].page
    BY <1>6, SubSeqFull
  <2>2. tcp_asm' = SubSeq(srv[n].page, 1, Len(tcp_asm'))
    BY <1>4
  <2> QED BY <2>1, <2>2
<1>9. Full => tcp_asm' = tcp_asm
  BY <1>4
<1>10. ~Full' => Len(tcp_asm') = j
  BY <1>4
<1>11. /\ s.fin => tcp_rcv_nxt' = At(srv[n].iss, 2 + j) /\ j = Len(srv[n].page)
       /\ ~s.fin => tcp_rcv_nxt' = At(srv[n].iss, 1 + j)
  BY <1>4
<1>12. tcp_asm = SubSeq(srv[n].page, 1, Len(tcp_asm)) /\ Len(tcp_asm) <= Len(srv[n].page)
  BY <1>4 DEF Owns, IsPrefixOf
<1>13. tcp_asm' \in Seq(Tokens) /\ Len(tcp_asm') < AsmMax
  <2>1. SubSeq(srv[n].page, 1, Len(tcp_asm')) \in Seq(Tokens)
    <3>1. 1 \in 1 .. Len(srv[n].page) + 1 /\ Len(tcp_asm') \in 1 - 1 .. Len(srv[n].page)
      BY <1>6, <1>7
    <3> QED BY <1>6, <3>1, SliceFacts
  <2>2. Len(tcp_asm') < AsmMax
    <3> DEFINE room == Room
               d == s.data
    <3>1. Len(d) \in Nat /\ d \in Seq(Tokens)
      <4>1. k + 1 \in 1 .. Len(srv[n].page) + 1 /\ j \in (k + 1) - 1 .. Len(srv[n].page)
        BY <1>6, <1>7
      <4>2. SubSeq(srv[n].page, k + 1, j) \in Seq(Tokens)
        BY <1>6, <4>1, SliceFacts
      <4> QED BY <1>4, <4>2, LenProperties
    <3>2. tcp_asm \in Seq(Tokens) /\ Len(tcp_asm) \in Nat /\ Len(tcp_asm) < AsmMax /\ AsmMax \in Nat
      BY LenProperties, HttpAssumption DEF TypeOK
    <3> DEFINE q == IF room < Len(d) THEN room ELSE Len(d)
    <3>3. q \in 0 .. Len(d) /\ q <= room /\ room = AsmMax - Len(tcp_asm) - 1
      BY <3>1, <3>2 DEF Room
    <3>4. tcp_asm' = tcp_asm \o SubSeq(d, 1, q)
      BY DEF InOrder, Take
    <3> HIDE DEF room, d, q
    <3>5. 1 \in 1 .. Len(d) + 1 /\ q \in 1 - 1 .. Len(d)
      BY <3>1, <3>3
    <3>6. SubSeq(d, 1, q) \in Seq(Tokens) /\ Len(SubSeq(d, 1, q)) = q - 1 + 1
      BY <3>1, <3>5, SliceFacts
    <3>7. Len(tcp_asm') = Len(tcp_asm) + (q - 1 + 1)
      BY <3>2, <3>4, <3>6, ConcatProperties
    <3> QED BY <3>1, <3>2, <3>3, <3>7
  <2> QED BY <1>4, <2>1, <2>2
<1>14. TypeOK'
  <2>1. tcp_rcv_nxt' \in 0 .. Mod - 1 /\ s.fin \in BOOLEAN
    BY <1>4
  <2> QED BY <1>1, <1>2, <1>13, <2>1 DEF TypeOK
<1>15. Bookkeeping' /\ IssApart'
  BY <1>1, <1>2, HttpAssumption DEF Bookkeeping, IssApart, Calls
<1>16. Owned'
  <2>1. IsPrefixOf(tcp_asm', srv[n].page)
    <3>1. tcp_asm' = SubSeq(srv[n].page, 1, Len(tcp_asm'))
      BY ZenonT(30), <1>4
    <3> QED BY Zenon, <1>7, <3>1 DEF IsPrefixOf
  <2>2. ~s.fin => j \in 0 .. Len(srv[n].page) /\ tcp_rcv_nxt' = At(srv[n].iss, 1 + j)
                  /\ (j = Len(tcp_asm') \/ (Full' /\ Len(tcp_asm') <= j))
    BY <1>4
  <2>3. s.fin => tcp_asm' = srv[n].page \/ Full'
    <3> SUFFICES ASSUME s.fin, ~Full' PROVE tcp_asm' = srv[n].page
      OBVIOUS
    <3>1. Len(tcp_asm') = Len(srv[n].page)
      BY <1>10, <1>11
    <3> QED BY <1>8, <3>1
  <2>4. Owns(n)'
    BY <1>2, <1>4, <1>5, <2>1, <2>2, <2>3 DEF Owns
  <2>5. call > 0 /\ tcp_state' # "SYN_SENT"
    BY <1>1, <1>2, HttpAssumption DEF Calls
  <2> QED BY <1>2, <2>4, <2>5 DEF Owned
<1>17. FreshPort => n = call
  BY <1>1, <1>4, FreshOwner
\* What was covered still is.
<1>18. ASSUME FreshPort, NEW c \in 0 .. Len(srv[call].page) + 1, Covered(c) PROVE Covered(c)'
  <2>1. n = call
    BY <1>17, <1>18
  <2>2. Len(tcp_asm) \in Nat /\ Len(tcp_asm') \in Nat /\ c \in Nat /\ Len(tcp_asm) <= Len(tcp_asm')
    BY <1>6, <1>7, <2>1
  <2>3. CASE c <= Len(tcp_asm)
    BY <2>2, <2>3 DEF Covered
  <2>4. CASE Full
    BY <1>4, <2>4 DEF Covered, Full
  <2>5. CASE ~Full /\ c = Len(tcp_asm) + 1 /\ tcp_asm = srv[call].page
    <3>1. Len(tcp_asm') = Len(srv[n].page)
      BY <1>7, <2>1, <2>5
    <3>2. tcp_asm' = tcp_asm
      BY <1>8, <2>1, <2>5, <3>1
    <3> QED BY <1>2, <2>5, <3>2 DEF Covered
  <2> QED BY <1>18, <2>3, <2>4, <2>5 DEF Covered
<1>19. AcksSound'
  <2> SUFFICES ASSUME NEW u \in up', u.call = call, u.kind = "ACK", FreshPort
               PROVE  /\ srv[call].st # "none"
                      /\ \E c \in 0 .. Len(srv[call].page) + 1 : u.ack = At(srv[call].iss, 1 + c) /\ Covered(c)'
    BY <1>2 DEF AcksSound, FreshPort
  <2>1. CASE u \in up
    <3>1. PICK c \in 0 .. Len(srv[call].page) + 1 : u.ack = At(srv[call].iss, 1 + c) /\ Covered(c)
      BY <2>1 DEF AcksSound
    <3>2. Covered(c)'
      BY <1>18, <3>1
    <3> QED BY <2>1, <3>1, <3>2 DEF AcksSound
  <2>2. CASE u = [call |-> call, kind |-> "ACK", ack |-> tcp_rcv_nxt']
    <3>1. n = call
      BY <1>17
    <3> DEFINE c == IF s.fin THEN j + 1 ELSE j
    <3>2. c \in 0 .. Len(srv[call].page) + 1
      BY <1>6, <1>7, <3>1
    <3>3. u.ack = At(srv[call].iss, 1 + c)
      <4>1. j \in Nat /\ 1 + (j + 1) = 2 + j
        BY <1>7
      <4> QED BY <1>11, <2>2, <3>1, <4>1
    <3>4. Covered(c)'
      <4>1. CASE Full'
        BY <4>1 DEF Covered
      <4>2. CASE ~Full' /\ ~s.fin
        BY <1>7, <1>10, <4>2 DEF Covered
      <4>3. CASE ~Full' /\ s.fin
        <5>1. Len(tcp_asm') = j /\ j = Len(srv[n].page) /\ c = j + 1
          BY <1>10, <1>11, <4>3
        <5>2. tcp_asm' = srv'[call].page
          BY <1>2, <1>8, <3>1, <5>1
        <5>3. c = Len(tcp_asm') + 1 /\ call' = call
          BY <1>2, <5>1
        <5> HIDE DEF c
        <5> QED BY <5>2, <5>3 DEF Covered
      <4> QED BY <4>1, <4>2, <4>3
    <3> QED BY <1>5, <3>1, <3>2, <3>3, <3>4
  <2> QED BY <1>2, <2>1, <2>2
<1>20. AckedIsKept'
  <2> SUFFICES ASSUME FreshPort, srv[call].st = "served"
               PROVE  \/ srv[call].una <= Len(tcp_asm')
                      \/ Len(tcp_asm') = AsmMax - 1
                      \/ srv[call].una = Len(tcp_asm') + 1 /\ tcp_asm' = srv[call].page
    BY <1>2 DEF AckedIsKept, FreshPort
  <2>1. Covered(srv[call].una)
    BY <1>1 DEF AckedIsKept, Covered, Full
  <2>2. srv[call].una \in Nat /\ Len(tcp_asm) \in Nat /\ Len(tcp_asm') \in Nat
    BY <1>1, <1>13, LenProperties DEF TypeOK
  <2>3. n = call
    BY <1>17
  <2>4. CASE srv[call].una \in 0 .. Len(srv[call].page) + 1
    <3>1. Covered(srv[call].una)'
      <4>1. PICK c \in 0 .. Len(srv[call].page) + 1 : c = srv[call].una
        BY <2>4
      <4>2. Covered(c)
        BY <2>1, <4>1
      <4>3. Covered(c)'
        BY <1>18, <4>2
      <4>4. c = srv'[call'].una
        BY <1>2, <4>1
      <4> QED BY <4>3, <4>4 DEF Covered
    <3> QED BY <1>2, <3>1 DEF Covered, Full
  <2>5. CASE srv[call].una > Len(srv[call].page) + 1
    <3>1. Full
      BY <1>6, <1>12, <2>1, <2>2, <2>3, <2>5 DEF Covered
    <3> QED BY <1>4, <3>1 DEF Full
  <2> QED BY <1>6, <2>2, <2>3, <2>4, <2>5
<1>21. Delivered'
  BY <1>1, <1>2 DEF Delivered
<1> QED BY <1>14, <1>15, <1>16, <1>19, <1>20, <1>21

LEMMA HandleInv ==
  ASSUME HttpInv, NEW s \in Arriving, Handle(s)
  PROVE  HttpInv'
BY ResetInv, SynAckInv, InOrderInv, OutOfOrderInv DEF Handle

(* The loops of net_http_get.  All but Connect leave the connection alone. *)
LEMMA CallInv ==
  ASSUME HttpInv, NoSuchHost
  PROVE  HttpInv'
<1> USE DEF HttpInv
<1>1. /\ pc = "off" /\ call + 1 \in Calls /\ call' = call + 1 /\ tcp_state' = "IDLE" /\ tcp_asm' = <<>>
      /\ pc' = "off" /\ result' = [code |-> -2, body |-> <<>>] /\ UNCHANGED <<port, tcp_rcv_nxt, up, srv>>
  BY DEF NoSuchHost, Returns
<1>2. call \in Nat /\ call' # 0
  BY <1>1, HttpAssumption DEF TypeOK, Calls
<1>3. TypeOK'
  <2>1. <<>> \in Seq(Tokens) /\ Len(<<>>) = 0
    BY EmptySeq
  <2>2. 0 < AsmMax /\ 0 < OutCap
    BY HttpAssumption
  <2> QED BY <1>1, <2>1, <2>2 DEF TypeOK
<1>4. Bookkeeping'
  BY <1>1, <1>2, HttpAssumption DEF Bookkeeping, Calls, TypeOK
<1>5. IssApart'
  BY <1>1 DEF IssApart
<1>6. Owned'
  BY <1>1 DEF Owned
<1>7. AcksSound'
  BY <1>1, <1>2, HttpAssumption DEF AcksSound, Bookkeeping, TypeOK, Calls
<1>8. AckedIsKept'
  BY <1>1, <1>2, HttpAssumption DEF AckedIsKept, Bookkeeping, TypeOK, Calls
<1>9. Delivered'
  BY <1>1 DEF Delivered
<1> QED BY <1>3, <1>4, <1>5, <1>6, <1>7, <1>8, <1>9

LEMMA ConnectInv ==
  ASSUME HttpInv, NEW p \in Ports, Connect(p)
  PROVE  HttpInv'
<1> USE DEF HttpInv
<1>1. /\ pc = "off" /\ call + 1 \in Calls /\ call' = call + 1 /\ port' = [port EXCEPT ![call + 1] = p]
      /\ tcp_state' = "SYN_SENT" /\ tcp_asm' = <<>>
      /\ up' = {u \in up : u.kind # "ACK"} \cup {[call |-> call + 1, kind |-> "SYN", ack |-> 0]}
      /\ pc' = "syn" /\ result' = [code |-> 0, body |-> <<>>] /\ UNCHANGED <<tcp_rcv_nxt, srv>>
  BY DEF Connect, Nothing
<1>2. call \in Nat /\ call' # 0
  BY <1>1, HttpAssumption DEF TypeOK, Calls
<1>3. port' \in [Calls -> Ports \cup {NoPort}] /\ port'[call'] = p
      /\ \A m \in Calls : m <= call => port'[m] = port[m]
  BY <1>1, <1>2, HttpAssumption DEF TypeOK, Calls
<1>4. TypeOK'
  <2>1. <<>> \in Seq(Tokens) /\ Len(<<>>) = 0
    BY EmptySeq
  <2>2. 0 < AsmMax /\ 0 < OutCap /\ 0 \in 0 .. Mod - 1
    BY HttpAssumption
  <2>3. up' \subseteq [call : Calls, kind : {"SYN", "ACK", "GET"}, ack : 0 .. Mod - 1]
    BY <1>1, <2>2 DEF TypeOK
  <2>4. result' \in [code : Int, body : Seq(Tokens)] /\ Len(result'.body) < OutCap
    BY <1>1, <2>1, <2>2
  <2> QED BY <1>1, <1>3, <2>1, <2>2, <2>3, <2>4 DEF TypeOK
<1>5. Bookkeeping'
  <2>1. \A u \in up' : u.call <= call' /\ port'[u.call] \in Ports
    <3> SUFFICES ASSUME NEW u \in up' PROVE u.call <= call' /\ port'[u.call] \in Ports
      OBVIOUS
    <3>1. CASE u \in up
      BY <1>1, <1>2, <1>3, <3>1, HttpAssumption DEF Bookkeeping, TypeOK, Calls
    <3>2. CASE u = [call |-> call + 1, kind |-> "SYN", ack |-> 0]
      BY <1>1, <1>2, <1>3, <3>2
    <3> QED BY <1>1, <3>1, <3>2
  <2>2. \A n \in Calls : srv'[n].st # "none" =>
           n <= call' /\ port'[n] \in Ports /\ srv'[n].iss \in ServerISS /\ srv'[n].page \in Pages
    BY <1>1, <1>2, <1>3, HttpAssumption DEF Bookkeeping, Calls
  <2> QED BY <1>1, <1>2, <1>3, <2>1, <2>2 DEF Bookkeeping
<1>6. IssApart'
  BY <1>1, <1>3 DEF IssApart, Bookkeeping
<1>7. Owned'
  BY <1>1 DEF Owned
<1>8. AcksSound'
  BY <1>1 DEF AcksSound
<1>9. AckedIsKept'
  BY <1>1, <1>2, HttpAssumption DEF AckedIsKept, Bookkeeping, TypeOK, Calls
<1>10. Delivered'
  BY <1>1 DEF Delivered
<1> QED BY <1>4, <1>5, <1>6, <1>7, <1>8, <1>9, <1>10

LEMMA EstablishedInv ==
  ASSUME HttpInv, Established
  PROVE  HttpInv'
<1> USE DEF HttpInv
<1>1. /\ pc = "syn" /\ tcp_state = "ESTAB" /\ pc' = "wait"
      /\ up' = up \cup {[call |-> call, kind |-> kind, ack |-> tcp_rcv_nxt] : kind \in {"ACK", "GET"}}
      /\ UNCHANGED <<call, port, tcp_state, tcp_rcv_nxt, tcp_asm, result, srv>>
  BY DEF Established, conn
<1>2. call \in Calls /\ port[call] \in Ports /\ call \in Int
  BY <1>1, HttpAssumption DEF Bookkeeping, Calls
<1>3. TypeOK'
  BY <1>1, <1>2 DEF TypeOK
<1>4. Bookkeeping' /\ IssApart'
  BY <1>1, <1>2 DEF Bookkeeping, IssApart
<1>5. Owned'
  BY <1>1, SameOwner DEF conn, SrvGrows
<1>6. AcksSound'
  <2> SUFFICES ASSUME NEW u \in up', u.call = call, u.kind = "ACK", FreshPort
               PROVE  /\ srv[call].st # "none"
                      /\ \E k \in 0 .. Len(srv[call].page) + 1 : u.ack = At(srv[call].iss, 1 + k) /\ Covered(k)
    BY <1>1 DEF AcksSound, FreshPort, Covered, Full
  <2>1. CASE u \in up
    BY <2>1 DEF AcksSound
  <2>2. CASE u = [call |-> call, kind |-> "ACK", ack |-> tcp_rcv_nxt]
    BY <1>1, <1>2, <2>2, AckOfNext
  <2> QED BY <1>1, <2>1, <2>2
<1>7. AckedIsKept'
  BY <1>1 DEF AckedIsKept, FreshPort
<1>8. Delivered'
  BY <1>1 DEF Delivered
<1> QED BY <1>3, <1>4, <1>5, <1>6, <1>7, <1>8

(* What Deliver hands over.                                                *)
LEMMA KeptFacts ==
  ASSUME TypeOK, Bookkeeping, NEW n \in Calls, Owns(n), BodyOffset(tcp_asm) >= 0
  PROVE  LET p == srv[n].page
             h == HeaderLen(p)
             l == Len(tcp_asm) - h
         IN  /\ BodyOffset(tcp_asm) = h /\ h \in 1 .. Len(p) /\ h <= Len(tcp_asm)
             /\ Kept(tcp_asm) \in Seq(Tokens)
             /\ Len(Kept(tcp_asm)) = IF l > OutCap - 1 THEN OutCap - 1 ELSE l
             /\ Kept(tcp_asm) = SubSeq(Body(p), 1, Len(Kept(tcp_asm)))
             /\ Len(Body(p)) = Len(p) - h /\ l \in 0 .. Len(Body(p))
<1> DEFINE p == srv[n].page
           h == HeaderLen(p)
           a == Len(tcp_asm)
           l == a - h
           c == IF l > OutCap - 1 THEN OutCap - 1 ELSE l
<1>1. /\ p \in Pages /\ p \in Seq(Tokens) /\ Len(p) \in Nat /\ h \in 1 .. Len(p)
      /\ a \in Nat /\ a <= Len(p) /\ tcp_asm = SubSeq(p, 1, a) /\ tcp_asm \in Seq(Tokens)
      /\ IsPrefixOf(tcp_asm, p)
  BY ServerFacts, PageFacts, LenProperties DEF Owns, IsPrefixOf, TypeOK
<1>2. BodyOffset(tcp_asm) = h /\ h <= a
  BY <1>1, OffsetOfPrefix
<1>3. l \in Nat /\ l <= Len(p) - h /\ c \in 0 .. l /\ OutCap - 1 \in Nat
  BY <1>1, <1>2, HttpAssumption
<1> HIDE DEF p, h, a
<1> DEFINE body == SubSeq(tcp_asm, h + 1, a)
<1>4. body \in Seq(Tokens) /\ Len(body) = l /\ \A x \in 1 .. l : body[x] = p[h + x]
  <2>1. h + 1 \in 1 .. a + 1 /\ a \in (h + 1) - 1 .. a /\ Len(tcp_asm) = a
    BY <1>1, <1>2 DEF a
  <2>2. /\ body \in Seq(Tokens) /\ Len(body) = a - (h + 1) + 1
        /\ \A x \in 1 .. a - (h + 1) + 1 : body[x] = tcp_asm[(h + 1) + x - 1]
    BY <1>1, <2>1, SliceFacts
  <2>3. \A x \in 1 .. a : tcp_asm[x] = p[x]
    <3>1. 1 \in 1 .. Len(p) + 1 /\ a \in 1 - 1 .. Len(p)
      BY <1>1
    <3>2. \A x \in 1 .. a - 1 + 1 : SubSeq(p, 1, a)[x] = p[1 + x - 1]
      BY <1>1, <3>1, SliceFacts
    <3> QED BY <1>1, <3>2
  <2>4. a - (h + 1) + 1 = l /\ \A x \in 1 .. l : (h + 1) + x - 1 = h + x /\ h + x \in 1 .. a
    BY <1>1, <1>2
  <2> QED BY <2>2, <2>3, <2>4
<1>5. Kept(tcp_asm) = SubSeq(body, 1, c)
  BY <1>2, <1>4 DEF Kept, a
<1> HIDE DEF l, c, body
<1>6. /\ Kept(tcp_asm) \in Seq(Tokens) /\ Len(Kept(tcp_asm)) = c
      /\ \A x \in 1 .. c : Kept(tcp_asm)[x] = p[h + x]
  <2>1. 1 \in 1 .. Len(body) + 1 /\ c \in 1 - 1 .. Len(body)
    BY <1>3, <1>4
  <2>2. /\ SubSeq(body, 1, c) \in Seq(Tokens) /\ Len(SubSeq(body, 1, c)) = c - 1 + 1
        /\ \A x \in 1 .. c - 1 + 1 : SubSeq(body, 1, c)[x] = body[1 + x - 1]
    BY <1>4, <2>1, SliceFacts
  <2>3. c - 1 + 1 = c /\ \A x \in 1 .. c : 1 + x - 1 = x /\ x \in 1 .. l
    BY <1>3
  <2> QED BY <1>4, <1>5, <2>2, <2>3
<1>7. /\ Body(p) \in Seq(Tokens) /\ Len(Body(p)) = Len(p) - h
      /\ \A x \in 1 .. Len(p) - h : Body(p)[x] = p[h + x]
  <2>1. h + 1 \in 1 .. Len(p) + 1 /\ Len(p) \in (h + 1) - 1 .. Len(p)
    BY <1>1
  <2>2. /\ SubSeq(p, h + 1, Len(p)) \in Seq(Tokens) /\ Len(SubSeq(p, h + 1, Len(p))) = Len(p) - (h + 1) + 1
        /\ \A x \in 1 .. Len(p) - (h + 1) + 1 : SubSeq(p, h + 1, Len(p))[x] = p[(h + 1) + x - 1]
    BY <1>1, <2>1, SliceFacts
  <2>3. Len(p) - (h + 1) + 1 = Len(p) - h /\ \A x \in 1 .. Len(p) - h : (h + 1) + x - 1 = h + x
    BY <1>1
  <2> QED BY <2>2, <2>3 DEF Body, h
<1>8. Kept(tcp_asm) = SubSeq(Body(p), 1, c)
  <2>1. 1 \in 1 .. Len(Body(p)) + 1 /\ c \in 1 - 1 .. Len(Body(p))
    BY <1>1, <1>3, <1>7
  <2>2. /\ SubSeq(Body(p), 1, c) \in Seq(Tokens) /\ Len(SubSeq(Body(p), 1, c)) = c - 1 + 1
        /\ \A x \in 1 .. c - 1 + 1 : SubSeq(Body(p), 1, c)[x] = Body(p)[1 + x - 1]
    BY <1>7, <2>1, SliceFacts
  <2>3. c - 1 + 1 = c /\ \A x \in 1 .. c : 1 + x - 1 = x /\ x \in 1 .. Len(p) - h
    BY <1>1, <1>3
  <2>4. \A x \in 1 .. c : Kept(tcp_asm)[x] = SubSeq(Body(p), 1, c)[x]
    BY <1>6, <1>7, <2>2, <2>3
  <2> QED BY <1>6, <2>2, <2>3, <2>4, SeqEqual
<1> QED BY <1>1, <1>2, <1>3, <1>6, <1>7, <1>8 DEF p, h, a, l, c

LEMMA DeliverInv ==
  ASSUME HttpInv, Deliver
  PROVE  HttpInv'
<1> USE DEF HttpInv
<1>1. /\ pc = "close" /\ pc' = "off" /\ UNCHANGED <<call, port, tcp_state, tcp_rcv_nxt, tcp_asm, up, srv>>
      /\ result' = IF tcp_asm = <<>> THEN [code |-> -4, body |-> <<>>]
                   ELSE IF BodyOffset(tcp_asm) < 0 THEN [code |-> -5, body |-> <<>>]
                   ELSE [code |-> Len(Kept(tcp_asm)), body |-> Kept(tcp_asm)]
  BY DEF Deliver, Returns, Kept, conn
<1>2. call \in Calls
  BY <1>1 DEF Bookkeeping
<1>3. BodyOffset(tcp_asm) \in Int
  <2>1. CASE tcp_asm = <<>>
    <3>1. DOMAIN tcp_asm = {}
      BY <2>1, EmptySeq, LenProperties
    <3> QED BY <3>1 DEF BodyOffset
  <2>2. CASE tcp_asm # <<>>
    <3>1. PICK n \in Calls : Owns(n)
      BY <2>2 DEF Owned
    <3>2. /\ srv[n].page \in Pages /\ IsPrefixOf(tcp_asm, srv[n].page) /\ Len(tcp_asm) \in Nat
          /\ HeaderLen(srv[n].page) \in Int
      BY <3>1, ServerFacts, PageFacts, LenProperties DEF Owns, TypeOK
    <3> QED BY <3>2, OffsetOfPrefix
  <2> QED BY <2>1, <2>2
<1>4. result' \in [code : Int, body : Seq(Tokens)] /\ Len(result'.body) < OutCap
  <2>1. <<>> \in Seq(Tokens) /\ Len(<<>>) = 0 /\ OutCap \in Nat /\ 1 < OutCap
    BY EmptySeq, HttpAssumption
  <2>2. CASE tcp_asm # <<>> /\ BodyOffset(tcp_asm) >= 0
    <3>1. PICK n \in Calls : Owns(n)
      BY <2>2 DEF Owned
    <3>2. Kept(tcp_asm) \in Seq(Tokens) /\ Len(Kept(tcp_asm)) <= OutCap - 1 /\ Len(Kept(tcp_asm)) \in Nat
      <4>1. Kept(tcp_asm) \in Seq(Tokens)
        BY <2>2, <3>1, KeptFacts
      <4>2. Len(Kept(tcp_asm)) \in Nat
        BY <4>1, LenProperties
      <4>3. \E l \in Int : Len(Kept(tcp_asm)) = IF l > OutCap - 1 THEN OutCap - 1 ELSE l
        <5>1. Len(tcp_asm) \in Int /\ HeaderLen(srv[n].page) \in Int
          BY <3>1, ServerFacts, PageFacts, LenProperties DEF Owns, TypeOK
        <5> QED BY <2>2, <3>1, <5>1, KeptFacts
      <4> QED BY <2>1, <4>1, <4>2, <4>3
    <3>3. result' = [code |-> Len(Kept(tcp_asm)), body |-> Kept(tcp_asm)]
      BY <1>1, <1>3, <2>2
    <3> QED BY <2>1, <3>2, <3>3
  <2>3. CASE tcp_asm = <<>> \/ BodyOffset(tcp_asm) < 0
    BY <1>1, <2>1, <2>3
  <2> QED BY <1>3, <2>2, <2>3
<1>5. TypeOK'
  BY <1>1, <1>4 DEF TypeOK
<1>6. Bookkeeping' /\ IssApart'
  BY <1>1 DEF Bookkeeping, IssApart
<1>7. Owned'
  BY <1>1, SameOwner DEF conn, SrvGrows
<1>8. AcksSound'
  BY <1>1, <1>2, SameAcks DEF SrvGrows
<1>9. AckedIsKept'
  BY <1>1 DEF AckedIsKept, FreshPort
<1>10. Delivered'
  <2> SUFFICES ASSUME result'.code >= 0
               PROVE  /\ tcp_asm # <<>> /\ BodyOffset(tcp_asm) >= 0
                      /\ result' = [code |-> Len(Kept(tcp_asm)), body |-> Kept(tcp_asm)]
    BY <1>1 DEF Delivered
  <2> QED BY <1>1, <1>3
<1> QED BY <1>5, <1>6, <1>7, <1>8, <1>9, <1>10

LEMMA OtherInv ==
  ASSUME HttpInv, NotEstablished \/ Stop \/ GiveUp \/ UNCHANGED vars
  PROVE  HttpInv'
<1> USE DEF HttpInv
<1>1. /\ UNCHANGED <<call, port, tcp_state, tcp_rcv_nxt, tcp_asm, up, srv>>
      /\ \/ pc = "syn" /\ pc' = "off" /\ result' = [code |-> -3, body |-> <<>>]
         \/ pc = "wait" /\ pc' = "close" /\ result' = result
         \/ pc' = pc /\ result' = result
  BY DEF NotEstablished, Stop, GiveUp, Finish, Returns, vars, client, conn
<1>2. TypeOK'
  <2>1. <<>> \in Seq(Tokens) /\ Len(<<>>) = 0 /\ 0 < OutCap
    BY EmptySeq, HttpAssumption
  <2>2. result' = result \/ result' = [code |-> -3, body |-> <<>>]
    BY <1>1
  <2>3. result' \in [code : Int, body : Seq(Tokens)] /\ Len(result'.body) < OutCap
    <3>1. CASE result' = result
      BY <3>1 DEF TypeOK
    <3>2. CASE result' = [code |-> -3, body |-> <<>>]
      BY <2>1, <3>2
    <3> QED BY <2>2, <3>1, <3>2
  <2>4. pc' \in {"off", "syn", "wait", "close"}
    BY <1>1 DEF TypeOK
  <2> QED BY <1>1, <2>3, <2>4 DEF TypeOK
<1>3. Bookkeeping' /\ IssApart'
  BY <1>1 DEF Bookkeeping, IssApart
<1>4. Owned'
  BY <1>1, SameOwner DEF conn, SrvGrows
<1>5. AcksSound'
  <2>1. CASE call \in Calls
    BY <1>1, <2>1, SameAcks DEF SrvGrows
  <2>2. CASE call \notin Calls
    BY <1>1, <2>2 DEF AcksSound, TypeOK
  <2> QED BY <2>1, <2>2
<1>6. AckedIsKept'
  BY <1>1 DEF AckedIsKept, FreshPort
<1>7. Delivered'
  BY <1>1, SameDelivered DEF Delivered
<1> QED BY <1>2, <1>3, <1>4, <1>5, <1>6, <1>7

LEMMA HttpInit == Init => HttpInv
<1> SUFFICES ASSUME Init PROVE HttpInv
  OBVIOUS
<1>1. <<>> \in Seq(Tokens) /\ Len(<<>>) = 0
  BY EmptySeq
<1>2. 0 < AsmMax /\ 0 < OutCap /\ 0 \in 0 .. Mod - 1
  BY HttpAssumption
<1>3. TypeOK
  BY <1>1, <1>2 DEF Init, TypeOK, Nothing, Unborn
<1>4. Bookkeeping /\ IssApart /\ Owned /\ AcksSound /\ AckedIsKept /\ Delivered
  BY HttpAssumption DEF Init, Bookkeeping, IssApart, Owned, AcksSound, AckedIsKept, Delivered, Unborn, Calls
<1> QED BY <1>3, <1>4 DEF HttpInv

LEMMA HttpNext == HttpInv /\ [Next]_vars => HttpInv'
<1> SUFFICES ASSUME HttpInv, [Next]_vars PROVE HttpInv'
  OBVIOUS
<1>1. CASE NoSuchHost
  BY <1>1, CallInv
<1>2. ASSUME NEW p \in Ports, Connect(p) PROVE HttpInv'
  BY <1>2, ConnectInv
<1>3. CASE Established
  BY <1>3, EstablishedInv
<1>4. CASE Deliver
  BY <1>4, DeliverInv
<1>5. CASE NotEstablished \/ Stop \/ GiveUp \/ UNCHANGED vars
  BY <1>5, OtherInv
<1>6. ASSUME NEW n \in Calls, Server(n) PROVE HttpInv'
  BY <1>6, ServerInv
<1>7. ASSUME NEW s \in Arriving, Handle(s) PROVE HttpInv'
  BY <1>7, HandleInv
<1> QED BY <1>1, <1>2, <1>3, <1>4, <1>5, <1>6, <1>7 DEF Next, Client

(* What is delivered, given the invariant.                                 *)
LEMMA RightPageOfInv == HttpInv => RightPage
<1> SUFFICES ASSUME HttpInv PROVE RightPage
  OBVIOUS
<1> USE DEF HttpInv
<1> DEFINE page == srv[call].page
           got  == Len(Kept(tcp_asm))
<1>1. ASSUME pc = "off", result.code >= 0, call > 0, FreshPort
      PROVE  /\ call \in Calls /\ Owns(call) /\ tcp_asm # <<>> /\ BodyOffset(tcp_asm) >= 0
             /\ result.code = got /\ result.body = Kept(tcp_asm)
  <2>1. call \in Calls
    BY <1>1, HttpAssumption DEF TypeOK, Calls
  <2>2. tcp_asm # <<>> /\ BodyOffset(tcp_asm) >= 0 /\ result = [code |-> got, body |-> Kept(tcp_asm)]
    BY <1>1 DEF Delivered
  <2>3. PICK n \in Calls : Owns(n)
    BY <2>2 DEF Owned
  <2>4. n = call
    BY <1>1, <2>1, <2>3, FreshOwner
  <2> QED BY <2>1, <2>2, <2>3, <2>4
<1>2. BodyIsPrefix
  <2> SUFFICES ASSUME pc = "off", result.code >= 0, call > 0, FreshPort
               PROVE  IsPrefixOf(result.body, Body(page))
    BY DEF BodyIsPrefix
  <2>1. Owns(call) /\ call \in Calls /\ BodyOffset(tcp_asm) >= 0 /\ result.body = Kept(tcp_asm)
    BY <1>1
  <2>2. /\ Kept(tcp_asm) = SubSeq(Body(page), 1, got)
        /\ \E l \in 0 .. Len(Body(page)) : got = IF l > OutCap - 1 THEN OutCap - 1 ELSE l
    BY <2>1, KeptFacts
  <2>3. Len(Body(page)) \in Nat
    <3>1. /\ Len(page) \in Nat /\ HeaderLen(page) \in 1 .. Len(page)
      BY <2>1, ServerFacts, PageFacts DEF Owns
    <3>2. Len(Body(page)) = Len(page) - HeaderLen(page)
      BY <2>1, KeptFacts
    <3> QED BY <3>1, <3>2
  <2>4. got <= Len(Body(page))
    BY <2>2, <2>3, HttpAssumption
  <2> QED BY <2>1, <2>2, <2>4 DEF IsPrefixOf
<1>3. FinMeansWhole
  <2> DEFINE h    == HeaderLen(page)
             room == AsmMax - 1 - h
             most == IF OutCap - 1 < room THEN OutCap - 1 ELSE room
  <2> SUFFICES ASSUME pc = "off", result.code >= 0, tcp_state = "FIN", FreshPort
               PROVE  result.code = IF Len(Body(page)) < most THEN Len(Body(page)) ELSE most
    BY DEF FinMeansWhole
  <2>1. call > 0
    BY HttpAssumption DEF Bookkeeping, TypeOK, Calls
  <2>2. Owns(call) /\ call \in Calls /\ BodyOffset(tcp_asm) >= 0 /\ result.code = got
    BY <1>1, <2>1
  <2> DEFINE l == Len(tcp_asm) - h
  <2>3. /\ Len(Body(page)) = Len(page) - h /\ l \in 0 .. Len(Body(page))
        /\ got = IF l > OutCap - 1 THEN OutCap - 1 ELSE l
    BY <2>2, KeptFacts
  <2>4. tcp_asm = page \/ Full
    BY <2>2 DEF Owns
  <2>5. /\ Len(page) \in Nat /\ h \in 1 .. Len(page) /\ Len(tcp_asm) \in Nat /\ Len(tcp_asm) < AsmMax
        /\ Len(tcp_asm) <= Len(page) /\ AsmMax \in Nat /\ OutCap \in Nat
    <3>1. Len(page) \in Nat /\ h \in 1 .. Len(page)
      BY <2>2, ServerFacts, PageFacts DEF Owns
    <3>2. Len(tcp_asm) \in Nat /\ Len(tcp_asm) < AsmMax
      BY LenProperties DEF TypeOK
    <3>3. Len(tcp_asm) <= Len(page)
      BY <2>2 DEF Owns, IsPrefixOf
    <3> QED BY <3>1, <3>2, <3>3, HttpAssumption
  <2>6. Len(tcp_asm) = Len(page) \/ Len(tcp_asm) = AsmMax - 1
    BY <2>4 DEF Full
  <2> QED
    <3> DEFINE b == Len(Body(page))
               a == Len(tcp_asm)
               z == Len(page)
    <3>1. b = z - h /\ got = IF a - h > OutCap - 1 THEN OutCap - 1 ELSE a - h
      BY <2>3
    <3>2. z \in Nat /\ h \in Nat /\ a \in Nat /\ a < AsmMax /\ a <= z /\ AsmMax \in Nat /\ OutCap \in Nat
      BY <2>5
    <3>3. a = z \/ a = AsmMax - 1
      BY <2>6
    <3>4. room = AsmMax - 1 - h
      OBVIOUS
    <3> HIDE DEF b, a, z, h, got
    <3>5. got = IF b < most THEN b ELSE most
      BY <3>1, <3>2, <3>3, <3>4
    <3> QED BY <2>2, <3>5 DEF b
<1>4. OnePage
  BY DEF OnePage, Owned, Owns
<1> QED BY <1>2, <1>3, <1>4 DEF RightPage

(* No buffer is written beyond its end: tcp_asm stays below TCP_ASM_MAX    *)
(* and the body below out_cap, in every order of segments and calls.       *)
THEOREM HttpTypeCorrect == Spec => []TypeOK
<1>1. HttpInv => TypeOK
  BY DEF HttpInv
<1> QED BY HttpInit, HttpNext, <1>1, PTL DEF Spec

(* For any pages, ports and buffers: what net_http_get hands over is the   *)
(* beginning of the page it asked for, all of it after a FIN, and never a  *)
(* mixture, whatever order net_handle_tcp sees the segments in.            *)
THEOREM RightPageSafe == Spec => []RightPage
BY HttpInit, HttpNext, RightPageOfInv, PTL DEF Spec

(* What the client has acknowledged it has kept, unless its buffer is      *)
(* full.                                                                   *)
THEOREM AckedKept == Spec => []AckedIsKept
<1>1. HttpInv => AckedIsKept
  BY DEF HttpInv
<1> QED BY HttpInit, HttpNext, <1>1, PTL DEF Spec
=============================================================================
