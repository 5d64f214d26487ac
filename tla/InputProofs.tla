---------------------------- MODULE InputProofs ----------------------------
(* InputRing implements InputQueue, for every size of the ring. *)
EXTENDS InputRing, SequenceTheorems, TLAPS

(* Arithmetic modulo the ring's size. *)

\* The index after i wraps to 0 at the end of the ring: irq_raw and mouse_buf are never
\* accessed outside their bounds.
LEMMA SuccOf ==
  ASSUME NEW i \in Index
  PROVE  /\ Succ(i) = IF i + 1 = Size THEN 0 ELSE i + 1
         /\ Succ(i) \in Index
<1>1. CASE i + 1 = Size
  BY <1>1, RingAssumption, SMT DEF Succ, Index
<1>2. CASE i + 1 < Size
  BY <1>2, RingAssumption, SMT DEF Succ, Index
<1> QED BY <1>1, <1>2, RingAssumption DEF Index

\* Where the k-th byte behind t lies.
LEMMA PlaceOf ==
  ASSUME NEW t \in Index, NEW k \in Index
  PROVE  /\ (t + k) % Size = IF t + k < Size THEN t + k ELSE t + k - Size
         /\ (t + k) % Size \in Index
<1>1. CASE t + k < Size
  BY <1>1, RingAssumption, SMT DEF Index
<1>2. CASE t + k >= Size
  BY <1>2, RingAssumption, SMT DEF Index
<1> QED BY <1>1, <1>2, RingAssumption DEF Index

\* How many bytes lie between two indices.
LEMMA UsedOf ==
  ASSUME NEW h \in Index, NEW t \in Index
  PROVE  /\ (h + Size - t) % Size = IF t <= h THEN h - t ELSE h + Size - t
         /\ (h + Size - t) % Size \in Index
<1>1. CASE t <= h
  <2>1. h + Size - t = (h - t) + Size /\ h - t \in Index
    BY <1>1, RingAssumption DEF Index
  <2>2. ((h - t) + Size) % Size = h - t
    BY <2>1, RingAssumption, SMT DEF Index
  <2> QED BY <2>1, <2>2, <1>1
<1>2. CASE t > h
  BY <1>2, RingAssumption, SMT DEF Index
<1> QED BY <1>1, <1>2, RingAssumption DEF Index

----------------------------------------------------------------------------
(* The inductive invariant: between seeing a byte and giving its slot back, the byte stays *)
(* where it is.                                                                            *)

RingInv ==
  /\ RingOK
  /\ stage \in {"seen", "read"} => tail # head
  /\ stage = "read" => byte = ring[tail]
  /\ stage = "reset" => tail = 0

LEMMA ZeroIsByte == Zero \in Byte
  BY RingAssumption DEF Zero

LEMMA RingInitInv == RingInit => RingInv
  BY ZeroIsByte, RingAssumption DEF RingInit, RingInv, RingOK, Index, Stages

LEMMA PutInv ==
  ASSUME RingInv, NEW b \in Byte, Put(b)
  PROVE  RingInv'
<1>1. head \in Index /\ tail \in Index /\ Succ(head) \in Index
  BY SuccOf DEF RingInv, RingOK
<1>2. CASE Succ(head) = tail
  BY <1>1, <1>2 DEF RingInv, RingOK, Put
<1>3. CASE Succ(head) # tail
  BY <1>1, <1>3 DEF RingInv, RingOK, Put, Stored
<1> QED BY <1>2, <1>3

LEMMA RingNextInv == RingInv /\ [RingNext]_rvars => RingInv'
<1> SUFFICES ASSUME RingInv, [RingNext]_rvars PROVE RingInv'
  OBVIOUS
<1> USE DEF RingInv, RingOK, Stages
<1>1. CASE \E b \in Byte : Put(b)
  BY <1>1, PutInv
<1>2. CASE See
  BY <1>2 DEF See
<1>3. CASE Read
  BY <1>3 DEF Read
<1>4. CASE Advance
  BY <1>4, SuccOf DEF Advance
<1>5. CASE Handled
  BY <1>5 DEF Handled
<1>6. CASE ResetTail
  <2>1. Used \in Nat
    BY UsedOf, RingAssumption DEF Used, Index
  <2> QED BY <1>6, <2>1, RingAssumption DEF ResetTail, Index
<1>7. CASE ResetHead
  BY <1>7, RingAssumption DEF ResetHead, Index
<1>8. CASE UNCHANGED rvars
  BY <1>8 DEF rvars
<1> QED BY <1>1, <1>2, <1>3, <1>4, <1>5, <1>6, <1>7, <1>8 DEF RingNext

----------------------------------------------------------------------------
(* What lies between two indices of a ring, and how storing and advancing change it. *)

Span(h, t)       == (h + Size - t) % Size
Between(r, h, t) == [i \in 1 .. Span(h, t) |-> r[(t + i - 1) % Size]]

LEMMA BetweenType ==
  ASSUME NEW r \in [Index -> Byte], NEW h \in Index, NEW t \in Index
  PROVE  /\ Between(r, h, t) \in Seq(Byte)
         /\ Len(Between(r, h, t)) = Span(h, t)
         /\ \A i \in 1 .. Span(h, t) : /\ i - 1 \in Index
                                       /\ Between(r, h, t)[i] = r[(t + (i - 1)) % Size]
<1>1. Span(h, t) \in Index /\ Span(h, t) \in Nat
  BY UsedOf, RingAssumption DEF Span, Index
<1>2. ASSUME NEW i \in 1 .. Span(h, t)
      PROVE  /\ i - 1 \in Index /\ t + i - 1 = t + (i - 1)
             /\ (t + i - 1) % Size \in Index
  <2>1. i - 1 \in Index /\ t + i - 1 = t + (i - 1)
    BY <1>1, RingAssumption DEF Index
  <2> QED BY <2>1, PlaceOf
<1>3. Between(r, h, t) \in [1 .. Span(h, t) -> Byte]
  BY <1>2 DEF Between
<1>4. Between(r, h, t) \in Seq(Byte) /\ Len(Between(r, h, t)) = Span(h, t)
  BY <1>1, <1>3
<1> QED BY <1>2, <1>4 DEF Between

LEMMA FullWhen ==
  ASSUME NEW h \in Index, NEW t \in Index, Succ(h) = t
  PROVE  Span(h, t) = Size - 1
  BY UsedOf, SuccOf, RingAssumption DEF Span, Index

LEMMA Growing ==
  ASSUME NEW r \in [Index -> Byte], NEW h \in Index, NEW t \in Index, NEW b \in Byte,
         Succ(h) # t
  PROVE  /\ Span(h, t) < Size - 1
         /\ Between([r EXCEPT ![h] = b], Succ(h), t) = Append(Between(r, h, t), b)
<1>q. PICK q \in [Index -> Byte] : q = [r EXCEPT ![h] = b]
  OBVIOUS
<1>6. \A j \in Index : q[j] = IF j = h THEN b ELSE r[j]
  BY <1>q
<1> DEFINE n == Span(h, t)
           c == Between(r, h, t)
           d == Between(q, Succ(h), t)
<1>1. n = IF t <= h THEN h - t ELSE h + Size - t
  BY UsedOf DEF Span
<1>2. Succ(h) \in Index /\ Succ(h) = IF h + 1 = Size THEN 0 ELSE h + 1
  BY SuccOf
<1>3. Span(Succ(h), t) = IF t <= Succ(h) THEN Succ(h) - t ELSE Succ(h) + Size - t
  BY <1>2, UsedOf DEF Span
<1>4. n < Size - 1 /\ Span(Succ(h), t) = n + 1 /\ n \in Nat
  <2>1. CASE h + 1 = Size
    BY <2>1, <1>1, <1>2, <1>3, RingAssumption DEF Index
  <2>2. CASE h + 1 # Size
    BY <2>2, <1>1, <1>2, <1>3, RingAssumption DEF Index
  <2> QED BY <2>1, <2>2
<1>5. c \in Seq(Byte) /\ Len(c) = n /\ \A i \in 1 .. n : i - 1 \in Index /\ c[i] = r[(t + (i - 1)) % Size]
  BY BetweenType
<1>7. /\ d \in Seq(Byte) /\ Len(d) = n + 1
      /\ \A i \in 1 .. n + 1 : /\ i - 1 \in Index
                               /\ d[i] = q[(t + (i - 1)) % Size]
  <2> DEFINE m == Span(Succ(h), t)
  <2>1. /\ d \in Seq(Byte) /\ Len(d) = m
        /\ \A i \in 1 .. m : /\ i - 1 \in Index
                             /\ d[i] = q[(t + (i - 1)) % Size]
    BY <1>2, BetweenType
  <2> QED BY <2>1, <1>4
<1>8. Append(c, b) \in Seq(Byte) /\ Len(Append(c, b)) = n + 1
  BY <1>5
<1>9. ASSUME NEW i \in 1 .. n + 1 PROVE d[i] = Append(c, b)[i]
  <2>1. i - 1 \in Index /\ d[i] = q[(t + (i - 1)) % Size]
    BY <1>7
  <2>2. /\ (t + (i - 1)) % Size = IF t + (i - 1) < Size THEN t + (i - 1) ELSE t + (i - 1) - Size
        /\ (t + (i - 1)) % Size \in Index
    BY <2>1, PlaceOf
  <2>3. CASE i = n + 1
    <3>1. (t + (i - 1)) % Size = h
      BY <2>2, <2>3, <1>1, <1>4, RingAssumption DEF Index
    <3>2. Append(c, b)[i] = b
      BY <2>3, <1>5
    <3> QED BY <2>1, <3>1, <3>2, <1>6
  <2>4. CASE i \in 1 .. n
    <3>1. (t + (i - 1)) % Size # h
      BY <2>2, <2>4, <1>1, <1>4, RingAssumption DEF Index
    <3>2. Append(c, b)[i] = c[i]
      BY <2>4, <1>5
    <3>3. d[i] = r[(t + (i - 1)) % Size]
      BY <2>1, <2>2, <3>1, <1>6
    <3>4. c[i] = r[(t + (i - 1)) % Size]
      BY <2>4, <1>5
    <3> QED BY <3>2, <3>3, <3>4
  <2>5. i = n + 1 \/ i \in 1 .. n
    BY <1>4
  <2> QED BY <2>3, <2>4, <2>5, Zenon
<1>10. d = Append(c, b)
  BY <1>7, <1>8, <1>9, SeqEqual
<1> QED BY <1>4, <1>10, <1>q

LEMMA Shrinking ==
  ASSUME NEW r \in [Index -> Byte], NEW h \in Index, NEW t \in Index, t # h
  PROVE  /\ Between(r, h, t) # <<>>
         /\ Head(Between(r, h, t)) = r[t]
         /\ Between(r, h, Succ(t)) = Tail(Between(r, h, t))
<1> DEFINE n == Span(h, t)
           c == Between(r, h, t)
           d == Between(r, h, Succ(t))
<1>1. n = IF t <= h THEN h - t ELSE h + Size - t
  BY UsedOf DEF Span
<1>2. Succ(t) \in Index /\ Succ(t) = IF t + 1 = Size THEN 0 ELSE t + 1
  BY SuccOf
<1>3. Span(h, Succ(t)) = IF Succ(t) <= h THEN h - Succ(t) ELSE h + Size - Succ(t)
  BY <1>2, UsedOf DEF Span
<1>4. n \in Nat \ {0} /\ Span(h, Succ(t)) = n - 1 /\ n < Size
  <2>1. CASE t + 1 = Size
    BY <2>1, <1>1, <1>2, <1>3, RingAssumption DEF Index
  <2>2. CASE t + 1 # Size
    BY <2>2, <1>1, <1>2, <1>3, RingAssumption DEF Index
  <2> QED BY <2>1, <2>2
<1>5. c \in Seq(Byte) /\ Len(c) = n /\ \A i \in 1 .. n : i - 1 \in Index /\ c[i] = r[(t + (i - 1)) % Size]
  BY BetweenType
<1>6. /\ d \in Seq(Byte) /\ Len(d) = n - 1
      /\ \A i \in 1 .. n - 1 : i - 1 \in Index /\ d[i] = r[(Succ(t) + (i - 1)) % Size]
  <2> DEFINE m == Span(h, Succ(t))
  <2>1. /\ d \in Seq(Byte) /\ Len(d) = m
        /\ \A i \in 1 .. m : i - 1 \in Index /\ d[i] = r[(Succ(t) + (i - 1)) % Size]
    BY <1>2, BetweenType
  <2> QED BY <2>1, <1>4
<1>7. c # <<>>
  BY <1>4, <1>5
<1>8. Head(c) = r[t]
  <2>1. 0 \in Index /\ (t + 0) % Size = t
    <3>1. 0 \in Index /\ t + 0 = t /\ t < Size
      BY RingAssumption DEF Index
    <3>2. (t + 0) % Size = IF t + 0 < Size THEN t + 0 ELSE t + 0 - Size
      BY <3>1, PlaceOf
    <3> QED BY <3>1, <3>2
  <2>2. Head(c) = c[1] /\ 1 \in 1 .. n /\ 1 - 1 = 0
    BY <1>4, <1>5, <1>7
  <2> QED BY <2>1, <2>2, <1>5
<1>9. /\ Tail(c) \in Seq(Byte) /\ Len(Tail(c)) = n - 1
      /\ \A i \in 1 .. n - 1 : Tail(c)[i] = c[i + 1]
  BY <1>5, <1>7, HeadTailProperties
<1>10. ASSUME NEW i \in 1 .. n - 1 PROVE d[i] = Tail(c)[i]
  <2>1. i - 1 \in Index /\ i \in Index /\ i + 1 \in 1 .. n /\ (i + 1) - 1 = i
    BY <1>4, RingAssumption DEF Index
  <2>2. (t + i) % Size = IF t + i < Size THEN t + i ELSE t + i - Size
    BY <2>1, PlaceOf
  <2>3. (Succ(t) + (i - 1)) % Size = IF Succ(t) + (i - 1) < Size THEN Succ(t) + (i - 1)
                                     ELSE Succ(t) + (i - 1) - Size
    BY <2>1, <1>2, PlaceOf
  <2>4. (Succ(t) + (i - 1)) % Size = (t + i) % Size
    <3>1. CASE t + 1 = Size
      BY <3>1, <2>1, <2>2, <2>3, <1>2, RingAssumption DEF Index
    <3>2. CASE t + 1 # Size
      BY <3>2, <2>1, <2>2, <2>3, <1>2, RingAssumption DEF Index
    <3> QED BY <3>1, <3>2
  <2>5. c[i + 1] = r[(t + i) % Size]
    BY <2>1, <1>5
  <2> QED BY <2>4, <2>5, <1>6, <1>9
<1>11. d = Tail(c)
  BY <1>6, <1>9, <1>10, SeqEqual
<1> QED BY <1>7, <1>8, <1>11

----------------------------------------------------------------------------
(* The refinement. *)


LEMMA ContentsIs == Contents = Between(ring, head, tail) /\ Used = Span(head, tail)
  BY DEF Contents, Used, Between, Span

LEMMA ContentsWillBe == Contents' = Between(ring', head', tail') /\ Used' = Span(head', tail')
  BY DEF Contents, Used, Between, Span

LEMMA EmptySpan == Span(0, 0) = 0
  BY UsedOf, RingAssumption DEF Span, Index

LEMMA MapsInit == RingInit => Queue!Init
<1> SUFFICES ASSUME RingInit PROVE Queue!Init
  OBVIOUS
<1>1. Contents = <<>>
  BY ContentsIs, EmptySpan DEF RingInit, Between
<1> QED BY <1>1, ZeroIsByte DEF RingInit, Queue!Init

LEMMA MapsStep == RingInv /\ [RingNext]_rvars => [Queue!Next]_(Queue!qvars)
<1> SUFFICES ASSUME RingInv, [RingNext]_rvars PROVE [Queue!Next]_(Queue!qvars)
  OBVIOUS
<1>0. /\ ring \in [Index -> Byte] /\ head \in Index /\ tail \in Index /\ stage \in Stages
      /\ Succ(head) \in Index /\ Succ(tail) \in Index
  BY SuccOf DEF RingInv, RingOK
<1> USE ContentsIs, ContentsWillBe DEF Stages
<1>1. ASSUME NEW b \in Byte, Put(b) PROVE Queue!Next
  <2>1. CASE Succ(head) = tail /\ stage # "reset"
    <3>1. Len(Contents) = Size - 1
      BY <2>1, <1>0, FullWhen, BetweenType
    <3>2. Queue!TurnAway
      BY <3>1, <2>1, <1>1 DEF Put, Queue!TurnAway
    <3> QED BY <3>2 DEF Queue!Next
  <2>2. CASE Succ(head) # tail /\ stage # "reset"
    <3>1. Len(Contents) < Size - 1 /\ Contents' = Append(Contents, b)
      <4>1. ring' = [ring EXCEPT ![head] = b] /\ head' = Succ(head) /\ tail' = tail
        BY <2>2, <1>1 DEF Put, Stored
      <4>2. /\ Span(head, tail) < Size - 1
            /\ Between([ring EXCEPT ![head] = b], Succ(head), tail)
                 = Append(Between(ring, head, tail), b)
        BY <2>2, <1>0, Growing
      <4>3. Len(Between(ring, head, tail)) = Span(head, tail)
        BY <1>0, BetweenType
      <4> QED BY <4>1, <4>2, <4>3
    <3>2. Queue!Put(b)
      BY <3>1, <2>2, <1>1 DEF Put, Stored, Queue!Put
    <3> QED BY <3>2 DEF Queue!Next
  <2>3. CASE stage = "reset"
    BY <2>3, <1>1 DEF Put, Stored, Queue!TurnAway, Queue!Next
  <2> QED BY <2>1, <2>2, <2>3
<1>2. CASE See
  BY <1>2 DEF See, Queue!qvars
<1>3. CASE Read
  <2>1. Contents # <<>> /\ byte' = Head(Contents)
    BY <1>3, <1>0, Shrinking DEF Read, RingInv
  <2> QED BY <1>3, <2>1 DEF Read, Queue!Look, Queue!Next
<1>4. CASE Advance
  <2>1. Contents # <<>> /\ byte = Head(Contents) /\ Contents' = Tail(Contents)
    BY <1>4, <1>0, Shrinking DEF Advance, RingInv
  <2> QED BY <1>4, <2>1 DEF Advance, Queue!Remove, Queue!Next
<1>5. CASE Handled
  BY <1>5 DEF Handled, Queue!qvars
<1>6. CASE ResetTail
  <2>1. Used = Len(Contents)
    BY <1>0, BetweenType
  <2> QED BY <1>6, <2>1 DEF ResetTail, Queue!Clear, Queue!Next
<1>7. CASE ResetHead
  <2>1. Contents' = <<>>
    <3>1. tail' = 0 /\ head' = 0
      BY <1>7 DEF ResetHead, RingInv
    <3> QED BY <3>1, EmptySpan DEF Between
  <2> QED BY <1>7, <2>1 DEF ResetHead, Queue!Reopen, Queue!Next
<1>8. CASE UNCHANGED rvars
  BY <1>8 DEF rvars, Queue!qvars
<1> QED BY <1>1, <1>2, <1>3, <1>4, <1>5, <1>6, <1>7, <1>8 DEF RingNext

\* For every size of the ring, the interrupt handler's and the main loop's steps on
\* irq_raw (keyboard.c) and mouse_buf (mouse.c) implement a bounded FIFO queue.
THEOREM RingIsQueue == RingSpec => ImplementsQueue
<1>1. RingSpec => []RingInv
  BY RingInitInv, RingNextInv, PTL DEF RingSpec
<1> QED BY <1>1, MapsInit, MapsStep, PTL DEF RingSpec, ImplementsQueue, Queue!Spec

----------------------------------------------------------------------------
(* The bytes stored and not handled yet: the one that the main loop has taken, and those   *)
(* that wait.  A byte on its way from the one place to the other stays in its turn.        *)

InHand  == IF stage = "got" THEN <<byte>> ELSE <<>>
Waiting == IF stage = "reset" THEN <<>> ELSE Contents

LEMMA Regroup == \A s, t, u \in Seq(Byte) : s \o (t \o u) = (s \o t) \o u
  BY ConcatAssociative

LEMMA Shifted ==
  ASSUME NEW S, NEW c \in Seq(S), NEW w \in Seq(S), w # <<>>
  PROVE  Append(c, Head(w)) \o Tail(w) = c \o w
<1>1. Head(w) \in S /\ Tail(w) \in Seq(S) /\ Len(Tail(w)) = Len(w) - 1 /\ Head(w) = w[1]
      /\ \A i \in 1 .. Len(Tail(w)) : Tail(w)[i] = w[i + 1]
  BY HeadTailProperties
<1>2. Len(c) \in Nat /\ Len(w) \in Nat \ {0}
  BY EmptySeq
<1>3. PICK a \in Seq(S) : a = Append(c, Head(w))
  <2>1. Append(c, Head(w)) \in Seq(S)
    BY <1>1, AppendProperties
  <2> QED BY <2>1, Zenon
<1>4. Len(a) = Len(c) + 1 /\ a[Len(c) + 1] = w[1] /\ \A i \in 1 .. Len(c) : a[i] = c[i]
  BY <1>1, <1>3, AppendProperties
<1>5. /\ a \o Tail(w) \in Seq(S) /\ Len(a \o Tail(w)) = Len(c) + Len(w)
      /\ \A i \in 1 .. Len(c) + Len(w) :
           (a \o Tail(w))[i] = IF i <= Len(a) THEN a[i] ELSE Tail(w)[i - Len(a)]
  <2>1. Len(a) + Len(Tail(w)) = Len(c) + Len(w)
    BY <1>1, <1>2, <1>4
  <2> QED BY <1>1, <1>3, <2>1, ConcatProperties
<1>6. /\ c \o w \in Seq(S) /\ Len(c \o w) = Len(c) + Len(w)
      /\ \A i \in 1 .. Len(c) + Len(w) : (c \o w)[i] = IF i <= Len(c) THEN c[i] ELSE w[i - Len(c)]
  BY ConcatProperties
<1>7. ASSUME NEW i \in 1 .. Len(c) + Len(w) PROVE (a \o Tail(w))[i] = (c \o w)[i]
  <2>1. CASE i <= Len(c)
    BY <2>1, <1>2, <1>4, <1>5, <1>6
  <2>2. CASE i = Len(c) + 1
    <3>1. i - Len(c) = 1
      BY <2>2, <1>2
    <3> QED BY <2>2, <3>1, <1>2, <1>4, <1>5, <1>6
  <2>3. CASE i > Len(c) + 1
    <3>1. i - Len(a) \in 1 .. Len(Tail(w)) /\ (i - Len(a)) + 1 = i - Len(c)
      BY <2>3, <1>1, <1>2, <1>4
    <3>2. ~(i <= Len(a)) /\ ~(i <= Len(c))
      BY <2>3, <1>2, <1>4
    <3>3. Tail(w)[i - Len(a)] = w[i - Len(c)]
      BY <3>1, <1>1
    <3> QED BY <3>2, <3>3, <1>5, <1>6
  <2>4. i <= Len(c) \/ i = Len(c) + 1 \/ i > Len(c) + 1
    BY <1>2
  <2> QED BY <2>1, <2>2, <2>3, <2>4, Zenon
<1>8. a \o Tail(w) = c \o w
  BY <1>5, <1>6, <1>7, SeqEqual
<1> QED BY <1>3, <1>8

LEMMA PrependOne ==
  ASSUME NEW S, NEW e \in S, NEW s \in Seq(S)
  PROVE  <<e>> \o s # <<>> /\ Head(<<e>> \o s) = e /\ Tail(<<e>> \o s) = s
<1>1. <<e>> \in Seq(S) /\ Len(<<e>>) = 1 /\ <<e>>[1] = e
  OBVIOUS
<1>2. /\ <<e>> \o s \in Seq(S) /\ Len(<<e>> \o s) = 1 + Len(s) /\ Len(s) \in Nat
      /\ \A i \in 1 .. 1 + Len(s) : (<<e>> \o s)[i] = IF i <= 1 THEN <<e>>[i] ELSE s[i - 1]
  BY <1>1, ConcatProperties
<1>3. PICK t \in Seq(S) : t = <<e>> \o s
  BY <1>2
<1>4. t # <<>> /\ Head(t) = e
  BY <1>1, <1>2, <1>3
<1>5. /\ Tail(t) \in Seq(S) /\ Len(Tail(t)) = Len(s)
      /\ \A i \in 1 .. Len(Tail(t)) : Tail(t)[i] = t[i + 1]
  BY <1>2, <1>3, <1>4, HeadTailProperties
<1>6. ASSUME NEW i \in 1 .. Len(s) PROVE Tail(t)[i] = s[i]
  <2>1. i + 1 \in 1 .. 1 + Len(s) /\ ~(i + 1 <= 1) /\ (i + 1) - 1 = i
    BY <1>2
  <2> QED BY <2>1, <1>2, <1>3, <1>5
<1>7. Tail(t) = s
  BY <1>5, <1>6, SeqEqual
<1> QED BY <1>3, <1>4, <1>7

LEMMA AppendOut ==
  ASSUME NEW S, NEW s \in Seq(S), NEW t \in Seq(S), NEW e \in S
  PROVE  s \o Append(t, e) = Append(s \o t, e)
<1>1. <<e>> \in Seq(S) /\ s \o t \in Seq(S)
  BY ConcatProperties
<1>2. (s \o t) \o <<e>> = s \o (t \o <<e>>)
  BY <1>1, ConcatAssociative
<1>3. Append(t, e) = t \o <<e>>
  BY AppendIsConcat
<1>4. Append(s \o t, e) = (s \o t) \o <<e>>
  BY <1>1, AppendIsConcat
<1> QED BY <1>2, <1>3, <1>4, Zenon

LEMMA QueuedType ==
  ASSUME RingInv
  PROVE  InHand \in Seq(Byte) /\ Waiting \in Seq(Byte)
<1>1. byte \in Byte /\ ring \in [Index -> Byte] /\ head \in Index /\ tail \in Index
  BY DEF RingInv, RingOK
<1>2. Contents \in Seq(Byte)
  BY <1>1, ContentsIs, BetweenType
<1> QED BY <1>1, <1>2, EmptySeq DEF InHand, Waiting

LEMMA PutQueued ==
  ASSUME RingInv, NEW b \in Byte, Put(b), missed' = missed
  PROVE  InHand' = InHand /\ Waiting' = Append(Waiting, b)
<1>1. ring \in [Index -> Byte] /\ head \in Index /\ tail \in Index /\ missed \in Nat
  BY DEF RingInv, RingOK
<1>2. stage # "reset" /\ Succ(head) # tail
  BY <1>1 DEF Put
<1>3. /\ ring' = [ring EXCEPT ![head] = b] /\ head' = Succ(head) /\ tail' = tail
      /\ stage' = stage /\ byte' = byte
  BY <1>2 DEF Put, Stored
<1>4. Between([ring EXCEPT ![head] = b], Succ(head), tail) = Append(Between(ring, head, tail), b)
  BY <1>1, <1>2, Growing
<1>5. Contents' = Append(Contents, b)
  BY <1>3, <1>4, ContentsIs, ContentsWillBe
<1> QED BY <1>2, <1>3, <1>5 DEF Waiting, InHand

LEMMA TakenQueued ==
  ASSUME RingInv, See \/ Read \/ Advance, NEW w \in Seq(Byte)
  PROVE  InHand' \o (Waiting' \o w) = InHand \o (Waiting \o w) /\ missed' = missed
<1>1. ring \in [Index -> Byte] /\ head \in Index /\ tail \in Index /\ byte \in Byte
  BY DEF RingInv, RingOK
<1>2. CASE See \/ Read
  <2>1. ring' = ring /\ head' = head /\ tail' = tail /\ missed' = missed
        /\ stage \in {"idle", "seen"} /\ stage' \in {"seen", "read"}
    BY <1>2 DEF See, Read
  <2> QED BY <2>1 DEF InHand, Waiting, Contents, Used
<1>3. CASE Advance
  <2>1. /\ ring' = ring /\ head' = head /\ tail' = Succ(tail) /\ byte' = byte /\ missed' = missed
        /\ stage = "read" /\ stage' = "got" /\ tail # head /\ byte = ring[tail]
    BY <1>3 DEF Advance, RingInv
  <2>2. Contents # <<>> /\ byte = Head(Contents) /\ Contents' = Tail(Contents)
    BY <1>1, <2>1, Shrinking, ContentsIs, ContentsWillBe
  <2>3. InHand = <<>> /\ InHand' = <<byte>> /\ Waiting = Contents /\ Waiting' = Tail(Contents)
    BY <2>1, <2>2 DEF InHand, Waiting
  <2>4. Contents \in Seq(Byte) /\ <<byte>> \in Seq(Byte) /\ Tail(Contents) \in Seq(Byte)
    BY <1>1, <2>2, <2>3, QueuedType, HeadTailProperties
  <2>5. Append(<<>>, Head(Contents)) \o Tail(Contents) = <<>> \o Contents
    BY <2>2, <2>4, EmptySeq, Shifted
  <2>6. Append(<<>>, Head(Contents)) = <<byte>> /\ <<>> \o Contents = Contents
    BY <2>2, <2>4, ConcatEmptySeq
  <2>7. <<byte>> \o Tail(Contents) = Contents
    BY <2>5, <2>6
  <2>8. <<byte>> \o (Tail(Contents) \o w) = Contents \o w
    BY <2>4, <2>7, ConcatAssociative
  <2>9. <<>> \o (Contents \o w) = Contents \o w
    BY <2>4, ConcatProperties, ConcatEmptySeq
  <2> QED BY <2>1, <2>3, <2>8, <2>9
<1> QED BY <1>2, <1>3

LEMMA HandledQueued ==
  ASSUME Handled
  PROVE  InHand = <<byte>> /\ InHand' = <<>> /\ Waiting' = Waiting /\ missed' = missed
  BY DEF Handled, InHand, Waiting, Contents, Used

LEMMA ResetQueued ==
  ASSUME RingInv, ResetTail \/ ResetHead
  PROVE  /\ missed' = 0 => missed' = missed
         /\ missed' = missed => InHand' = InHand /\ Waiting' = Waiting
<1>1. ring \in [Index -> Byte] /\ head \in Index /\ tail \in Index /\ missed \in Nat
  BY DEF RingInv, RingOK
<1>2. CASE ResetTail
  <2>1. Used = Len(Contents) /\ Contents \in Seq(Byte) /\ Len(Contents) \in Nat
    BY <1>1, ContentsIs, BetweenType
  <2>2. missed' = missed + Len(Contents) /\ stage = "idle" /\ stage' = "reset"
    BY <1>2, <2>1 DEF ResetTail
  <2>3. missed' = missed => Contents = <<>>
    BY <1>1, <2>1, <2>2, EmptySeq
  <2> QED BY <1>1, <2>1, <2>2, <2>3 DEF InHand, Waiting
<1>3. CASE ResetHead
  <2>1. stage = "reset" /\ stage' = "idle" /\ head' = 0 /\ tail' = 0 /\ missed' = missed
    BY <1>3 DEF ResetHead, RingInv
  <2>2. Contents' = <<>>
    BY <2>1, ContentsWillBe, EmptySpan DEF Between
  <2> QED BY <2>1, <2>2 DEF InHand, Waiting
<1> QED BY <1>2, <1>3
=============================================================================
