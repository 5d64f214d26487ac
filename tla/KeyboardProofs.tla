--------------------------- MODULE KeyboardProofs ---------------------------
(* The keyboard driver, for every set of keys and every size of its two rings. *)
EXTENDS Keyboard, InputProofs

(* The inductive invariant: the types, and what the main loop's place says of the raw ring. *)
KeyboardInv == TypeOK /\ RingInv

LEMMA ModsFields ==
  ASSUME TypeOK, NEW v \in BOOLEAN
  PROVE  /\ [mods EXCEPT !.shift = v] \in Mods
         /\ [mods EXCEPT !.ctrl = v] \in Mods
         /\ [mods EXCEPT !.alt = v] \in Mods
         /\ [mods EXCEPT !.caps = v] \in Mods
         /\ [mods EXCEPT !.extended = v] \in Mods
  BY DEF TypeOK, Mods

\* A key stroke is at most a prefix and a scancode, which the interrupt handler reads one by one.
LEMMA MakeBreakType ==
  ASSUME NEW k \in Keys
  PROVE  Make(k) \in Seq(Byte) /\ Break(k) \in Seq(Byte)
<1>1. k \in [code : Modifiers \cup Prints, ext : BOOLEAN] /\ Byte = Scancodes
  BY KeyboardAssumption
<1>2. /\ [code |-> k.code, up |-> FALSE] \in Scancodes /\ [code |-> k.code, up |-> TRUE] \in Scancodes
      /\ Prefix \in Scancodes
  BY <1>1 DEF Scancodes, Prefix
<1>3. <<[code |-> k.code, up |-> FALSE]>> \in Seq(Byte) /\ <<[code |-> k.code, up |-> TRUE]>> \in Seq(Byte)
      /\ <<Prefix>> \in Seq(Byte) /\ <<>> \in Seq(Byte)
  BY <1>1, <1>2
<1> QED BY <1>3 DEF Make, Break

LEMMA GlyphType ==
  ASSUME NEW code \in Modifiers \cup Prints, NEW ext \in BOOLEAN, NEW m
  PROVE  Glyph(code, ext, m) \in Glyphs
  BY DEF Glyph, Glyphs, Faces

LEMMA EnqueueType ==
  ASSUME TypeOK, NEW g \in Glyphs, Enqueue(g)
  PROVE  keys' \in Seq(Glyphs) /\ Len(keys') <= KeySize - 1
<1>1. keys \in Seq(Glyphs) /\ Len(keys) <= KeySize - 1 /\ KeySize \in Nat /\ Len(keys) \in Nat
  BY KeyboardAssumption DEF TypeOK
<1>2. CASE keys' = keys
  BY <1>1, <1>2
<1>3. CASE keys' = Append(keys, g) /\ Len(keys) < KeySize - 1
  <2>1. Append(keys, g) \in Seq(Glyphs) /\ Len(Append(keys, g)) = Len(keys) + 1
    BY <1>1
  <2> QED BY <1>1, <1>3, <2>1
<1> QED BY <1>2, <1>3 DEF Enqueue

LEMMA DecodeType ==
  ASSUME TypeOK, NEW b \in Byte, Decode(b)
  PROVE  /\ mods' \in Mods
         /\ keys' \in Seq(Glyphs) /\ Len(keys') <= KeySize - 1
<1>1. b \in Scancodes
  BY KeyboardAssumption
<1>2. /\ mods \in Mods
      /\ keys \in Seq(Glyphs) /\ Len(keys) <= KeySize - 1
  BY DEF TypeOK
<1>3. ASSUME b # Prefix PROVE b.code \in Modifiers \cup Prints /\ b.up \in BOOLEAN
  BY <1>1, <1>3 DEF Scancodes, Prefix
<1>4. CASE b = Prefix
  BY <1>4, <1>2, ModsFields DEF Decode
<1>5. CASE b # Prefix /\ mods.extended
  <2>1. Glyph(b.code, TRUE, mods) \in Glyphs
    BY <1>3, <1>5, GlyphType
  <2>2. mods' = [mods EXCEPT !.extended = FALSE] /\ (UNCHANGED keys \/ Enqueue(Glyph(b.code, TRUE, mods)))
    BY <1>5 DEF Decode
  <2> QED BY <2>1, <2>2, <1>2, ModsFields, EnqueueType
<1>6. CASE b # Prefix /\ ~mods.extended /\ b.code \in Modifiers
  <2>1. mods' = SetModifier(b) /\ UNCHANGED keys
    BY <1>6 DEF Decode
  <2>2. mods.caps \in BOOLEAN /\ (~mods.caps) \in BOOLEAN
    BY <1>2 DEF Mods
  <2>4. (~b.up) \in BOOLEAN
    BY <1>3, <1>6
  <2>3. SetModifier(b) \in Mods
    BY <2>2, <2>4, <1>3, <1>6, ModsFields DEF SetModifier
  <2> QED BY <2>1, <2>3, <1>2
<1>7. CASE b # Prefix /\ ~mods.extended /\ b.code \notin Modifiers
  <2>1. Glyph(b.code, FALSE, mods) \in Glyphs
    BY <1>3, <1>7, GlyphType
  <2>2. UNCHANGED mods /\ (UNCHANGED keys \/ Enqueue(Glyph(b.code, FALSE, mods)))
    BY <1>7 DEF Decode
  <2> QED BY <2>1, <2>2, <1>2, EnqueueType
<1> QED BY <1>4, <1>5, <1>6, <1>7

----------------------------------------------------------------------------
LEMMA KeyboardInitInv == Init => KeyboardInv
<1> SUFFICES ASSUME Init PROVE KeyboardInv
  OBVIOUS
<1>1. RingInv
  BY RingInitInv DEF Init
<1>2. <<>> \in Seq(Byte) /\ <<>> \in Seq(Glyphs) /\ Len(<<>>) <= KeySize - 1
  BY KeyboardAssumption
<1>3. RingOK
  BY <1>1 DEF RingInv
<1>4. mods \in Mods
  BY DEF Init, Released, Mods
<1>5. events \in 0 .. MaxEvents /\ down \subseteq Keys /\ pc \in Places
  BY KeyboardAssumption DEF Init, Places
<1> QED BY <1>1, <1>2, <1>3, <1>4, <1>5 DEF Init, KeyboardInv, TypeOK

\* The main loop's accesses to the raw ring, and the interrupt handler's, are steps of the
\* ring's own specification.
LEMMA KeyboardOnRing == TypeOK /\ [Next]_vars => [RingNext]_rvars
<1> SUFFICES ASSUME TypeOK, [Next]_vars PROVE [RingNext]_rvars
  OBVIOUS
<1>1. CASE \E k \in Keys : Strike(k) \/ Release(k)
  BY <1>1 DEF Strike, Release
<1>2. CASE Interrupt
  <2>1. Head(wire) \in Byte
    BY <1>2 DEF Interrupt, TypeOK
  <2>2. Put(Head(wire))
    BY <1>2 DEF Interrupt
  <2> QED BY <2>1, <2>2 DEF RingNext
<1>3. CASE SetIrqMode
  BY <1>3 DEF SetIrqMode, RingNext
<1>4. CASE Drain
  BY <1>4 DEF Drain, RingNext
<1>5. CASE Available \/ Poll
  BY <1>5 DEF Available, Poll
<1>6. CASE UNCHANGED vars
  BY <1>6 DEF vars
<1> QED BY <1>1, <1>2, <1>3, <1>4, <1>5, <1>6 DEF Next, Main

LEMMA KeyboardNextInv == KeyboardInv /\ [Next]_vars => KeyboardInv'
<1> SUFFICES ASSUME KeyboardInv, [Next]_vars PROVE KeyboardInv'
  OBVIOUS
<1>0. RingInv' /\ RingOK'
  BY KeyboardOnRing, RingNextInv DEF KeyboardInv, RingInv
<1>9. wire \in Seq(Byte) /\ keys \in Seq(Glyphs) /\ byte \in Byte /\ KeySize \in Nat
  BY KeyboardAssumption DEF KeyboardInv, TypeOK, RingOK
<1> USE <1>0 DEF KeyboardInv, TypeOK
<1>1. ASSUME NEW k \in Keys, Strike(k) PROVE KeyboardInv'
  <2>1. wire \o Make(k) \in Seq(Byte)
    BY <1>9, MakeBreakType
  <2>2. events' \in 0 .. MaxEvents
    BY <1>1, KeyboardAssumption DEF Strike
  <2> QED BY <1>1, <2>1, <2>2 DEF Strike
<1>2. ASSUME NEW k \in Keys, Release(k) PROVE KeyboardInv'
  <2>1. wire \o Break(k) \in Seq(Byte)
    BY <1>9, MakeBreakType
  <2>2. events' \in 0 .. MaxEvents
    BY <1>2, KeyboardAssumption DEF Release
  <2> QED BY <1>2, <2>1, <2>2 DEF Release
<1>3. CASE Interrupt
  <2>1. Tail(wire) \in Seq(Byte)
    BY <1>3, <1>9 DEF Interrupt
  <2> QED BY <1>3, <2>1 DEF Interrupt, user
<1>4. CASE SetIrqMode
  BY <1>4 DEF SetIrqMode, user, Places
<1>5. CASE Drain
  <2>1. CASE (See \/ Read \/ Advance) /\ UNCHANGED <<mods, keys, spilled>>
    BY <1>5, <2>1 DEF Drain, user
  <2>2. CASE Handled /\ Decode(byte)
    BY <1>5, <1>9, <2>2, DecodeType DEF Drain, user
  <2> QED BY <1>5, <2>1, <2>2 DEF Drain
<1>6. CASE Available
  BY <1>6 DEF Available, user, Places
<1>7. CASE Poll
  <2>1. Tail(keys) \in Seq(Glyphs) /\ Len(Tail(keys)) <= KeySize - 1
    BY <1>7, <1>9 DEF Poll
  <2> QED BY <1>7, <2>1 DEF Poll, user, Places
<1>8. CASE UNCHANGED vars
  BY <1>8 DEF vars, user
<1> QED BY <1>1, <1>2, <1>3, <1>4, <1>5, <1>6, <1>7, <1>8 DEF Next, Main

\* The indices of irq_raw and kb_buf stay in bounds, and kb_buf holds at most KB_BUFFER_SIZE - 1
\* keys, for all sizes of the two rings, sets of keys and numbers of strokes.
THEOREM KeyboardTypeCorrect == Spec => []TypeOK
<1>1. Init => KeyboardInv
  BY KeyboardInitInv
<1>2. KeyboardInv /\ [Next]_vars => KeyboardInv'
  BY KeyboardNextInv
<1>3. KeyboardInv => TypeOK
  BY DEF KeyboardInv
<1> QED BY <1>1, <1>2, <1>3, PTL DEF Spec

\* The whole keyboard driver, with the decoding and the switch to interrupts among the ring's
\* steps, still treats irq_raw as a bounded FIFO queue: no scancode is read twice, reordered or
\* made up, and none is lost but by a full ring or the switch.
THEOREM KeyboardIsQueue == Spec => ImplementsQueue
<1>1. Spec => [](KeyboardInv)
  BY KeyboardInitInv, KeyboardNextInv, PTL DEF Spec
<1>2. Init => RingInit
  BY DEF Init
<1>3. KeyboardInv /\ [Next]_vars => [RingNext]_rvars
  BY KeyboardOnRing DEF KeyboardInv
<1>4. Spec => RingSpec
  BY <1>1, <1>2, <1>3, PTL DEF Spec, RingSpec
<1> QED BY <1>4, RingIsQueue

----------------------------------------------------------------------------
(* What the scancodes under way will do.  They form one queue, Ahead, from the byte that   *)
(* the main loop has in hand to the keyboard's wire.  Decoding them one after another      *)
(* leads from the driver's modifiers to the keyboard's and from the keys got to the keys   *)
(* shown: an invariant with the run of the decoder as its witness, so that nothing needs   *)
(* to be defined by recursion.                                                             *)

Ahead == InHand \o (Waiting \o wire)

\* kb_handle_scancode as a function of the modifiers m, the keys g so far and the scancode b.
ModsAfter(m, b) ==
  IF b = Prefix THEN [m EXCEPT !.extended = TRUE]
  ELSE IF m.extended THEN [m EXCEPT !.extended = FALSE]
  ELSE IF b.code \in {"lshift", "rshift"} THEN [m EXCEPT !.shift = ~b.up]
  ELSE IF b.code = "ctrl" THEN [m EXCEPT !.ctrl = ~b.up]
  ELSE IF b.code = "alt" THEN [m EXCEPT !.alt = ~b.up]
  ELSE IF b.code = "caps" THEN [m EXCEPT !.caps = IF b.up THEN m.caps ELSE ~m.caps]
  ELSE m
GlyphOf(m, b) == Glyph(b.code, m.extended, m)
Means(m, b)   == /\ b # Prefix /\ ~b.up /\ (m.extended \/ b.code \notin Modifiers)
                 /\ GlyphOf(m, b).face # "none"
GotAfter(m, g, b) == IF Means(m, b) THEN Append(g, GlyphOf(m, b)) ELSE g

Begins(s, t) == Len(s) <= Len(t) /\ \A i \in 1 .. Len(s) : s[i] = t[i]

\* T and K are the modifiers and keys before and after each of the scancodes p.
Track(T, K, p) ==
  /\ T \in [0 .. Len(p) -> Mods] /\ K \in [0 .. Len(p) -> Seq(Glyphs)]
  /\ \A i \in 1 .. Len(p) : /\ T[i] = ModsAfter(T[i - 1], p[i])
                            /\ K[i] = GotAfter(T[i - 1], K[i - 1], p[i])
  /\ \A i \in 0 .. Len(p) : Begins(K[i], K[Len(p)])
Leads(m, g, p, n, h) ==
  \E T, K : Track(T, K, p) /\ T[0] = m /\ K[0] = g /\ T[Len(p)] = n /\ K[Len(p)] = h

\* The modifiers n are the keyboard's, but for two shift keys held at once.
Agrees(n) ==
  /\ ~n.extended /\ n.caps = capsOn /\ n.ctrl = Held("ctrl") /\ n.alt = Held("alt")
  /\ n.shift => Shifts # {}
  /\ ~chorded => (Shifts # {} => n.shift)

Settling ==
  missed = 0 => \E n \in Mods, g, h \in Seq(Glyphs) :
    /\ Leads(mods, g, Ahead, n, h) /\ Agrees(n)
    /\ spilled = 0 => g = Got
    /\ ~chorded => h = shown

Ghosts == /\ delivered \in Seq(Glyphs) /\ shown \in Seq(Glyphs) /\ spilled \in Nat
          /\ capsOn \in BOOLEAN /\ chorded \in BOOLEAN
          /\ ~chorded => \A k, l \in Shifts : k = l
TypingInv == KeyboardInv /\ Ghosts /\ Settling

----------------------------------------------------------------------------
LEMMA StepTypes ==
  ASSUME NEW m \in Mods, NEW g \in Seq(Glyphs), NEW b \in Byte
  PROVE  ModsAfter(m, b) \in Mods /\ GotAfter(m, g, b) \in Seq(Glyphs)
<1>1. b \in Scancodes
  BY KeyboardAssumption
<1>2. b # Prefix => b.code \in Modifiers \cup Prints /\ b.up \in BOOLEAN
  BY <1>1 DEF Scancodes, Prefix
<1>3. m.caps \in BOOLEAN /\ m.extended \in BOOLEAN
  BY DEF Mods
<1>4. ModsAfter(m, b) \in Mods
  <2>1. \A v \in BOOLEAN : /\ [m EXCEPT !.shift = v] \in Mods /\ [m EXCEPT !.ctrl = v] \in Mods
                           /\ [m EXCEPT !.alt = v] \in Mods /\ [m EXCEPT !.caps = v] \in Mods
                           /\ [m EXCEPT !.extended = v] \in Mods
    BY DEF Mods
  <2>2. b # Prefix => (~b.up) \in BOOLEAN /\ (IF b.up THEN m.caps ELSE ~m.caps) \in BOOLEAN
    BY <1>2, <1>3
  <2> QED BY <2>1, <2>2 DEF ModsAfter
<1>5. Means(m, b) => GlyphOf(m, b) \in Glyphs
  BY <1>2, <1>3, GlyphType DEF Means, GlyphOf
<1>6. GotAfter(m, g, b) \in Seq(Glyphs)
  BY <1>5 DEF GotAfter
<1> QED BY <1>4, <1>6

LEMMA BeginsOn ==
  ASSUME NEW s \in Seq(Glyphs), NEW t \in Seq(Glyphs), NEW e \in Glyphs, Begins(s, t)
  PROVE  Begins(s, Append(t, e))
<1>1. Len(s) \in Nat /\ Len(t) \in Nat /\ Len(Append(t, e)) = Len(t) + 1
  OBVIOUS
<1>2. ASSUME NEW i \in 1 .. Len(s) PROVE s[i] = Append(t, e)[i]
  <2>1. i \in 1 .. Len(t) /\ s[i] = t[i]
    BY <1>1 DEF Begins
  <2> QED BY <2>1
<1> QED BY <1>1, <1>2 DEF Begins

\* A step of the decoder takes the first scancode off.
LEMMA LeadsOff ==
  ASSUME NEW m, NEW g, NEW n, NEW h, NEW p \in Seq(Byte), p # <<>>, Leads(m, g, p, n, h)
  PROVE  Leads(ModsAfter(m, Head(p)), GotAfter(m, g, Head(p)), Tail(p), n, h)
<1>1. PICK T, K : Track(T, K, p) /\ T[0] = m /\ K[0] = g /\ T[Len(p)] = n /\ K[Len(p)] = h
  BY DEF Leads
<1> DEFINE q == Tail(p)
           U == [i \in 0 .. Len(q) |-> T[i + 1]]
           L == [i \in 0 .. Len(q) |-> K[i + 1]]
<1>2. /\ Len(p) \in Nat \ {0} /\ Len(q) = Len(p) - 1 /\ Len(q) \in Nat
      /\ \A i \in 1 .. Len(q) : q[i] = p[i + 1]
      /\ Head(p) = p[1]
  BY HeadTailProperties, EmptySeq
<1>3. /\ T \in [0 .. Len(p) -> Mods] /\ K \in [0 .. Len(p) -> Seq(Glyphs)]
      /\ \A i \in 1 .. Len(p) : /\ T[i] = ModsAfter(T[i - 1], p[i])
                                /\ K[i] = GotAfter(T[i - 1], K[i - 1], p[i])
      /\ \A i \in 0 .. Len(p) : Begins(K[i], K[Len(p)])
  BY <1>1 DEF Track
<1> HIDE DEF q
<1>4. U \in [0 .. Len(q) -> Mods] /\ L \in [0 .. Len(q) -> Seq(Glyphs)]
  BY <1>2, <1>3
<1>5. U[Len(q)] = n /\ L[Len(q)] = h
  BY <1>1, <1>2
<1>6. ASSUME NEW i \in 1 .. Len(q)
      PROVE  U[i] = ModsAfter(U[i - 1], q[i]) /\ L[i] = GotAfter(U[i - 1], L[i - 1], q[i])
  <2>1. i + 1 \in 1 .. Len(p) /\ (i + 1) - 1 = i /\ i \in 0 .. Len(q) /\ i - 1 \in 0 .. Len(q) /\ (i - 1) + 1 = i
    BY <1>2
  <2>2. U[i] = T[i + 1] /\ U[i - 1] = T[i] /\ L[i] = K[i + 1] /\ L[i - 1] = K[i]
    BY <2>1
  <2>3. T[i + 1] = ModsAfter(T[i], p[i + 1]) /\ K[i + 1] = GotAfter(T[i], K[i], p[i + 1])
    BY <2>1, <1>3
  <2> QED BY <2>2, <2>3, <1>2
<1>7. \A i \in 0 .. Len(q) : Begins(L[i], L[Len(q)])
  BY <1>1, <1>2, <1>3, <1>5
<1>8. Track(U, L, q)
  BY <1>4, <1>6, <1>7 DEF Track
<1>9. U[0] = ModsAfter(m, Head(p)) /\ L[0] = GotAfter(m, g, Head(p))
  <2>1. 0 \in 0 .. Len(q) /\ 1 \in 1 .. Len(p) /\ 0 + 1 = 1 /\ 1 - 1 = 0
    BY <1>2
  <2>2. U[0] = T[1] /\ L[0] = K[1]
    BY <2>1
  <2>3. T[1] = ModsAfter(T[0], p[1]) /\ K[1] = GotAfter(T[0], K[0], p[1])
    BY <2>1, <1>3
  <2> QED BY <2>2, <2>3, <1>1, <1>2
<1> HIDE DEF U, L
<1>10. Leads(ModsAfter(m, Head(p)), GotAfter(m, g, Head(p)), q, n, h)
  BY <1>5, <1>8, <1>9 DEF Leads
<1> QED BY <1>10 DEF q

\* A scancode that the keyboard sends is decoded after all the others.
LEMMA LeadsOn ==
  ASSUME NEW m, NEW g, NEW n, NEW h, NEW p \in Seq(Byte), NEW b \in Byte, Leads(m, g, p, n, h)
  PROVE  Leads(m, g, Append(p, b), ModsAfter(n, b), GotAfter(n, h, b))
<1>1. PICK T, K : Track(T, K, p) /\ T[0] = m /\ K[0] = g /\ T[Len(p)] = n /\ K[Len(p)] = h
  BY DEF Leads
<1> DEFINE q == Append(p, b)
           x == ModsAfter(n, b)
           y == GotAfter(n, h, b)
           U == [i \in 0 .. Len(q) |-> IF i = Len(q) THEN x ELSE T[i]]
           L == [i \in 0 .. Len(q) |-> IF i = Len(q) THEN y ELSE K[i]]
<1>2. /\ Len(p) \in Nat /\ Len(q) = Len(p) + 1 /\ q[Len(q)] = b
      /\ \A i \in 1 .. Len(p) : q[i] = p[i]
  BY AppendProperties
<1>3. /\ T \in [0 .. Len(p) -> Mods] /\ K \in [0 .. Len(p) -> Seq(Glyphs)]
      /\ \A i \in 1 .. Len(p) : /\ T[i] = ModsAfter(T[i - 1], p[i])
                                /\ K[i] = GotAfter(T[i - 1], K[i - 1], p[i])
      /\ \A i \in 0 .. Len(p) : Begins(K[i], K[Len(p)])
  BY <1>1 DEF Track
<1>4. n \in Mods /\ h \in Seq(Glyphs) /\ x \in Mods /\ y \in Seq(Glyphs)
  <2>1. n \in Mods /\ h \in Seq(Glyphs)
    BY <1>1, <1>2, <1>3
  <2> QED BY <2>1, StepTypes
<1>5. ASSUME NEW s \in Seq(Glyphs), Begins(s, h) PROVE Begins(s, y)
  <2>1. CASE Means(n, b)
    <3>1. GlyphOf(n, b) \in Glyphs
      <4>1. b \in Scancodes
        BY KeyboardAssumption
      <4>2. b.code \in Modifiers \cup Prints
        BY <4>1, <2>1 DEF Means, Scancodes, Prefix
      <4>3. n.extended \in BOOLEAN
        BY <1>4 DEF Mods
      <4> QED BY <4>2, <4>3, GlyphType DEF GlyphOf
    <3>2. y = Append(h, GlyphOf(n, b))
      BY <2>1 DEF GotAfter
    <3> QED BY <3>1, <3>2, <1>4, <1>5, BeginsOn
  <2>2. CASE ~Means(n, b)
    BY <2>2, <1>5 DEF GotAfter
  <2> QED BY <2>1, <2>2
<1> HIDE DEF q, x, y
<1>6. U \in [0 .. Len(q) -> Mods] /\ L \in [0 .. Len(q) -> Seq(Glyphs)]
  BY <1>2, <1>3, <1>4
<1>7. U[Len(q)] = x /\ L[Len(q)] = y
  BY <1>2
<1>8. \A i \in 0 .. Len(p) : U[i] = T[i] /\ L[i] = K[i]
  BY <1>2
<1>9. ASSUME NEW i \in 1 .. Len(q)
      PROVE  U[i] = ModsAfter(U[i - 1], q[i]) /\ L[i] = GotAfter(U[i - 1], L[i - 1], q[i])
  <2>1. CASE i = Len(q)
    <3>1. i - 1 = Len(p) /\ Len(p) \in 0 .. Len(p)
      BY <2>1, <1>2
    <3>2. U[i - 1] = n /\ L[i - 1] = h
      BY <3>1, <1>1, <1>8
    <3> QED BY <2>1, <3>2, <1>2, <1>7 DEF x, y
  <2>2. CASE i # Len(q)
    <3>1. i \in 1 .. Len(p) /\ i \in 0 .. Len(p) /\ i - 1 \in 0 .. Len(p)
      BY <2>2, <1>2
    <3>2. U[i] = T[i] /\ U[i - 1] = T[i - 1] /\ L[i] = K[i] /\ L[i - 1] = K[i - 1] /\ q[i] = p[i]
      BY <3>1, <1>2, <1>8
    <3> QED BY <3>1, <3>2, <1>3
  <2> QED BY <2>1, <2>2
<1>10. ASSUME NEW i \in 0 .. Len(q) PROVE Begins(L[i], L[Len(q)])
  <2>1. CASE i = Len(q)
    BY <2>1, <1>4, <1>7 DEF Begins
  <2>2. CASE i # Len(q)
    <3>1. i \in 0 .. Len(p) /\ L[i] = K[i] /\ K[i] \in Seq(Glyphs) /\ Begins(K[i], h)
      BY <2>2, <1>1, <1>2, <1>3, <1>8
    <3> QED BY <3>1, <1>5, <1>7
  <2> QED BY <2>1, <2>2
<1>11. U[0] = m /\ L[0] = g
  BY <1>1, <1>2, <1>8
<1>12. Track(U, L, q)
  BY <1>6, <1>9, <1>10 DEF Track
<1> HIDE DEF U, L
<1>13. Leads(m, g, q, x, y)
  BY <1>7, <1>11, <1>12 DEF Leads
<1> QED BY <1>13 DEF q, x, y

\* Nothing got is taken back, and with nothing to decode nothing changes.
LEMMA LeadsTo ==
  ASSUME NEW m, NEW g, NEW n, NEW h, NEW p \in Seq(Byte), Leads(m, g, p, n, h)
  PROVE  Begins(g, h) /\ g \in Seq(Glyphs) /\ h \in Seq(Glyphs) /\ (p = <<>> => m = n /\ g = h)
<1>1. PICK T, K : Track(T, K, p) /\ T[0] = m /\ K[0] = g /\ T[Len(p)] = n /\ K[Len(p)] = h
  BY DEF Leads
<1>2. Len(p) \in Nat /\ (p = <<>> => Len(p) = 0)
  OBVIOUS
<1> QED BY <1>1, <1>2 DEF Track

LEMMA LeadsNowhere ==
  ASSUME NEW m \in Mods, NEW g \in Seq(Glyphs)
  PROVE  Leads(m, g, <<>>, m, g)
<1>1. PICK T : T = [i \in 0 .. 0 |-> m]
  OBVIOUS
<1>2. PICK K : K = [i \in 0 .. 0 |-> g]
  OBVIOUS
<1>3. Len(<<>>) = 0
  OBVIOUS
<1>4. T \in [0 .. 0 -> Mods] /\ K \in [0 .. 0 -> Seq(Glyphs)] /\ T[0] = m /\ K[0] = g
  BY <1>1, <1>2
<1>5. Begins(g, g)
  BY DEF Begins
<1>6. Track(T, K, <<>>)
  BY <1>3, <1>4, <1>5 DEF Track
<1> QED BY <1>3, <1>4, <1>6 DEF Leads


----------------------------------------------------------------------------
(* The queue Ahead, step by step. *)

LEMMA AheadType ==
  ASSUME KeyboardInv
  PROVE  /\ RingInv /\ InHand \in Seq(Byte) /\ Waiting \in Seq(Byte) /\ wire \in Seq(Byte)
         /\ Waiting \o wire \in Seq(Byte) /\ Ahead \in Seq(Byte)
<1>1. RingInv /\ wire \in Seq(Byte)
  BY DEF KeyboardInv, TypeOK
<1>2. InHand \in Seq(Byte) /\ Waiting \in Seq(Byte)
  BY <1>1, QueuedType
<1>3. Waiting \o wire \in Seq(Byte)
  BY <1>1, <1>2, ConcatProperties
<1> QED BY <1>1, <1>2, <1>3, ConcatProperties DEF Ahead

LEMMA AheadInSeq == KeyboardInv => Ahead \in Seq(Byte)
  BY AheadType

LEMMA AheadGrows ==
  ASSUME KeyboardInv, NEW s \in Seq(Byte), wire' = wire \o s, UNCHANGED rvars
  PROVE  Ahead' = Ahead \o s
<1>1. InHand' = InHand /\ Waiting' = Waiting
  BY DEF rvars, InHand, Waiting, Contents, Used
<1>2. InHand \in Seq(Byte) /\ Waiting \in Seq(Byte) /\ wire \in Seq(Byte) /\ Waiting \o wire \in Seq(Byte)
  BY AheadType
<1>3. Waiting \o (wire \o s) = (Waiting \o wire) \o s
  BY <1>2, Regroup, Zenon
<1>4. InHand \o ((Waiting \o wire) \o s) = (InHand \o (Waiting \o wire)) \o s
  <2>1. PICK w \in Seq(Byte) : w = Waiting \o wire
    BY <1>2, Zenon
  <2>2. InHand \in Seq(Byte)
    BY <1>2
  <2>3. InHand \o (w \o s) = (InHand \o w) \o s
    BY <2>2, Regroup
  <2> QED BY <2>1, <2>3, Zenon
<1> QED BY <1>1, <1>3, <1>4 DEF Ahead

LEMMA AheadStored ==
  ASSUME KeyboardInv, Interrupt, missed' = 0
  PROVE  Ahead' = Ahead /\ missed = 0
<1>1. wire \in Seq(Byte) /\ wire # <<>> /\ missed \in Nat
  BY DEF Interrupt, KeyboardInv, TypeOK, RingOK
<1>2. Head(wire) \in Byte /\ Put(Head(wire)) /\ wire' = Tail(wire)
  BY <1>1, HeadTailProperties DEF Interrupt
<1>3. missed' = missed
  BY <1>1, <1>2 DEF Put
<1>4. InHand' = InHand /\ Waiting' = Append(Waiting, Head(wire))
  BY <1>2, <1>3, AheadType, PutQueued
<1>5. Append(Waiting, Head(wire)) \o Tail(wire) = Waiting \o wire
  BY <1>1, AheadType, Shifted
<1> QED BY <1>2, <1>3, <1>4, <1>5 DEF Ahead

LEMMA AheadReset ==
  ASSUME KeyboardInv, SetIrqMode, missed' = 0
  PROVE  Ahead' = Ahead /\ missed = 0
<1>1. wire' = wire /\ (ResetTail \/ ResetHead) /\ missed \in Nat
  BY DEF SetIrqMode, KeyboardInv, TypeOK, RingOK
<1>2. missed' = missed
  BY <1>1, AheadType, ResetQueued
<1>3. InHand' = InHand /\ Waiting' = Waiting
  BY <1>1, <1>2, AheadType, ResetQueued
<1> QED BY <1>1, <1>2, <1>3 DEF Ahead

LEMMA AheadTaken ==
  ASSUME KeyboardInv, See \/ Read \/ Advance, wire' = wire
  PROVE  Ahead' = Ahead /\ missed' = missed
  BY AheadType, TakenQueued DEF Ahead

LEMMA AheadHandled ==
  ASSUME KeyboardInv, Handled, wire' = wire
  PROVE  Ahead # <<>> /\ Head(Ahead) = byte /\ Ahead' = Tail(Ahead) /\ missed' = missed
<1>1. byte \in Byte
  BY DEF KeyboardInv, TypeOK, RingOK
<1>2. InHand = <<byte>> /\ InHand' = <<>> /\ Waiting' = Waiting /\ missed' = missed
  BY HandledQueued
<1>3. PICK s \in Seq(Byte) : s = Waiting \o wire
  BY AheadType
<1>4. <<byte>> \o s # <<>> /\ Head(<<byte>> \o s) = byte /\ Tail(<<byte>> \o s) = s
  BY <1>1, PrependOne
<1>5. <<>> \o s = s
  BY ConcatEmptySeq
<1> QED BY <1>2, <1>3, <1>4, <1>5 DEF Ahead

----------------------------------------------------------------------------
(* What a key's scancodes do to the modifiers and to the keys got. *)

Sends(k, u) == (IF k.ext THEN <<Prefix>> ELSE <<>>) \o <<[code |-> k.code, up |-> u]>>

ModsThen(n, k, u)   == IF k.ext THEN n ELSE ModsAfter(n, [code |-> k.code, up |-> u])
GotThen(n, h, k, u) ==
  IF ~u /\ (k.ext \/ k.code \notin Modifiers) /\ Glyph(k.code, k.ext, n).face # "none"
  THEN Append(h, Glyph(k.code, k.ext, n)) ELSE h

LEMMA Sent ==
  ASSUME KeyboardInv, NEW k \in Keys, NEW u \in BOOLEAN, wire' = wire \o Sends(k, u), UNCHANGED rvars
  PROVE  LET b == [code |-> k.code, up |-> u]
         IN  Ahead' = IF k.ext THEN Append(Append(Ahead, Prefix), b) ELSE Append(Ahead, b)
<1> DEFINE b == [code |-> k.code, up |-> u]
<1>1. k.code \in Modifiers \cup Prints /\ k.ext \in BOOLEAN /\ Byte = Scancodes
  BY KeyboardAssumption
<1>2. b \in Byte /\ Prefix \in Byte
  BY <1>1 DEF Scancodes, Prefix
<1>3. PICK e \in Byte : e = b
  BY <1>2
<1>4. <<e>> \in Seq(Byte) /\ <<Prefix>> \in Seq(Byte) /\ <<>> \in Seq(Byte)
  BY <1>2
<1>5. Append(Ahead, e) = Ahead \o <<e>> /\ Append(Ahead, Prefix) = Ahead \o <<Prefix>> /\ Append(Ahead, Prefix) \in Seq(Byte)
  BY <1>2, AheadType, AppendIsConcat, AppendProperties
<1>6. CASE k.ext
  <2>1. Sends(k, u) = <<Prefix>> \o <<e>> /\ <<Prefix>> \o <<e>> \in Seq(Byte)
    BY <1>3, <1>4, <1>6, ConcatProperties DEF Sends
  <2>2. Ahead' = Ahead \o (<<Prefix>> \o <<e>>)
    BY <2>1, AheadGrows
  <2>3. Ahead \o (<<Prefix>> \o <<e>>) = (Ahead \o <<Prefix>>) \o <<e>>
    <3>1. Ahead \in Seq(Byte)
      BY AheadType
    <3> QED BY <1>4, <3>1, Regroup, Zenon
  <2>4. Append(Append(Ahead, Prefix), e) = Append(Ahead, Prefix) \o <<e>>
    BY <1>5, AppendIsConcat, Zenon
  <2>5. Append(Ahead, Prefix) \o <<e>> = (Ahead \o <<Prefix>>) \o <<e>>
    BY <1>5, Zenon
  <2>6. Ahead' = Append(Append(Ahead, Prefix), e)
    BY <2>2, <2>3, <2>4, <2>5, Zenon
  <2> QED BY <2>6, <1>3, <1>6
<1>7. CASE ~k.ext
  <2>1. Sends(k, u) = <<e>>
    BY <1>3, <1>4, <1>7, ConcatEmptySeq DEF Sends
  <2>2. Ahead' = Ahead \o <<e>>
    BY <2>1, <1>4, AheadGrows
  <2> QED BY <2>2, <1>3, <1>5, <1>7
<1> QED BY <1>6, <1>7

LEMMA Passes ==
  ASSUME KeyboardInv, NEW k \in Keys, NEW u \in BOOLEAN, wire' = wire \o Sends(k, u), UNCHANGED rvars,
         NEW m, NEW g, NEW n \in Mods, NEW h \in Seq(Glyphs), ~n.extended, Leads(m, g, Ahead, n, h)
  PROVE  Leads(m, g, Ahead', ModsThen(n, k, u), GotThen(n, h, k, u))
<1> DEFINE b == [code |-> k.code, up |-> u]
<1>1. k.code \in Modifiers \cup Prints /\ k.ext \in BOOLEAN /\ Byte = Scancodes
  BY KeyboardAssumption
<1>2. b \in Byte /\ Prefix \in Byte /\ b # Prefix
  BY <1>1 DEF Scancodes, Prefix, Modifiers, Prints
<1>3. CASE ~k.ext
  <2>1. Leads(m, g, Append(Ahead, b), ModsAfter(n, b), GotAfter(n, h, b))
    BY <1>2, AheadType, LeadsOn
  <2>2. GotAfter(n, h, b) = GotThen(n, h, k, u)
    <3>1. b.code = k.code /\ b.up = u /\ n.extended = FALSE /\ k.ext = FALSE
      BY <1>1, <1>3 DEF Mods
    <3>2. GlyphOf(n, b) = Glyph(k.code, k.ext, n)
      BY <3>1, Zenon DEF GlyphOf
    <3>3. Means(n, b) <=> ~u /\ (k.ext \/ k.code \notin Modifiers) /\ Glyph(k.code, k.ext, n).face # "none"
      BY <1>2, <3>1, <3>2, Zenon DEF Means
    <3> QED BY <3>2, <3>3, Zenon DEF GotAfter, GotThen
  <2>3. ModsAfter(n, b) = ModsThen(n, k, u)
    BY <1>3 DEF ModsThen
  <2> QED BY <2>1, <2>2, <2>3, <1>3, Sent
<1>4. CASE k.ext
  <2>1. PICK q \in Mods : q = [n EXCEPT !.extended = TRUE]
    BY DEF Mods
  <2>2. ModsAfter(n, Prefix) = q /\ GotAfter(n, h, Prefix) = h
    BY <2>1 DEF ModsAfter, GotAfter, Means
  <2>3. PICK r \in Seq(Byte) : r = Append(Ahead, Prefix)
    <3>1. Append(Ahead, Prefix) \in Seq(Byte)
      BY <1>2, AheadType, AppendProperties
    <3> QED BY <3>1, Zenon
  <2>4. Leads(m, g, r, q, h)
    <3>1. Leads(m, g, Append(Ahead, Prefix), ModsAfter(n, Prefix), GotAfter(n, h, Prefix))
      BY <1>2, AheadType, LeadsOn
    <3> QED BY <3>1, <2>2, <2>3
  <2>5. Leads(m, g, Append(r, b), ModsAfter(q, b), GotAfter(q, h, b))
    BY <1>2, <2>4, LeadsOn
  <2>6. q.extended = TRUE
    BY <2>1 DEF Mods
  <2>7. ModsAfter(q, b) = n
    <3>1. ModsAfter(q, b) = [q EXCEPT !.extended = FALSE]
      BY <1>2, <2>6 DEF ModsAfter
    <3>2. [q EXCEPT !.extended = FALSE] = n
      BY <2>1 DEF Mods
    <3> QED BY <3>1, <3>2
  <2>8. GotAfter(q, h, b) = GotThen(n, h, k, u)
    <3>1. Glyph(k.code, TRUE, q) = Glyph(k.code, TRUE, n)
      BY DEF Glyph
    <3> QED BY <3>1, <1>2, <1>4, <2>6 DEF GotAfter, GotThen, Means, GlyphOf
  <2>9. ModsThen(n, k, u) = n
    BY <1>4 DEF ModsThen
  <2>10. Ahead' = Append(r, b)
    BY <1>4, <2>3, Sent
  <2> QED BY <2>5, <2>7, <2>8, <2>9, <2>10
<1> QED BY <1>1, <1>3, <1>4

\* kb_handle_scancode does what the functions say, unless kb_buf is full.
LEMMA Decoded ==
  ASSUME KeyboardInv, NEW b \in Byte, Decode(b), spilled \in Nat
  PROVE  /\ mods' = ModsAfter(mods, b)
         /\ spilled' = 0 => /\ spilled = 0
                            /\ keys' = IF Means(mods, b) THEN Append(keys, GlyphOf(mods, b)) ELSE keys
<1>1. mods \in Mods /\ mods.extended \in BOOLEAN /\ b \in Scancodes
  BY KeyboardAssumption DEF KeyboardInv, TypeOK, Mods
<1>2. b # Prefix => b.code \in Modifiers \cup Prints /\ b.up \in BOOLEAN
  BY <1>1 DEF Scancodes, Prefix
<1>3. ASSUME NEW g, Enqueue(g), spilled' = 0
      PROVE  spilled = 0 /\ keys' = IF g.face = "none" THEN keys ELSE Append(keys, g)
  BY <1>3 DEF Enqueue
<1>4. CASE b = Prefix
  BY <1>4 DEF Decode, ModsAfter, Means
<1>5. CASE b # Prefix /\ mods.extended
  <2>1. mods' = [mods EXCEPT !.extended = FALSE] /\ IF b.up THEN UNCHANGED <<keys, spilled>> ELSE Enqueue(Glyph(b.code, TRUE, mods))
    BY <1>5 DEF Decode
  <2>2. GlyphOf(mods, b) = Glyph(b.code, TRUE, mods)
    BY <1>1, <1>5 DEF GlyphOf
  <2> QED BY <2>1, <2>2, <1>3, <1>5 DEF ModsAfter, Means
<1>6. CASE b # Prefix /\ ~mods.extended /\ b.code \in Modifiers
  <2>1. mods' = SetModifier(b) /\ UNCHANGED <<keys, spilled>>
    BY <1>6 DEF Decode
  <2>2. SetModifier(b) = ModsAfter(mods, b)
    BY <1>1, <1>6 DEF SetModifier, ModsAfter, Modifiers
  <2> QED BY <2>1, <2>2, <1>6 DEF Means
<1>7. CASE b # Prefix /\ ~mods.extended /\ b.code \notin Modifiers
  <2>1. mods' = mods /\ IF b.up THEN UNCHANGED <<keys, spilled>> ELSE Enqueue(Glyph(b.code, FALSE, mods))
    BY <1>7 DEF Decode
  <2>2. GlyphOf(mods, b) = Glyph(b.code, FALSE, mods)
    BY <1>1, <1>7 DEF GlyphOf
  <2>3. ModsAfter(mods, b) = mods
    BY <1>7 DEF ModsAfter, Modifiers
  <2> QED BY <2>1, <2>2, <2>3, <1>3, <1>7 DEF Means
<1> QED BY <1>4, <1>5, <1>6, <1>7


----------------------------------------------------------------------------
(* The invariant. *)

LEMMA TypingInit == Init => TypingInv
<1> SUFFICES ASSUME Init PROVE TypingInv
  OBVIOUS
<1>1. KeyboardInv
  BY KeyboardInitInv
<1>2. stage = "idle" /\ wire = <<>> /\ mods = Released /\ keys = <<>> /\ delivered = <<>> /\ shown = <<>> /\ spilled = 0
      /\ down = {} /\ capsOn = FALSE /\ chorded = FALSE
  BY DEF Init, RingInit
<1>3. <<>> \in Seq(Glyphs) /\ <<>> \in Seq(Byte) /\ <<>> \o <<>> = <<>>
  BY EmptySeq, ConcatEmptySeq
<1>4. Shifts = {}
  BY <1>2 DEF Shifts
<1>5. Ghosts
  BY <1>2, <1>3, <1>4 DEF Ghosts
<1>6. Ahead = <<>>
  <2>1. Contents = <<>>
    BY ContentsIs, EmptySpan DEF Init, RingInit, Between
  <2> QED BY <1>2, <1>3, <2>1 DEF Ahead, InHand, Waiting
<1>7. Got = <<>>
  BY <1>2, <1>3 DEF Got
<1>8. mods \in Mods
  BY <1>1 DEF KeyboardInv, TypeOK
<1>9. Agrees(mods)
  <2>1. Held("ctrl") = FALSE /\ Held("alt") = FALSE
    BY <1>2 DEF Held
  <2>2. mods.ctrl = FALSE /\ mods.alt = FALSE /\ mods.caps = FALSE /\ mods.shift = FALSE /\ mods.extended = FALSE
    BY <1>2 DEF Released
  <2> QED BY <1>2, <1>4, <2>1, <2>2 DEF Agrees
<1>10. Leads(mods, <<>>, Ahead, mods, <<>>)
  BY <1>3, <1>6, <1>8, LeadsNowhere
<1> QED BY <1>1, <1>2, <1>3, <1>5, <1>7, <1>8, <1>9, <1>10 DEF TypingInv, Settling

\* A step that hands a scancode on, or a key, without decoding any.
LEMMA SettlingStays ==
  ASSUME TypingInv, UNCHANGED <<mods, user, spilled>>, Got' = Got,
         missed' = 0 => missed = 0 /\ Ahead' = Ahead
  PROVE  Settling'
<1> SUFFICES ASSUME missed' = 0
             PROVE  \E n \in Mods, g, h \in Seq(Glyphs) :
                      /\ Leads(mods', g, Ahead', n, h) /\ Agrees(n)'
                      /\ spilled' = 0 => g = Got'
                      /\ ~chorded' => h = shown'
  BY DEF Settling
<1>1. PICK n \in Mods, g \in Seq(Glyphs), h \in Seq(Glyphs) :
        /\ Leads(mods, g, Ahead, n, h) /\ Agrees(n)
        /\ spilled = 0 => g = Got
        /\ ~chorded => h = shown
  BY DEF TypingInv, Settling
<1>2. Agrees(n)'
  BY <1>1 DEF user, Agrees, Shifts, Held
<1> QED BY <1>1, <1>2 DEF user

LEMMA DrainTyping == ASSUME TypingInv, Drain PROVE Settling'
<1>1. KeyboardInv /\ spilled \in Nat /\ delivered \in Seq(Glyphs) /\ keys \in Seq(Glyphs) /\ byte \in Byte
  BY DEF TypingInv, Ghosts, KeyboardInv, TypeOK, RingOK
<1>2. wire' = wire /\ UNCHANGED user /\ delivered' = delivered
  BY DEF Drain
<1>3. CASE (See \/ Read \/ Advance) /\ UNCHANGED <<mods, keys, spilled>>
  <2>1. Ahead' = Ahead /\ missed' = missed
    BY <1>1, <1>2, <1>3, AheadTaken
  <2>2. Got' = Got
    BY <1>2, <1>3 DEF Got
  <2> QED BY <1>2, <1>3, <2>1, <2>2, SettlingStays
<1>4. CASE Handled /\ Decode(byte)
  <2>1. Ahead # <<>> /\ Head(Ahead) = byte /\ Ahead' = Tail(Ahead) /\ missed' = missed
    BY <1>1, <1>2, <1>4, AheadHandled
  <2>2. /\ mods' = ModsAfter(mods, byte)
        /\ spilled' = 0 => /\ spilled = 0
                           /\ keys' = IF Means(mods, byte) THEN Append(keys, GlyphOf(mods, byte)) ELSE keys
    BY <1>1, <1>4, Decoded
  <2> SUFFICES ASSUME missed' = 0
               PROVE  \E n \in Mods, g, h \in Seq(Glyphs) :
                        /\ Leads(mods', g, Ahead', n, h) /\ Agrees(n)'
                        /\ spilled' = 0 => g = Got'
                        /\ ~chorded' => h = shown'
    BY DEF Settling
  <2>3. PICK n \in Mods, g \in Seq(Glyphs), h \in Seq(Glyphs) :
          /\ Leads(mods, g, Ahead, n, h) /\ Agrees(n)
          /\ spilled = 0 => g = Got
          /\ ~chorded => h = shown
    BY <2>1 DEF TypingInv, Settling
  <2>4. mods \in Mods /\ Ahead \in Seq(Byte)
    BY <1>1, AheadType DEF KeyboardInv, TypeOK
  <2>5. Leads(mods', GotAfter(mods, g, byte), Ahead', n, h)
    BY <2>1, <2>2, <2>3, <2>4, LeadsOff
  <2>6. GotAfter(mods, g, byte) \in Seq(Glyphs)
    BY <1>1, <2>3, <2>4, StepTypes
  <2>7. ASSUME spilled' = 0 PROVE GotAfter(mods, g, byte) = Got'
    <3>1. g = delivered \o keys
      BY <2>2, <2>3, <2>7 DEF Got
    <3>2. CASE Means(mods, byte)
      <4>1. byte \in Scancodes /\ mods.extended \in BOOLEAN
        BY <1>1, <2>4, KeyboardAssumption DEF Mods
      <4>2. byte.code \in Modifiers \cup Prints
        BY <3>2, <4>1 DEF Means, Scancodes, Prefix
      <4>3. GlyphOf(mods, byte) \in Glyphs
        BY <4>1, <4>2, GlyphType DEF GlyphOf
      <4>4. delivered \o Append(keys, GlyphOf(mods, byte)) = Append(delivered \o keys, GlyphOf(mods, byte))
        BY <1>1, <4>3, AppendOut
      <4> QED BY <1>2, <2>2, <2>7, <3>1, <3>2, <4>4 DEF Got, GotAfter
    <3>3. CASE ~Means(mods, byte)
      BY <1>2, <2>2, <2>7, <3>1, <3>3 DEF Got, GotAfter
    <3> QED BY <3>2, <3>3
  <2>8. Agrees(n)' /\ (~chorded' => h = shown')
    BY <1>2, <2>3 DEF user, Agrees, Shifts, Held
  <2> QED BY <2>3, <2>5, <2>6, <2>7, <2>8
<1> QED BY <1>3, <1>4 DEF Drain

LEMMA StrikeTyping ==
  ASSUME TypingInv, NEW k \in Keys, Strike(k)
  PROVE  Settling'
<1>1. KeyboardInv /\ shown \in Seq(Glyphs) /\ chorded \in BOOLEAN /\ capsOn \in BOOLEAN
  BY DEF TypingInv, Ghosts
<1>2. /\ UNCHANGED rvars /\ wire' = wire \o Sends(k, FALSE) /\ mods' = mods /\ Got' = Got /\ spilled' = spilled
      /\ down' = down \cup {k} /\ missed' = missed
  BY DEF Strike, Make, Sends, Got, rvars
<1>3. k \in [code : Modifiers \cup Prints, ext : BOOLEAN] /\ k.code \in Modifiers \cup Prints /\ k.ext \in BOOLEAN
      /\ k = [code |-> k.code, ext |-> k.ext]
  BY KeyboardAssumption
<1> SUFFICES ASSUME missed' = 0
             PROVE  \E n \in Mods, g, h \in Seq(Glyphs) :
                      /\ Leads(mods', g, Ahead', n, h) /\ Agrees(n)'
                      /\ spilled' = 0 => g = Got'
                      /\ ~chorded' => h = shown'
  BY DEF Settling
<1>4. PICK n \in Mods, g \in Seq(Glyphs), h \in Seq(Glyphs) :
        /\ Leads(mods, g, Ahead, n, h) /\ Agrees(n)
        /\ spilled = 0 => g = Got
        /\ ~chorded => h = shown
  BY <1>2 DEF TypingInv, Settling
<1> DEFINE b == [code |-> k.code, up |-> FALSE]
           x == ModsThen(n, k, FALSE)
           y == GotThen(n, h, k, FALSE)
<1>5. Leads(mods', g, Ahead', x, y)
  BY <1>1, <1>2, <1>4, Passes DEF Agrees
<1>6. x \in Mods
  <2>1. b \in Byte
    BY <1>3, KeyboardAssumption DEF Scancodes
  <2> QED BY <1>4, <2>1, StepTypes DEF ModsThen
<1>7. y \in Seq(Glyphs)
  BY <1>3, <1>4, GlyphType, AppendProperties DEF GotThen
<1>8. ~chorded' => ~chorded
  BY Zenon DEF Strike
<1>9. Agrees(x)'
  <2>1. Shifts' = Shifts \cup (IF k.code \in {"lshift", "rshift"} /\ ~k.ext THEN {k} ELSE {})
    BY <1>2 DEF Shifts
  <2>2. \A c : Held(c)' <=> Held(c) \/ (k.code = c /\ ~k.ext)
    BY <1>2, <1>3 DEF Held
  <2>3. capsOn' = IF k.code = "caps" /\ ~k.ext THEN ~capsOn ELSE capsOn
    BY DEF Strike
  <2>4. CASE k.ext \/ k.code \notin Modifiers
    <3>1. b # Prefix /\ ~n.extended
      BY <1>3, <1>4 DEF Prefix, Modifiers, Prints, Agrees
    <3>2. x = n
      BY <2>4, <3>1 DEF ModsThen, ModsAfter, Modifiers
    <3>3. Shifts' = Shifts /\ capsOn' = capsOn /\ Held("ctrl")' = Held("ctrl") /\ Held("alt")' = Held("alt")
      BY <2>1, <2>2, <2>3, <2>4 DEF Modifiers, Held
    <3> QED BY <1>4, <1>8, <3>2, <3>3 DEF Agrees
  <2>5. CASE ~k.ext /\ k.code \in Modifiers
    <3>1. b # Prefix /\ ~n.extended
      BY <1>3, <1>4, <2>5 DEF Prefix, Modifiers, Agrees
    <3>2. x = ModsAfter(n, b)
      BY <2>5 DEF ModsThen
    <3>3. /\ x.extended = n.extended
          /\ x.shift = IF k.code \in {"lshift", "rshift"} THEN TRUE ELSE n.shift
          /\ x.ctrl = IF k.code = "ctrl" THEN TRUE ELSE n.ctrl
          /\ x.alt = IF k.code = "alt" THEN TRUE ELSE n.alt
          /\ x.caps = IF k.code = "caps" THEN ~n.caps ELSE n.caps
      BY <2>5, <3>1, <3>2 DEF ModsAfter, Modifiers, Mods
    <3>4. Held("ctrl") \in BOOLEAN /\ Held("alt") \in BOOLEAN /\ Held("ctrl")' \in BOOLEAN /\ Held("alt")' \in BOOLEAN
      BY DEF Held
    <3>5. x.ctrl = Held("ctrl")' /\ x.alt = Held("alt")' /\ x.caps = capsOn'
      BY <1>4, <2>2, <2>3, <2>5, <3>3, <3>4 DEF Agrees
    <3>6. ~x.extended /\ (x.shift => Shifts' # {}) /\ (~chorded' => (Shifts' # {} => x.shift))
      BY <1>4, <1>8, <2>1, <2>5, <3>3 DEF Agrees
    <3> QED BY <3>5, <3>6 DEF Agrees
  <2> QED BY <1>3, <2>4, <2>5
<1>10. ASSUME ~chorded' PROVE y = shown'
  <2>1. ~chorded /\ h = shown
    BY <1>4, <1>8, <1>10
  <2>2. Glyph(k.code, k.ext, n) = Glyph(k.code, k.ext, Physical)
    <3>1. n.shift \in BOOLEAN /\ n.ctrl \in BOOLEAN /\ n.caps \in BOOLEAN
      BY DEF Mods
    <3>2. n.shift = Physical.shift /\ n.ctrl = Physical.ctrl /\ n.caps = Physical.caps
      BY <1>4, <2>1, <3>1 DEF Agrees, Physical
    <3> QED BY <3>2, Zenon DEF Glyph
  <2>3. shown' = IF k.code \in Prints /\ Glyph(k.code, k.ext, Physical).face # "none"
                 THEN Append(shown, Glyph(k.code, k.ext, Physical)) ELSE shown
    BY DEF Strike
  <2>4. k.ext /\ k.code \in Modifiers => Glyph(k.code, k.ext, n).face = "none"
    BY DEF Glyph, Modifiers
  <2>5. k.code \in Prints <=> k.code \notin Modifiers
    BY <1>3 DEF Prints, Modifiers
  <2> QED BY <2>1, <2>2, <2>3, <2>4, <2>5 DEF GotThen
<1> HIDE DEF x, y
<1> QED BY <1>2, <1>4, <1>5, <1>6, <1>7, <1>9, <1>10

LEMMA ReleaseTyping ==
  ASSUME TypingInv, NEW k \in Keys, Release(k)
  PROVE  Settling'
<1>1. KeyboardInv /\ (~chorded => \A i, j \in Shifts : i = j)
  BY DEF TypingInv, Ghosts
<1>2. /\ UNCHANGED rvars /\ wire' = wire \o Sends(k, TRUE) /\ mods' = mods /\ Got' = Got /\ spilled' = spilled
      /\ k \in down /\ down' = down \ {k} /\ missed' = missed /\ capsOn' = capsOn /\ shown' = shown /\ chorded' = chorded
  BY DEF Release, Break, Sends, Got, rvars
<1>3. k \in [code : Modifiers \cup Prints, ext : BOOLEAN] /\ k.code \in Modifiers \cup Prints /\ k.ext \in BOOLEAN
      /\ k = [code |-> k.code, ext |-> k.ext]
  BY KeyboardAssumption
<1> SUFFICES ASSUME missed' = 0
             PROVE  \E n \in Mods, g, h \in Seq(Glyphs) :
                      /\ Leads(mods', g, Ahead', n, h) /\ Agrees(n)'
                      /\ spilled' = 0 => g = Got'
                      /\ ~chorded' => h = shown'
  BY DEF Settling
<1>4. PICK n \in Mods, g \in Seq(Glyphs), h \in Seq(Glyphs) :
        /\ Leads(mods, g, Ahead, n, h) /\ Agrees(n)
        /\ spilled = 0 => g = Got
        /\ ~chorded => h = shown
  BY <1>2 DEF TypingInv, Settling
<1> DEFINE b == [code |-> k.code, up |-> TRUE]
           x == ModsThen(n, k, TRUE)
<1>5. Leads(mods', g, Ahead', x, h)
  <2>1. GotThen(n, h, k, TRUE) = h
    BY DEF GotThen
  <2> QED BY <1>1, <1>2, <1>4, <2>1, Passes DEF Agrees
<1>6. x \in Mods
  <2>1. b \in Byte
    BY <1>3, KeyboardAssumption DEF Scancodes
  <2> QED BY <1>4, <2>1, StepTypes DEF ModsThen
<1>7. Agrees(x)'
  <2>1. Shifts' = Shifts \ (IF k.code \in {"lshift", "rshift"} /\ ~k.ext THEN {k} ELSE {})
    BY <1>2 DEF Shifts
  <2>2. \A c : Held(c)' <=> Held(c) /\ ~(k.code = c /\ ~k.ext)
    BY <1>2, <1>3 DEF Held
  <2>3. CASE k.ext \/ k.code \notin Modifiers
    <3>1. b # Prefix /\ ~n.extended
      BY <1>3, <1>4 DEF Prefix, Modifiers, Prints, Agrees
    <3>2. x = n
      BY <2>3, <3>1 DEF ModsThen, ModsAfter, Modifiers
    <3>3. Shifts' = Shifts /\ Held("ctrl")' = Held("ctrl") /\ Held("alt")' = Held("alt")
      BY <2>1, <2>2, <2>3 DEF Modifiers, Held
    <3> QED BY <1>2, <1>4, <3>2, <3>3 DEF Agrees
  <2>4. CASE ~k.ext /\ k.code \in Modifiers
    <3>1. b # Prefix /\ ~n.extended
      BY <1>3, <1>4, <2>4 DEF Prefix, Modifiers, Agrees
    <3>2. x = ModsAfter(n, b)
      BY <2>4 DEF ModsThen
    <3>3. /\ x.extended = n.extended
          /\ x.shift = IF k.code \in {"lshift", "rshift"} THEN FALSE ELSE n.shift
          /\ x.ctrl = IF k.code = "ctrl" THEN FALSE ELSE n.ctrl
          /\ x.alt = IF k.code = "alt" THEN FALSE ELSE n.alt
          /\ x.caps = n.caps
      BY <2>4, <3>1, <3>2 DEF ModsAfter, Modifiers, Mods
    <3>4. Held("ctrl") \in BOOLEAN /\ Held("alt") \in BOOLEAN /\ Held("ctrl")' \in BOOLEAN /\ Held("alt")' \in BOOLEAN
      BY DEF Held
    <3>5. x.ctrl = Held("ctrl")' /\ x.alt = Held("alt")' /\ x.caps = capsOn'
      BY <1>2, <1>4, <2>2, <2>4, <3>3, <3>4 DEF Agrees
    <3>6. ASSUME k.code \in {"lshift", "rshift"}, ~chorded PROVE Shifts' = {}
      <4>1. k \in Shifts
        BY <1>2, <2>4, <3>6 DEF Shifts
      <4> QED BY <1>1, <2>1, <2>4, <3>6, <4>1
    <3>7. ~x.extended /\ (x.shift => Shifts' # {}) /\ (~chorded' => (Shifts' # {} => x.shift))
      BY <1>2, <1>4, <2>1, <2>4, <3>3, <3>6 DEF Agrees
    <3> QED BY <3>5, <3>7 DEF Agrees
  <2> QED BY <1>3, <2>3, <2>4
<1> HIDE DEF x
<1> QED BY <1>2, <1>4, <1>5, <1>6, <1>7

LEMMA GhostsKept == ASSUME TypingInv, [Next]_vars PROVE Ghosts'
<1> USE DEF TypingInv, Ghosts
<1>1. keys \in Seq(Glyphs)
  BY DEF KeyboardInv, TypeOK
<1>2. ASSUME NEW k \in Keys, Strike(k) PROVE Ghosts'
  <2>1. k.code \in Modifiers \cup Prints /\ k.ext \in BOOLEAN
    BY KeyboardAssumption
  <2>2. Glyph(k.code, k.ext, Physical) \in Glyphs
    BY <2>1, GlyphType
  <2>3. shown' \in Seq(Glyphs)
    BY <1>2, <2>2, AppendProperties DEF Strike
  <2>4. capsOn' \in BOOLEAN /\ chorded' \in BOOLEAN
    BY <1>2 DEF Strike
  <2>5. ASSUME ~chorded' PROVE \A i, j \in Shifts' : i = j
    <3>1. ~chorded /\ (k.code \in {"lshift", "rshift"} /\ ~k.ext => Shifts \ {k} = {})
      BY <1>2, <2>5 DEF Strike
    <3>2. Shifts' = Shifts \cup (IF k.code \in {"lshift", "rshift"} /\ ~k.ext THEN {k} ELSE {})
      BY <1>2 DEF Strike, Shifts
    <3> QED BY <3>1, <3>2
  <2> QED BY <1>2, <2>3, <2>4, <2>5 DEF Strike, rvars
<1>3. ASSUME NEW k \in Keys, Release(k) PROVE Ghosts'
  <2>1. Shifts' \subseteq Shifts
    BY <1>3 DEF Release, Shifts
  <2> QED BY <1>3, <2>1 DEF Release, rvars
<1>4. CASE Interrupt
  BY <1>4 DEF Interrupt, Put, user, Shifts
<1>5. CASE SetIrqMode
  BY <1>5 DEF SetIrqMode, ResetTail, ResetHead, user, Shifts
<1>6. CASE Drain
  <2>1. spilled' \in Nat
    <3>1. ASSUME NEW g, Enqueue(g) PROVE spilled' \in Nat
      BY <3>1 DEF Enqueue
    <3>2. CASE UNCHANGED spilled
      BY <3>2
    <3>3. CASE Decode(byte)
      <4>1. UNCHANGED spilled \/ \E g : Enqueue(g)
        BY <3>3, Zenon DEF Decode
      <4> QED BY <3>1, <3>2, <4>1
    <3> QED BY <1>6, <3>2, <3>3 DEF Drain
  <2> QED BY <1>6, <2>1 DEF Drain, user, Shifts
<1>7. CASE Available
  BY <1>7 DEF Available, user, Shifts
<1>8. CASE Poll
  <2>1. Head(keys) \in Glyphs
    BY <1>1, <1>8, HeadTailProperties DEF Poll
  <2>2. delivered' \in Seq(Glyphs)
    BY <1>8, <2>1, AppendProperties DEF Poll
  <2> QED BY <1>8, <2>2 DEF Poll, user, Shifts
<1>9. CASE UNCHANGED vars
  BY <1>9 DEF vars, rvars, user, Shifts
<1> QED BY <1>2, <1>3, <1>4, <1>5, <1>6, <1>7, <1>8, <1>9 DEF Next, Main

LEMMA TypingNext == TypingInv /\ [Next]_vars => TypingInv'
<1> SUFFICES ASSUME TypingInv, [Next]_vars PROVE TypingInv'
  OBVIOUS
<1>0. KeyboardInv' /\ Ghosts' /\ KeyboardInv /\ keys \in Seq(Glyphs) /\ delivered \in Seq(Glyphs) /\ missed \in Nat
  BY KeyboardNextInv, GhostsKept DEF TypingInv, Ghosts, KeyboardInv, TypeOK, RingOK
<1> SUFFICES Settling'
  BY <1>0 DEF TypingInv
<1>1. CASE \E k \in Keys : Strike(k) \/ Release(k)
  BY <1>1, StrikeTyping, ReleaseTyping
<1>2. CASE Interrupt
  <2>1. UNCHANGED <<mods, user, spilled>> /\ Got' = Got
    BY <1>2 DEF Interrupt, Got
  <2> QED BY <1>0, <1>2, <2>1, AheadStored, SettlingStays
<1>3. CASE SetIrqMode
  <2>1. UNCHANGED <<mods, user, spilled>> /\ Got' = Got
    BY <1>3 DEF SetIrqMode, Got
  <2> QED BY <1>0, <1>3, <2>1, AheadReset, SettlingStays
<1>4. CASE Drain
  BY <1>4, DrainTyping
<1>5. CASE Available \/ Poll \/ UNCHANGED vars
  <2>1. UNCHANGED <<mods, user, spilled>> /\ UNCHANGED rvars /\ wire' = wire
    BY <1>5 DEF Available, Poll, vars
  <2>2. Ahead' = Ahead /\ missed' = missed
    BY <2>1 DEF rvars, Ahead, InHand, Waiting, Contents, Used
  <2>3. CASE Poll
    <3>1. keys # <<>> /\ keys' = Tail(keys) /\ delivered' = Append(delivered, Head(keys))
      BY <2>3 DEF Poll
    <3>2. Append(delivered, Head(keys)) \o Tail(keys) = delivered \o keys
      BY <1>0, <3>1, Shifted
    <3>3. Got' = Got
      BY <3>1, <3>2 DEF Got
    <3> QED BY <2>1, <2>2, <3>3, SettlingStays
  <2>4. CASE Available \/ UNCHANGED vars
    <3>1. Got' = Got
      BY <2>4 DEF Available, vars, Got
    <3> QED BY <2>1, <2>2, <3>1, SettlingStays
  <2> QED BY <1>5, <2>3, <2>4
<1> QED BY <1>1, <1>2, <1>3, <1>4, <1>5 DEF Next, Main

\* With nothing under way and nothing lost, the main loop has what the keyboard says.
LEMMA AllDecoded ==
  ASSUME TypingInv, Quiet
  PROVE  Ahead = <<>>
<1>1. stage = "idle" /\ tail = head /\ head \in Index /\ wire = <<>>
  BY DEF Quiet, Drained, TypingInv, KeyboardInv, TypeOK, RingOK
<1>2. Span(head, head) = 0
  BY <1>1, UsedOf, RingAssumption DEF Span, Index
<1>3. Contents = <<>>
  BY <1>1, <1>2, ContentsIs DEF Between
<1> QED BY <1>1, <1>3, ConcatEmptySeq, EmptySeq DEF Ahead, InHand, Waiting

LEMMA TypingAlways == Spec => []TypingInv
  BY TypingInit, TypingNext, PTL DEF Spec

\* ModifiersSettle for all keys and sizes of the rings: whenever kb_process has decoded all that
\* the keyboard has sent and no scancode was lost, Ctrl, Alt and CapsLock are what the keyboard
\* says, Shift is on only while a shift key is held, and no 0xE0 prefix is pending, even if keys
\* were dropped because kb_buf was full.
THEOREM ModifiersTrue == Spec => []ModifiersSettle
<1>1. ASSUME TypingInv PROVE ModifiersSettle
  <2> SUFFICES ASSUME Quiet, missed = 0
               PROVE  /\ mods.shift => Shifts # {}
                      /\ mods.ctrl = Held("ctrl") /\ mods.alt = Held("alt") /\ mods.caps = capsOn
                      /\ ~mods.extended
    BY DEF ModifiersSettle
  <2>1. PICK n \in Mods, g \in Seq(Glyphs), h \in Seq(Glyphs) : Leads(mods, g, Ahead, n, h) /\ Agrees(n)
    BY <1>1 DEF TypingInv, Settling
  <2>2. Ahead = <<>> /\ Ahead \in Seq(Byte)
    BY <1>1, AllDecoded, AheadType DEF TypingInv
  <2>3. mods = n
    BY <2>1, <2>2, LeadsTo
  <2> QED BY <2>1, <2>3 DEF Agrees
<1> QED BY <1>1, TypingAlways, PTL

\* FaithfulTyping for all keys and sizes of the rings: as long as nothing was lost and the two
\* shift keys were not held together, the windows get from kb_poll the keys that were struck,
\* in order and as the modifiers were at that moment, and in the end all of them.
THEOREM TypingFaithful == Spec => []FaithfulTyping
<1>1. ASSUME TypingInv PROVE FaithfulTyping
  <2> SUFFICES ASSUME missed = 0, spilled = 0, ~chorded
               PROVE  IsPrefix(Got, shown) /\ (Quiet => Got = shown)
    BY DEF FaithfulTyping
  <2>1. PICK n \in Mods : Leads(mods, Got, Ahead, n, shown)
    BY <1>1 DEF TypingInv, Settling
  <2>2. Ahead \in Seq(Byte)
    BY <1>1, AheadType DEF TypingInv
  <2>3. Begins(Got, shown) /\ Got \in Seq(Glyphs) /\ shown \in Seq(Glyphs) /\ (Ahead = <<>> => Got = shown)
    BY <2>1, <2>2, LeadsTo
  <2>4. IsPrefix(Got, shown)
    <3>1. PICK s \in Seq(Glyphs), t \in Seq(Glyphs) : s = Got /\ t = shown /\ Begins(s, t)
      BY <2>3
    <3>2. Len(s) \in Nat /\ Len(t) \in Nat /\ Len(s) <= Len(t)
      BY <3>1 DEF Begins
    <3>3. /\ SubSeq(s, 1, Len(s)) \in Seq(Glyphs) /\ SubSeq(t, 1, Len(s)) \in Seq(Glyphs)
          /\ Len(SubSeq(s, 1, Len(s))) = Len(s) /\ Len(SubSeq(t, 1, Len(s))) = Len(s)
          /\ \A i \in 1 .. Len(s) : SubSeq(s, 1, Len(s))[i] = s[i] /\ SubSeq(t, 1, Len(s))[i] = t[i]
      BY <3>2
    <3>4. SubSeq(s, 1, Len(s)) = SubSeq(t, 1, Len(s))
      BY <3>1, <3>3, SeqEqual DEF Begins
    <3> QED BY <3>1, <3>2, <3>4 DEF IsPrefix
  <2>5. Quiet => Got = shown
    BY <1>1, <2>3, AllDecoded
  <2> QED BY <2>4, <2>5
<1> QED BY <1>1, TypingAlways, PTL

----------------------------------------------------------------------------
(* Whatever is lost.  The strokes that the keys got stem from, and those that the scancodes *)
(* under way stem from, are places in `struck', in one increasing order: P and Q.  Losing a *)
(* scancode loses its place; decoding one moves its place from Q to P or loses it.          *)

IsStroke(b) == b # Prefix /\ ~b.up /\ b.code \in Prints

Placed(P, Q, got, ahead, strokes) ==
  /\ P \in [1 .. Len(got) -> 1 .. Len(strokes)] /\ Q \in [1 .. Len(ahead) -> Nat]
  /\ \A i \in 1 .. Len(got) : got[i].code = strokes[P[i]].code
  /\ \A i, j \in 1 .. Len(got) : i < j => P[i] < P[j]
  /\ \A i \in 1 .. Len(ahead) :
       IsStroke(ahead[i]) => Q[i] \in 1 .. Len(strokes) /\ ahead[i].code = strokes[Q[i]].code
  /\ \A i, j \in 1 .. Len(ahead) : IsStroke(ahead[i]) /\ IsStroke(ahead[j]) /\ i < j => Q[i] < Q[j]
  /\ \A i \in 1 .. Len(got), j \in 1 .. Len(ahead) : IsStroke(ahead[j]) => P[i] < Q[j]
Traced(got, ahead, strokes) == \E P, Q : Placed(P, Q, got, ahead, strokes)

\* What is left of a queue when some of it is lost.
Within(s, t) ==
  \E f \in [1 .. Len(s) -> 1 .. Len(t)] :
    /\ \A i \in 1 .. Len(s) : s[i] = t[f[i]]
    /\ \A i, j \in 1 .. Len(s) : i < j => f[i] < f[j]

StemInv == KeyboardInv /\ delivered \in Seq(Glyphs) /\ struck \in Seq(Glyphs) /\ Traced(Got, Ahead, struck)

\* A scancode that is no stroke of a printing key is of no account.
LEMMA TracedOn ==
  ASSUME NEW got \in Seq(Glyphs), NEW ahead \in Seq(Byte), NEW strokes \in Seq(Glyphs),
         Traced(got, ahead, strokes), NEW b \in Byte, ~IsStroke(b)
  PROVE  Traced(got, Append(ahead, b), strokes)
<1>1. PICK P, Q : Placed(P, Q, got, ahead, strokes)
  BY DEF Traced
<1>2. PICK a \in Seq(Byte) : a = Append(ahead, b)
  <2>1. Append(ahead, b) \in Seq(Byte)
    BY AppendProperties
  <2> QED BY <2>1, Zenon
<1>3. /\ Len(ahead) \in Nat /\ Len(a) = Len(ahead) + 1 /\ a[Len(ahead) + 1] = b
      /\ \A i \in 1 .. Len(ahead) : a[i] = ahead[i]
  BY <1>2
<1>4. PICK R : R = [i \in 1 .. Len(a) |-> IF i = Len(a) THEN 0 ELSE Q[i]]
  OBVIOUS
<1>5. R \in [1 .. Len(a) -> Nat]
  BY <1>1, <1>3, <1>4 DEF Placed
<1>6. \A i \in 1 .. Len(a) : IsStroke(a[i]) => i \in 1 .. Len(ahead) /\ a[i] = ahead[i] /\ R[i] = Q[i]
  BY <1>3, <1>4
<1>7. Placed(P, R, got, a, strokes)
  BY <1>1, <1>5, <1>6 DEF Placed
<1> QED BY <1>2, <1>7 DEF Traced

\* The stroke of a printing key comes after all the others.
LEMMA TracedStruck ==
  ASSUME NEW got \in Seq(Glyphs), NEW ahead \in Seq(Byte), NEW strokes \in Seq(Glyphs),
         Traced(got, ahead, strokes), NEW b \in Byte, NEW g \in Glyphs, g.code = b.code
  PROVE  Traced(got, Append(ahead, b), Append(strokes, g))
<1>1. PICK P, Q : Placed(P, Q, got, ahead, strokes)
  BY DEF Traced
<1>2. PICK a \in Seq(Byte) : a = Append(ahead, b)
  <2>1. Append(ahead, b) \in Seq(Byte)
    BY AppendProperties
  <2> QED BY <2>1, Zenon
<1>3. PICK s \in Seq(Glyphs) : s = Append(strokes, g)
  <2>1. Append(strokes, g) \in Seq(Glyphs)
    BY AppendProperties
  <2> QED BY <2>1, Zenon
<1>4. /\ Len(ahead) \in Nat /\ Len(a) = Len(ahead) + 1 /\ a[Len(ahead) + 1] = b
      /\ \A i \in 1 .. Len(ahead) : a[i] = ahead[i]
  BY <1>2
<1>5. /\ Len(strokes) \in Nat /\ Len(s) = Len(strokes) + 1 /\ s[Len(strokes) + 1] = g
      /\ \A i \in 1 .. Len(strokes) : s[i] = strokes[i]
  BY <1>3
<1>6. PICK R : R = [i \in 1 .. Len(a) |-> IF i = Len(a) THEN Len(s) ELSE Q[i]]
  OBVIOUS
<1>7. R \in [1 .. Len(a) -> Nat] /\ P \in [1 .. Len(got) -> 1 .. Len(s)]
  BY <1>1, <1>4, <1>5, <1>6 DEF Placed
<1>8. \A i \in 1 .. Len(a) :
        \/ i = Len(a) /\ a[i] = b /\ R[i] = Len(s)
        \/ i \in 1 .. Len(ahead) /\ i < Len(a) /\ a[i] = ahead[i] /\ R[i] = Q[i]
  BY <1>4, <1>6
<1>9. ASSUME NEW i \in 1 .. Len(got) PROVE got[i].code = s[P[i]].code /\ P[i] < Len(s)
  <2>1. P[i] \in 1 .. Len(strokes) /\ got[i].code = strokes[P[i]].code
    BY <1>1 DEF Placed
  <2> QED BY <2>1, <1>5
<1>10. ASSUME NEW i \in 1 .. Len(a), IsStroke(a[i])
       PROVE  R[i] \in 1 .. Len(s) /\ a[i].code = s[R[i]].code
  <2>1. CASE i = Len(a)
    BY <2>1, <1>4, <1>5, <1>8
  <2>2. CASE i # Len(a)
    <3>1. Q[i] \in 1 .. Len(strokes) /\ ahead[i].code = strokes[Q[i]].code /\ R[i] = Q[i] /\ a[i] = ahead[i]
      BY <2>2, <1>1, <1>8, <1>10 DEF Placed
    <3> QED BY <3>1, <1>5
  <2> QED BY <2>1, <2>2
<1>11. ASSUME NEW i \in 1 .. Len(a), NEW j \in 1 .. Len(a), IsStroke(a[i]), IsStroke(a[j]), i < j
       PROVE  R[i] < R[j]
  <2>1. i \in 1 .. Len(ahead) /\ a[i] = ahead[i] /\ R[i] = Q[i]
    BY <1>8, <1>11, <1>4
  <2>2. Q[i] \in 1 .. Len(strokes)
    BY <2>1, <1>1, <1>11 DEF Placed
  <2>3. CASE j = Len(a)
    <3>1. R[j] = Len(s)
      BY <2>3, <1>8
    <3>2. Q[i] < Len(s)
      BY <2>2, <1>5
    <3> QED BY <2>1, <3>1, <3>2
  <2>4. CASE j # Len(a)
    <3>1. j \in 1 .. Len(ahead) /\ a[j] = ahead[j] /\ R[j] = Q[j]
      BY <2>4, <1>4, <1>8
    <3>2. Q[i] < Q[j]
      BY <2>1, <3>1, <1>1, <1>11 DEF Placed
    <3> QED BY <2>1, <3>1, <3>2
  <2> QED BY <2>3, <2>4
<1>12. ASSUME NEW i \in 1 .. Len(got), NEW j \in 1 .. Len(a), IsStroke(a[j])
       PROVE  P[i] < R[j]
  BY <1>1, <1>8, <1>9, <1>12 DEF Placed
<1>13. \A i, j \in 1 .. Len(got) : i < j => P[i] < P[j]
  BY <1>1 DEF Placed
<1>14. Placed(P, R, got, a, s)
  BY <1>7, <1>9, <1>10, <1>11, <1>12, <1>13 DEF Placed
<1> QED BY <1>2, <1>3, <1>14 DEF Traced

\* What is lost takes nothing with it.
LEMMA TracedLess ==
  ASSUME NEW got \in Seq(Glyphs), NEW ahead \in Seq(Byte), NEW strokes \in Seq(Glyphs),
         Traced(got, ahead, strokes), NEW less \in Seq(Byte), Within(less, ahead)
  PROVE  Traced(got, less, strokes)
<1>1. PICK P, Q : Placed(P, Q, got, ahead, strokes)
  BY DEF Traced
<1>2. PICK f \in [1 .. Len(less) -> 1 .. Len(ahead)] :
        /\ \A i \in 1 .. Len(less) : less[i] = ahead[f[i]]
        /\ \A i, j \in 1 .. Len(less) : i < j => f[i] < f[j]
  BY DEF Within
<1>3. PICK R : R = [i \in 1 .. Len(less) |-> Q[f[i]]]
  OBVIOUS
<1>4. R \in [1 .. Len(less) -> Nat] /\ \A i \in 1 .. Len(less) : R[i] = Q[f[i]] /\ f[i] \in 1 .. Len(ahead)
  BY <1>1, <1>2, <1>3 DEF Placed
<1>5. ASSUME NEW i \in 1 .. Len(less), IsStroke(less[i])
      PROVE  R[i] \in 1 .. Len(strokes) /\ less[i].code = strokes[R[i]].code
  <2>1. less[i] = ahead[f[i]] /\ R[i] = Q[f[i]] /\ f[i] \in 1 .. Len(ahead)
    BY <1>2, <1>4
  <2>2. IsStroke(ahead[f[i]])
    BY <2>1, <1>5, Zenon
  <2>3. Q[f[i]] \in 1 .. Len(strokes) /\ ahead[f[i]].code = strokes[Q[f[i]]].code
    BY <2>1, <2>2, <1>1 DEF Placed
  <2> QED BY <2>1, <2>3, Zenon
<1>6. ASSUME NEW i \in 1 .. Len(less), NEW j \in 1 .. Len(less), IsStroke(less[i]), IsStroke(less[j]), i < j
      PROVE  R[i] < R[j]
  <2>1. f[i] < f[j] /\ f[i] \in 1 .. Len(ahead) /\ f[j] \in 1 .. Len(ahead)
    BY <1>2, <1>6
  <2>2. IsStroke(ahead[f[i]]) /\ IsStroke(ahead[f[j]])
    BY <1>2, <1>6
  <2>3. Q[f[i]] < Q[f[j]]
    BY <2>1, <2>2, <1>1 DEF Placed
  <2> QED BY <2>3, <1>4
<1>7. ASSUME NEW i \in 1 .. Len(got), NEW j \in 1 .. Len(less), IsStroke(less[j]) PROVE P[i] < R[j]
  <2>1. f[j] \in 1 .. Len(ahead) /\ IsStroke(ahead[f[j]])
    BY <1>2, <1>7
  <2> QED BY <2>1, <1>1, <1>4 DEF Placed
<1>8. /\ P \in [1 .. Len(got) -> 1 .. Len(strokes)]
      /\ \A i \in 1 .. Len(got) : got[i].code = strokes[P[i]].code
      /\ \A i, j \in 1 .. Len(got) : i < j => P[i] < P[j]
  BY <1>1 DEF Placed
<1>9. Placed(P, R, got, less, strokes)
  BY <1>4, <1>5, <1>6, <1>7, <1>8 DEF Placed
<1> QED BY <1>9 DEF Traced

\* Decoding a stroke makes a key of it.
LEMMA TracedGot ==
  ASSUME NEW got \in Seq(Glyphs), NEW ahead \in Seq(Byte), NEW strokes \in Seq(Glyphs),
         Traced(got, ahead, strokes), ahead # <<>>, IsStroke(Head(ahead)),
         NEW g \in Glyphs, g.code = Head(ahead).code
  PROVE  Traced(Append(got, g), Tail(ahead), strokes)
<1>1. PICK P, Q : Placed(P, Q, got, ahead, strokes)
  BY DEF Traced
<1>2. PICK h \in Seq(Glyphs) : h = Append(got, g)
  <2>1. Append(got, g) \in Seq(Glyphs)
    BY AppendProperties
  <2> QED BY <2>1, Zenon
<1>3. /\ Len(got) \in Nat /\ Len(h) = Len(got) + 1 /\ h[Len(got) + 1] = g
      /\ \A i \in 1 .. Len(got) : h[i] = got[i]
  BY <1>2
<1>4. PICK a \in Seq(Byte) : a = Tail(ahead)
  <2>1. Tail(ahead) \in Seq(Byte)
    BY HeadTailProperties
  <2> QED BY <2>1, Zenon
<1>5. /\ Len(ahead) \in Nat \ {0} /\ Len(a) = Len(ahead) - 1 /\ ahead[1] = Head(ahead)
      /\ \A i \in 1 .. Len(a) : a[i] = ahead[i + 1] /\ i + 1 \in 1 .. Len(ahead)
  BY <1>4, HeadTailProperties, EmptySeq
<1>6. 1 \in 1 .. Len(ahead) /\ Q[1] \in 1 .. Len(strokes) /\ g.code = strokes[Q[1]].code
  BY <1>1, <1>5 DEF Placed
<1>7. PICK R : R = [i \in 1 .. Len(h) |-> IF i = Len(h) THEN Q[1] ELSE P[i]]
  OBVIOUS
<1>8. PICK S : S = [i \in 1 .. Len(a) |-> Q[i + 1]]
  OBVIOUS
<1>9. \A i \in 1 .. Len(h) :
        \/ i = Len(h) /\ h[i] = g /\ R[i] = Q[1]
        \/ i \in 1 .. Len(got) /\ i < Len(h) /\ h[i] = got[i] /\ R[i] = P[i]
  BY <1>3, <1>7
<1>10. R \in [1 .. Len(h) -> 1 .. Len(strokes)]
  BY <1>1, <1>3, <1>6, <1>7 DEF Placed
<1>11. S \in [1 .. Len(a) -> Nat] /\ \A i \in 1 .. Len(a) : S[i] = Q[i + 1]
  BY <1>1, <1>5, <1>8 DEF Placed
<1>12. \A i \in 1 .. Len(h) : h[i].code = strokes[R[i]].code
  BY <1>1, <1>6, <1>9 DEF Placed
<1>13. ASSUME NEW i \in 1 .. Len(h), NEW j \in 1 .. Len(h), i < j PROVE R[i] < R[j]
  <2>0. i # Len(h)
    BY <1>3, <1>13
  <2>1. i \in 1 .. Len(got) /\ R[i] = P[i]
    BY <2>0, <1>9
  <2>2. CASE j = Len(h)
    <3>1. R[j] = Q[1]
      BY <2>2, <1>7
    <3>2. P[i] < Q[1]
      BY <2>1, <1>1, <1>5, <1>6 DEF Placed
    <3> QED BY <2>1, <3>1, <3>2
  <2>3. CASE j # Len(h)
    <3>1. j \in 1 .. Len(got) /\ R[j] = P[j]
      BY <2>3, <1>9
    <3>2. P[i] < P[j]
      BY <2>1, <3>1, <1>1, <1>13 DEF Placed
    <3> QED BY <2>1, <3>1, <3>2
  <2> QED BY <2>2, <2>3
<1>14. ASSUME NEW i \in 1 .. Len(a), IsStroke(a[i])
       PROVE  S[i] \in 1 .. Len(strokes) /\ a[i].code = strokes[S[i]].code
  BY <1>1, <1>5, <1>11, <1>14 DEF Placed
<1>15. ASSUME NEW i \in 1 .. Len(a), NEW j \in 1 .. Len(a), IsStroke(a[i]), IsStroke(a[j]), i < j
       PROVE  S[i] < S[j]
  <2>1. i + 1 < j + 1
    BY <1>15
  <2> QED BY <2>1, <1>1, <1>5, <1>11, <1>15 DEF Placed
<1>16. ASSUME NEW i \in 1 .. Len(h), NEW j \in 1 .. Len(a), IsStroke(a[j]) PROVE R[i] < S[j]
  <2>1. j + 1 \in 1 .. Len(ahead) /\ a[j] = ahead[j + 1] /\ S[j] = Q[j + 1] /\ 1 < j + 1
    BY <1>5, <1>11, <1>16
  <2>4. IsStroke(ahead[j + 1])
    BY <2>1, <1>16
  <2>2. CASE i = Len(h)
    BY <2>1, <2>2, <2>4, <1>1, <1>5, <1>6, <1>9 DEF Placed
  <2>3. CASE i # Len(h)
    BY <2>1, <2>3, <2>4, <1>1, <1>9 DEF Placed
  <2> QED BY <2>2, <2>3
<1>17. Placed(R, S, h, a, strokes)
  BY <1>10, <1>11, <1>12, <1>13, <1>14, <1>15, <1>16 DEF Placed
<1> QED BY <1>2, <1>4, <1>17 DEF Traced

----------------------------------------------------------------------------
(* Losing. *)

LEMMA WithinSelf == ASSUME NEW s \in Seq(Byte) PROVE Within(s, s)
<1>1. PICK f : f = [i \in 1 .. Len(s) |-> i]
  OBVIOUS
<1>2. f \in [1 .. Len(s) -> 1 .. Len(s)] /\ \A i \in 1 .. Len(s) : f[i] = i
  BY <1>1
<1> QED BY <1>2 DEF Within

LEMMA WithinTail == ASSUME NEW s \in Seq(Byte), s # <<>> PROVE Within(Tail(s), s)
<1>1. /\ Len(s) \in Nat \ {0} /\ Len(Tail(s)) = Len(s) - 1
      /\ \A i \in 1 .. Len(Tail(s)) : Tail(s)[i] = s[i + 1]
  BY HeadTailProperties, EmptySeq
<1>2. PICK f : f = [i \in 1 .. Len(Tail(s)) |-> i + 1]
  OBVIOUS
<1>3. /\ f \in [1 .. Len(Tail(s)) -> 1 .. Len(s)]
      /\ \A i \in 1 .. Len(Tail(s)) : f[i] = i + 1 /\ Tail(s)[i] = s[f[i]]
  BY <1>1, <1>2
<1>4. \A i, j \in 1 .. Len(Tail(s)) : i < j => f[i] < f[j]
  BY <1>1, <1>3
<1> QED BY <1>3, <1>4 DEF Within

LEMMA WithinRight == ASSUME NEW s \in Seq(Byte), NEW t \in Seq(Byte) PROVE Within(t, s \o t)
<1>1. PICK u \in Seq(Byte) : u = s \o t
  BY ConcatProperties
<1>2. /\ Len(s) \in Nat /\ Len(t) \in Nat /\ Len(u) = Len(s) + Len(t)
      /\ \A i \in 1 .. Len(s) + Len(t) : u[i] = IF i <= Len(s) THEN s[i] ELSE t[i - Len(s)]
  BY <1>1, ConcatProperties
<1>3. PICK f : f = [i \in 1 .. Len(t) |-> Len(s) + i]
  OBVIOUS
<1>4. f \in [1 .. Len(t) -> 1 .. Len(u)] /\ \A i \in 1 .. Len(t) : f[i] = Len(s) + i
  BY <1>2, <1>3
<1>5. ASSUME NEW i \in 1 .. Len(t) PROVE t[i] = u[f[i]]
  <2>1. f[i] \in 1 .. Len(s) + Len(t) /\ ~(f[i] <= Len(s)) /\ f[i] - Len(s) = i
    BY <1>2, <1>4
  <2> QED BY <2>1, <1>2
<1>6. \A i, j \in 1 .. Len(t) : i < j => f[i] < f[j]
  BY <1>2, <1>4
<1>7. Within(t, u)
  BY <1>4, <1>5, <1>6 DEF Within
<1> QED BY <1>1, <1>7

LEMMA WithinAfter ==
  ASSUME NEW s \in Seq(Byte), NEW t \in Seq(Byte), NEW less \in Seq(Byte), Within(less, t)
  PROVE  Within(s \o less, s \o t)
<1>1. PICK u \in Seq(Byte) : u = s \o t
  BY ConcatProperties
<1>2. PICK v \in Seq(Byte) : v = s \o less
  BY ConcatProperties
<1>3. PICK f \in [1 .. Len(less) -> 1 .. Len(t)] :
        /\ \A i \in 1 .. Len(less) : less[i] = t[f[i]]
        /\ \A i, j \in 1 .. Len(less) : i < j => f[i] < f[j]
  BY DEF Within
<1>4. /\ Len(s) \in Nat /\ Len(t) \in Nat /\ Len(u) = Len(s) + Len(t)
      /\ \A i \in 1 .. Len(s) + Len(t) : u[i] = IF i <= Len(s) THEN s[i] ELSE t[i - Len(s)]
  BY <1>1, ConcatProperties
<1>5. /\ Len(less) \in Nat /\ Len(v) = Len(s) + Len(less)
      /\ \A i \in 1 .. Len(s) + Len(less) : v[i] = IF i <= Len(s) THEN s[i] ELSE less[i - Len(s)]
  BY <1>2, ConcatProperties
<1>6. PICK g : g = [i \in 1 .. Len(v) |-> IF i <= Len(s) THEN i ELSE Len(s) + f[i - Len(s)]]
  OBVIOUS
<1>7. \A i \in 1 .. Len(v) : i <= Len(s) => i \in 1 .. Len(s) /\ g[i] = i /\ v[i] = s[i]
  BY <1>4, <1>5, <1>6
<1>12. ASSUME NEW i \in 1 .. Len(v), ~(i <= Len(s))
       PROVE  /\ i - Len(s) \in 1 .. Len(less) /\ g[i] = Len(s) + f[i - Len(s)]
              /\ f[i - Len(s)] \in 1 .. Len(t) /\ v[i] = less[i - Len(s)]
  <2>1. i - Len(s) \in 1 .. Len(less)
    BY <1>4, <1>5, <1>12
  <2>2. f[i - Len(s)] \in 1 .. Len(t)
    BY <2>1, <1>3
  <2> QED BY <2>1, <2>2, <1>5, <1>6, <1>12
<1>8. ASSUME NEW i \in 1 .. Len(v) PROVE g[i] \in 1 .. Len(u) /\ v[i] = u[g[i]]
  <2>1. CASE i <= Len(s)
    <3>1. i \in 1 .. Len(s) /\ g[i] = i /\ v[i] = s[i]
      BY <2>1, <1>7
    <3>2. i \in 1 .. Len(s) + Len(t)
      BY <3>1, <1>4
    <3>3. u[i] = s[i]
      BY <2>1, <3>2, <1>4
    <3> QED BY <3>1, <3>2, <3>3, <1>4
  <2>2. CASE ~(i <= Len(s))
    <3>1. /\ i - Len(s) \in 1 .. Len(less) /\ g[i] = Len(s) + f[i - Len(s)]
          /\ f[i - Len(s)] \in 1 .. Len(t) /\ v[i] = less[i - Len(s)]
      BY <2>2, <1>12
    <3>2. less[i - Len(s)] = t[f[i - Len(s)]]
      BY <3>1, <1>3
    <3>3. g[i] \in 1 .. Len(s) + Len(t) /\ ~(g[i] <= Len(s)) /\ g[i] - Len(s) = f[i - Len(s)]
      BY <3>1, <1>4
    <3> QED BY <3>1, <3>2, <3>3, <1>4
  <2> QED BY <2>1, <2>2
<1>9. ASSUME NEW i \in 1 .. Len(v), NEW j \in 1 .. Len(v), i < j PROVE g[i] < g[j]
  <2>1. CASE j <= Len(s)
    <3>1. i <= Len(s)
      BY <2>1, <1>4, <1>9
    <3>2. g[i] = i /\ g[j] = j
      BY <2>1, <3>1, <1>7
    <3> QED BY <3>2, <1>9
  <2>2. CASE ~(j <= Len(s))
    <3>1. j - Len(s) \in 1 .. Len(less) /\ g[j] = Len(s) + f[j - Len(s)] /\ f[j - Len(s)] \in 1 .. Len(t)
      BY <2>2, <1>12
    <3>2. CASE i <= Len(s)
      BY <3>1, <3>2, <1>4, <1>7
    <3>3. CASE ~(i <= Len(s))
      <4>1. i - Len(s) \in 1 .. Len(less) /\ g[i] = Len(s) + f[i - Len(s)] /\ f[i - Len(s)] \in 1 .. Len(t)
        BY <3>3, <1>12
      <4>2. i - Len(s) < j - Len(s)
        BY <1>4, <1>9
      <4>3. f[i - Len(s)] < f[j - Len(s)]
        BY <3>1, <4>1, <4>2, <1>3
      <4> QED BY <3>1, <4>1, <4>3, <1>4
    <3> QED BY <3>2, <3>3
  <2> QED BY <2>1, <2>2
<1>10. g \in [1 .. Len(v) -> 1 .. Len(u)]
  BY <1>6, <1>8
<1>11. Within(v, u)
  BY <1>8, <1>9, <1>10 DEF Within
<1> QED BY <1>1, <1>2, <1>11

\* The interrupt handler stores a scancode or loses it.
LEMMA AheadInterrupted ==
  ASSUME KeyboardInv, Interrupt
  PROVE  Within(Ahead', Ahead)
<1>1. wire \in Seq(Byte) /\ wire # <<>> /\ missed \in Nat
  BY DEF Interrupt, KeyboardInv, TypeOK, RingOK
<1>2. Head(wire) \in Byte /\ Tail(wire) \in Seq(Byte) /\ Put(Head(wire)) /\ wire' = Tail(wire)
  BY <1>1, HeadTailProperties DEF Interrupt
<1>3. InHand \in Seq(Byte) /\ Waiting \in Seq(Byte) /\ Waiting \o wire \in Seq(Byte) /\ Ahead \in Seq(Byte)
  BY AheadType
<1>4. CASE missed' = missed
  <2>1. InHand' = InHand /\ Waiting' = Append(Waiting, Head(wire))
    BY <1>2, <1>4, AheadType, PutQueued
  <2>2. Append(Waiting, Head(wire)) \o Tail(wire) = Waiting \o wire
    BY <1>1, <1>3, Shifted
  <2>3. Ahead' = Ahead
    BY <1>2, <2>1, <2>2 DEF Ahead
  <2> QED BY <1>3, <2>3, WithinSelf
<1>5. CASE missed' # missed
  <2>1. stage = "reset" \/ Succ(head) = tail
    BY <1>2, <1>5 DEF Put
  <2>2. stage' = stage /\ byte' = byte /\ tail' = tail
    BY <1>2 DEF Put
  <2>3. Waiting' = Waiting
    <3>1. CASE stage = "reset"
      BY <2>2, <3>1 DEF Waiting
    <3>2. CASE Succ(head) = tail
      <4>1. ring' = ring /\ head' = head
        BY <1>2, <3>2 DEF Put
      <4> QED BY <2>2, <4>1 DEF Waiting, Contents, Used
    <3> QED BY <2>1, <3>1, <3>2
  <2>4. InHand' = InHand
    BY <2>2 DEF InHand
  <2>5. Within(Waiting \o Tail(wire), Waiting \o wire)
    BY <1>1, <1>2, <1>3, WithinTail, WithinAfter
  <2>6. Waiting \o Tail(wire) \in Seq(Byte)
    BY <1>2, <1>3, ConcatProperties
  <2>7. Within(InHand \o (Waiting \o Tail(wire)), InHand \o (Waiting \o wire))
    BY <1>3, <2>5, <2>6, WithinAfter
  <2> QED BY <1>2, <2>3, <2>4, <2>7 DEF Ahead
<1> QED BY <1>4, <1>5

\* kb_set_irq_mode loses what waits in the ring.
LEMMA AheadCleared ==
  ASSUME KeyboardInv, SetIrqMode
  PROVE  Within(Ahead', Ahead)
<1>1. wire' = wire /\ wire \in Seq(Byte) /\ (ResetTail \/ ResetHead)
  BY DEF SetIrqMode, KeyboardInv, TypeOK
<1>2. InHand \in Seq(Byte) /\ Waiting \in Seq(Byte) /\ Waiting \o wire \in Seq(Byte) /\ Ahead \in Seq(Byte)
  BY AheadType
<1>3. CASE ResetHead
  <2>1. missed' = missed
    BY <1>3 DEF ResetHead
  <2>2. InHand' = InHand /\ Waiting' = Waiting
    BY <1>3, <2>1, AheadType, ResetQueued
  <2>3. Ahead' = Ahead
    BY <1>1, <2>2 DEF Ahead
  <2> QED BY <1>2, <2>3, WithinSelf
<1>4. CASE ResetTail
  <2>1. stage = "idle" /\ stage' = "reset"
    BY <1>4 DEF ResetTail
  <2>2. InHand = <<>> /\ InHand' = <<>> /\ Waiting' = <<>>
    BY <2>1 DEF InHand, Waiting
  <2>3. <<>> \o wire = wire /\ <<>> \o (Waiting \o wire) = Waiting \o wire
    BY <1>1, <1>2, ConcatEmptySeq
  <2>4. Ahead' = wire /\ Ahead = Waiting \o wire
    BY <1>1, <2>2, <2>3 DEF Ahead
  <2> QED BY <1>1, <1>2, <2>4, WithinRight
<1> QED BY <1>1, <1>3, <1>4

----------------------------------------------------------------------------
LEMMA StemInit == Init => StemInv
<1> SUFFICES ASSUME Init PROVE StemInv
  OBVIOUS
<1>1. KeyboardInv
  BY KeyboardInitInv
<1>2. stage = "idle" /\ wire = <<>> /\ keys = <<>> /\ delivered = <<>> /\ struck = <<>>
  BY DEF Init, RingInit
<1>3. <<>> \in Seq(Glyphs) /\ <<>> \in Seq(Byte) /\ <<>> \o <<>> = <<>> /\ Len(<<>>) = 0
  BY EmptySeq, ConcatEmptySeq
<1>4. Ahead = <<>> /\ Got = <<>>
  <2>1. Contents = <<>>
    BY ContentsIs, EmptySpan DEF Init, RingInit, Between
  <2> QED BY <1>2, <1>3, <2>1 DEF Ahead, InHand, Waiting, Got
<1>5. Placed(<<>>, <<>>, <<>>, <<>>, <<>>)
  BY <1>3 DEF Placed
<1> QED BY <1>1, <1>2, <1>3, <1>4, <1>5 DEF StemInv, Traced

LEMMA StrikeStems == ASSUME StemInv, NEW k \in Keys, Strike(k) PROVE Traced(Got, Ahead, struck)' /\ struck' \in Seq(Glyphs)
<1> DEFINE b == [code |-> k.code, up |-> FALSE]
           g == Glyph(k.code, k.ext, Physical)
<1>1. KeyboardInv /\ delivered \in Seq(Glyphs) /\ struck \in Seq(Glyphs) /\ Traced(Got, Ahead, struck) /\ keys \in Seq(Glyphs)
  BY DEF StemInv, KeyboardInv, TypeOK
<1>2. UNCHANGED rvars /\ wire' = wire \o Sends(k, FALSE) /\ Got' = Got
  BY DEF Strike, Make, Sends, Got
<1>3. k.code \in Modifiers \cup Prints /\ k.ext \in BOOLEAN /\ Byte = Scancodes
  BY KeyboardAssumption
<1>4. b \in Byte /\ Prefix \in Byte /\ ~IsStroke(Prefix)
  BY <1>3 DEF Scancodes, Prefix, IsStroke
<1>5. g \in Glyphs /\ g.code = b.code
  <2>1. g \in Glyphs
    BY <1>3, GlyphType
  <2> QED BY <2>1 DEF Glyph
<1>6. Got \in Seq(Glyphs) /\ Ahead \in Seq(Byte)
  BY <1>1, AheadType, ConcatProperties DEF Got
<1>7. struck' = IF k.code \in Prints THEN Append(struck, g) ELSE struck
  BY DEF Strike
<1>8. IsStroke(b) <=> k.code \in Prints
  BY <1>3 DEF IsStroke, Prefix, Modifiers, Prints
<1> HIDE DEF b, g
<1>9. PICK a \in Seq(Byte) : /\ a = IF k.ext THEN Append(Ahead, Prefix) ELSE Ahead
                             /\ Traced(Got, a, struck) /\ Ahead' = Append(a, b)
  <2>1. CASE k.ext
    <3>1. Ahead' = Append(Append(Ahead, Prefix), b)
      BY <1>1, <1>2, <2>1, Sent DEF b
    <3>2. Append(Ahead, Prefix) \in Seq(Byte)
      BY <1>4, <1>6, AppendProperties
    <3>3. Traced(Got, Append(Ahead, Prefix), struck)
      BY <1>1, <1>4, <1>6, TracedOn
    <3> QED BY <2>1, <3>1, <3>2, <3>3
  <2>2. CASE ~k.ext
    <3>1. Ahead' = Append(Ahead, b)
      BY <1>1, <1>2, <2>2, Sent DEF b
    <3> QED BY <1>1, <1>6, <2>2, <3>1
  <2> QED BY <1>3, <2>1, <2>2
<1>10. CASE k.code \in Prints
  <2>1. Traced(Got, Append(a, b), Append(struck, g))
    BY <1>1, <1>4, <1>5, <1>6, <1>9, TracedStruck
  <2>2. Append(struck, g) \in Seq(Glyphs)
    BY <1>1, <1>5, AppendProperties
  <2> QED BY <1>2, <1>7, <1>9, <1>10, <2>1, <2>2
<1>11. CASE k.code \notin Prints
  <2>1. Traced(Got, Append(a, b), struck)
    BY <1>1, <1>4, <1>6, <1>8, <1>9, <1>11, TracedOn
  <2> QED BY <1>1, <1>2, <1>7, <1>9, <1>11, <2>1
<1> QED BY <1>10, <1>11

LEMMA ReleaseStems == ASSUME StemInv, NEW k \in Keys, Release(k) PROVE Traced(Got, Ahead, struck)' /\ struck' \in Seq(Glyphs)
<1> DEFINE b == [code |-> k.code, up |-> TRUE]
<1>1. KeyboardInv /\ delivered \in Seq(Glyphs) /\ struck \in Seq(Glyphs) /\ Traced(Got, Ahead, struck) /\ keys \in Seq(Glyphs)
  BY DEF StemInv, KeyboardInv, TypeOK
<1>2. UNCHANGED rvars /\ wire' = wire \o Sends(k, TRUE) /\ Got' = Got /\ struck' = struck
  BY DEF Release, Break, Sends, Got
<1>3. k.code \in Modifiers \cup Prints /\ k.ext \in BOOLEAN /\ Byte = Scancodes
  BY KeyboardAssumption
<1>4. b \in Byte /\ Prefix \in Byte /\ ~IsStroke(Prefix) /\ ~IsStroke(b)
  BY <1>3 DEF Scancodes, Prefix, IsStroke
<1>5. Got \in Seq(Glyphs) /\ Ahead \in Seq(Byte)
  BY <1>1, AheadType, ConcatProperties DEF Got
<1> HIDE DEF b
<1>6. CASE k.ext
  <2>1. Ahead' = Append(Append(Ahead, Prefix), b)
    BY <1>1, <1>2, <1>6, Sent DEF b
  <2>2. Append(Ahead, Prefix) \in Seq(Byte)
    BY <1>4, <1>5, AppendProperties
  <2>3. Traced(Got, Append(Ahead, Prefix), struck)
    BY <1>1, <1>4, <1>5, TracedOn
  <2>4. Traced(Got, Append(Append(Ahead, Prefix), b), struck)
    BY <1>1, <1>4, <1>5, <2>2, <2>3, TracedOn
  <2> QED BY <1>1, <1>2, <2>1, <2>4
<1>7. CASE ~k.ext
  <2>1. Ahead' = Append(Ahead, b)
    BY <1>1, <1>2, <1>7, Sent DEF b
  <2>2. Traced(Got, Append(Ahead, b), struck)
    BY <1>1, <1>4, <1>5, TracedOn
  <2> QED BY <1>1, <1>2, <2>1, <2>2
<1> QED BY <1>3, <1>6, <1>7

\* kb_handle_scancode makes one key of a stroke, or none.
LEMMA DecodeGets ==
  ASSUME KeyboardInv, NEW b \in Byte, Decode(b)
  PROVE  \/ keys' = keys
         \/ IsStroke(b) /\ \E g \in Glyphs : g.code = b.code /\ keys' = Append(keys, g)
<1>1. mods.extended \in BOOLEAN /\ b \in Scancodes
  BY KeyboardAssumption DEF KeyboardInv, TypeOK, Mods
<1>2. b # Prefix => b.code \in Modifiers \cup Prints /\ b.up \in BOOLEAN
  BY <1>1 DEF Scancodes, Prefix
<1>3. ASSUME b # Prefix, ~b.up, NEW e \in BOOLEAN, e \/ b.code \in Prints, Enqueue(Glyph(b.code, e, mods))
      PROVE  \/ keys' = keys
             \/ IsStroke(b) /\ \E g \in Glyphs : g.code = b.code /\ keys' = Append(keys, g)
  <2>1. PICK g \in Glyphs : g = Glyph(b.code, e, mods)
    BY <1>2, <1>3, GlyphType
  <2>2. g.code = b.code
    BY <2>1 DEF Glyph
  <2>3. CASE b.code \in Prints
    <3>1. keys' = keys \/ keys' = Append(keys, g)
      BY <1>3, <2>1, Zenon DEF Enqueue
    <3>2. IsStroke(b)
      BY <1>3, <2>3 DEF IsStroke
    <3> QED BY <2>2, <3>1, <3>2
  <2>4. CASE b.code \notin Prints
    <3>1. e = TRUE /\ b.code # "pad"
      BY <1>3, <2>4 DEF Prints
    <3>2. g.face = "none"
      BY <2>1, <3>1 DEF Glyph
    <3>3. keys' = keys
      BY <1>3, <2>1, <3>2 DEF Enqueue
    <3> QED BY <3>3
  <2> QED BY <2>3, <2>4
<1>4. CASE b = Prefix
  BY <1>4 DEF Decode
<1>5. CASE b # Prefix /\ mods.extended
  <2>1. b.up \/ Enqueue(Glyph(b.code, TRUE, mods))
    BY <1>5, Zenon DEF Decode
  <2>2. b.up => keys' = keys
    BY <1>5 DEF Decode
  <2> QED BY <1>2, <1>3, <1>5, <2>1, <2>2
<1>6. CASE b # Prefix /\ ~mods.extended /\ b.code \in Modifiers
  BY <1>6 DEF Decode
<1>7. CASE b # Prefix /\ ~mods.extended /\ b.code \notin Modifiers
  <2>1. b.up \/ Enqueue(Glyph(b.code, FALSE, mods))
    BY <1>7, Zenon DEF Decode
  <2>2. b.up => keys' = keys
    BY <1>7 DEF Decode
  <2> QED BY <1>2, <1>3, <1>7, <2>1, <2>2
<1> QED BY <1>4, <1>5, <1>6, <1>7

LEMMA DrainStems == ASSUME StemInv, Drain PROVE Traced(Got, Ahead, struck)'
<1>1. /\ KeyboardInv /\ delivered \in Seq(Glyphs) /\ struck \in Seq(Glyphs) /\ Traced(Got, Ahead, struck)
      /\ keys \in Seq(Glyphs) /\ byte \in Byte
  BY DEF StemInv, KeyboardInv, TypeOK, RingOK
<1>2. wire' = wire /\ struck' = struck /\ delivered' = delivered
  BY DEF Drain, user
<1>3. Got \in Seq(Glyphs) /\ Ahead \in Seq(Byte)
  BY <1>1, AheadType, ConcatProperties DEF Got
<1>4. CASE (See \/ Read \/ Advance) /\ UNCHANGED <<mods, keys, spilled>>
  <2>1. Ahead' = Ahead
    BY <1>1, <1>2, <1>4, AheadTaken
  <2>2. Got' = Got
    BY <1>2, <1>4 DEF Got
  <2> QED BY <1>1, <1>2, <2>1, <2>2
<1>5. CASE Handled /\ Decode(byte)
  <2>1. Ahead # <<>> /\ Head(Ahead) = byte /\ Ahead' = Tail(Ahead)
    BY <1>1, <1>2, <1>5, AheadHandled
  <2>2. CASE keys' = keys
    <3>1. Got' = Got
      BY <1>2, <2>2 DEF Got
    <3>2. Tail(Ahead) \in Seq(Byte) /\ Within(Tail(Ahead), Ahead)
      BY <1>3, <2>1, HeadTailProperties, WithinTail
    <3>3. Traced(Got, Tail(Ahead), struck)
      BY <1>1, <1>3, <3>2, TracedLess
    <3> QED BY <1>2, <2>1, <3>1, <3>3
  <2>3. CASE keys' # keys
    <3>1. PICK g \in Glyphs : IsStroke(byte) /\ g.code = byte.code /\ keys' = Append(keys, g)
      BY <1>1, <1>5, <2>3, DecodeGets
    <3>2. Got' = Append(Got, g)
      BY <1>1, <1>2, <3>1, AppendOut DEF Got
    <3>3. Traced(Append(Got, g), Tail(Ahead), struck)
      BY <1>1, <1>3, <2>1, <3>1, TracedGot
    <3> QED BY <1>2, <2>1, <3>2, <3>3
  <2> QED BY <2>2, <2>3
<1> QED BY <1>4, <1>5 DEF Drain

LEMMA StemNext == StemInv /\ [Next]_vars => StemInv'
<1> SUFFICES ASSUME StemInv, [Next]_vars PROVE StemInv'
  OBVIOUS
<1>0. /\ KeyboardInv' /\ KeyboardInv /\ keys \in Seq(Glyphs) /\ delivered \in Seq(Glyphs) /\ struck \in Seq(Glyphs)
      /\ Traced(Got, Ahead, struck)
  BY KeyboardNextInv DEF StemInv, KeyboardInv, TypeOK
<1>1. Got \in Seq(Glyphs) /\ Ahead \in Seq(Byte) /\ Ahead' \in Seq(Byte)
  <2>1. Got \in Seq(Glyphs) /\ Ahead \in Seq(Byte)
    BY <1>0, AheadType, ConcatProperties DEF Got
  <2>2. (KeyboardInv => Ahead \in Seq(Byte))'
    BY AheadInSeq, PTL
  <2> QED BY <1>0, <2>1, <2>2
<1>2. CASE \E k \in Keys : Strike(k) \/ Release(k)
  <2>1. delivered' = delivered
    BY <1>2 DEF Strike, Release
  <2> QED BY <1>0, <1>2, <2>1, StrikeStems, ReleaseStems DEF StemInv
<1>3. CASE Interrupt \/ SetIrqMode
  <2>1. Got' = Got /\ struck' = struck /\ delivered' = delivered
    BY <1>3 DEF Interrupt, SetIrqMode, Got, user
  <2>2. Within(Ahead', Ahead)
    BY <1>0, <1>3, AheadInterrupted, AheadCleared
  <2>3. Traced(Got, Ahead', struck)
    BY <1>0, <1>1, <2>2, TracedLess
  <2> QED BY <1>0, <2>1, <2>3 DEF StemInv
<1>4. CASE Drain
  <2>1. struck' = struck /\ delivered' = delivered
    BY <1>4 DEF Drain, user
  <2> QED BY <1>0, <1>4, <2>1, DrainStems DEF StemInv
<1>5. CASE Available \/ Poll \/ UNCHANGED vars
  <2>1. UNCHANGED rvars /\ wire' = wire /\ struck' = struck
    BY <1>5 DEF Available, Poll, vars, user
  <2>2. Ahead' = Ahead
    BY <2>1 DEF rvars, Ahead, InHand, Waiting, Contents, Used
  <2>3. CASE Poll
    <3>1. keys # <<>> /\ keys' = Tail(keys) /\ delivered' = Append(delivered, Head(keys))
      BY <2>3 DEF Poll
    <3>2. Append(delivered, Head(keys)) \o Tail(keys) = delivered \o keys
      BY <1>0, <3>1, Shifted
    <3>3. Got' = Got
      BY <3>1, <3>2 DEF Got
    <3>4. delivered' \in Seq(Glyphs)
      BY <1>0, <3>1, HeadTailProperties, AppendProperties
    <3> QED BY <1>0, <2>1, <2>2, <3>3, <3>4 DEF StemInv
  <2>4. CASE Available \/ UNCHANGED vars
    <3>1. Got' = Got /\ delivered' = delivered
      BY <2>4 DEF Available, vars, Got
    <3> QED BY <1>0, <2>1, <2>2, <3>1 DEF StemInv
  <2> QED BY <1>5, <2>3, <2>4
<1> QED BY <1>2, <1>3, <1>4, <1>5 DEF Next, Main

\* NoPhantomKeys for all keys and sizes of the rings: however many scancodes irq_raw loses, 0xE0
\* prefixes among them, and however many keys kb_buf, every key a window gets from kb_poll stems
\* from a stroke of its own, in the order of the strokes.
THEOREM PhantomsNever == Spec => []NoPhantomKeys
<1>1. ASSUME StemInv PROVE NoPhantomKeys
  <2>1. delivered \in Seq(Glyphs) /\ keys \in Seq(Glyphs) /\ struck \in Seq(Glyphs)
    BY <1>1 DEF StemInv, KeyboardInv, TypeOK
  <2>2. Got \in Seq(Glyphs)
    BY <2>1, ConcatProperties DEF Got
  <2>3. DOMAIN Got = 1 .. Len(Got) /\ DOMAIN struck = 1 .. Len(struck)
    BY <2>1, <2>2, LenProperties
  <2>4. PICK P, Q : Placed(P, Q, Got, Ahead, struck)
    BY <1>1 DEF StemInv, Traced
  <2> QED BY <2>3, <2>4 DEF NoPhantomKeys, StemsFrom, Placed
<1>2. Spec => []StemInv
  BY StemInit, StemNext, PTL DEF Spec
<1> QED BY <1>1, <1>2, PTL
=============================================================================
