------------------------------ MODULE Keyboard ------------------------------
(***************************************************************************)
(* The keyboard driver of kernel/keyboard.c, between the keyboard's        *)
(* scancodes, the interrupt that stores them in the raw ring, and the main *)
(* loop of kernel/sv_desktop.c, which decodes them and hands one key per   *)
(* frame to the active window.                                             *)
(*                                                                         *)
(* Abstractions.  A scancode names its key; letters, digits, the cursor    *)
(* block and the keys without a shifted form are represented by one code   *)
(* each.  The key ring kb_buf is used by the main loop only and is a       *)
(* bounded sequence.                                                       *)
(***************************************************************************)
EXTENDS InputRing, SequencesExt

CONSTANTS
  Keys,        \* the physical keys: a code, and whether it comes with an 0xE0 prefix
  KeySize,     \* KB_BUFFER_SIZE
  MaxEvents    \* bound on the key strokes and releases of a run

Modifiers == {"lshift", "rshift", "ctrl", "alt", "caps"}
Prints    == {"letter", "digit", "pad", "esc"}
Scancodes == [code : Modifiers \cup Prints, up : BOOLEAN] \cup {[code |-> "E0", up |-> FALSE]}
Prefix    == [code |-> "E0", up |-> FALSE]

ASSUME KeyboardAssumption ==
  /\ Byte = Scancodes
  /\ Keys \subseteq [code : Modifiers \cup Prints, ext : BOOLEAN]
  /\ KeySize \in Nat \ {0} /\ MaxEvents \in Nat

VARIABLES
  wire,        \* scancodes on their way from the keyboard to the interrupt handler
  mods,        \* shift, ctrl, alt, caps, extended
  keys,        \* kb_buf: the decoded keys that wait
  pc,          \* where the main loop is
  down,        \* the keys held down
  capsOn,      \* CapsLock: every stroke of the key turns it over, its repeats too
  events,      \* key strokes and releases so far
  struck,      \* ghost: what the user struck
  shown,       \* ghost: the part of it that means a key
  delivered,   \* ghost: what the windows got
  spilled,     \* ghost: keys lost because kb_buf was full
  chorded      \* ghost: both shift keys were held at once

user  == <<down, capsOn, events, struck, shown, chorded>>
vars  == <<rvars, wire, mods, keys, pc, user, delivered, spilled>>

Mods   == [shift : BOOLEAN, ctrl : BOOLEAN, alt : BOOLEAN, caps : BOOLEAN, extended : BOOLEAN]
Places == {"boot", "frame", "poll"}

Faces  == {"none", "nav", "control", "upper", "lower"}
Glyphs == [code : Modifiers \cup Prints, face : Faces]

(* What a key means with the modifiers m; face "none" means no key at all. *)
Glyph(code, ext, m) ==
  [code |-> code,
   face |->
     IF ext THEN IF code = "pad" THEN "nav" ELSE "none"
     ELSE CASE code = "letter" -> IF m.ctrl THEN "control" ELSE IF m.shift # m.caps THEN "upper" ELSE "lower"
            [] code = "digit"  -> IF m.shift THEN "upper" ELSE "lower"
            [] code = "pad"    -> IF m.shift THEN "none" ELSE "lower"
            [] OTHER           -> "lower"]

----------------------------------------------------------------------------
(* The user and the keyboard. *)

Make(k)  == (IF k.ext THEN <<Prefix>> ELSE <<>>) \o <<[code |-> k.code, up |-> FALSE]>>
Break(k) == (IF k.ext THEN <<Prefix>> ELSE <<>>) \o <<[code |-> k.code, up |-> TRUE]>>

Shifts    == {k \in down : k.code \in {"lshift", "rshift"} /\ ~k.ext}
Held(c)   == [code |-> c, ext |-> FALSE] \in down
Physical  == [shift |-> Shifts # {}, ctrl |-> Held("ctrl"), caps |-> capsOn]

(* A key going down, or repeating while it is held. *)
Strike(k) ==
  /\ events < MaxEvents /\ events' = events + 1
  /\ wire' = wire \o Make(k) /\ down' = down \cup {k}
  /\ LET g == Glyph(k.code, k.ext, Physical) IN
       /\ struck' = IF k.code \in Prints THEN Append(struck, g) ELSE struck
       /\ shown'  = IF k.code \in Prints /\ g.face # "none" THEN Append(shown, g) ELSE shown
  /\ capsOn' = IF k.code = "caps" /\ ~k.ext THEN ~capsOn ELSE capsOn
  /\ chorded' = (chorded \/ (k.code \in {"lshift", "rshift"} /\ ~k.ext /\ Shifts \ {k} # {}))
  /\ UNCHANGED <<rvars, mods, keys, pc, delivered, spilled>>

Release(k) ==
  /\ k \in down /\ events < MaxEvents /\ events' = events + 1
  /\ wire' = wire \o Break(k) /\ down' = down \ {k}
  /\ UNCHANGED <<rvars, mods, keys, pc, delivered, spilled, capsOn, struck, shown, chorded>>

(* irq_handler_keyboard: interrupts are on from irq_system_init, before the desktop runs. *)
Interrupt ==
  /\ wire # <<>>
  /\ Put(Head(wire)) /\ wire' = Tail(wire)
  /\ UNCHANGED <<mods, keys, pc, user, delivered, spilled>>

----------------------------------------------------------------------------
(* kb_handle_scancode. *)

\* Mutant: kb_enqueue does not look for the reader.
EnqueueAlways(g) ==
  IF g.face # "none" THEN keys' = Append(keys, g) /\ UNCHANGED spilled ELSE UNCHANGED <<keys, spilled>>

Enqueue(g) ==
  IF g.face = "none" THEN UNCHANGED <<keys, spilled>>
  ELSE IF Len(keys) < KeySize - 1 THEN keys' = Append(keys, g) /\ UNCHANGED spilled
  ELSE spilled' = spilled + 1 /\ UNCHANGED keys

SetModifier(b) ==
  CASE b.code \in {"lshift", "rshift"} -> [mods EXCEPT !.shift = ~b.up]
    [] b.code = "ctrl" -> [mods EXCEPT !.ctrl = ~b.up]
    [] b.code = "alt"  -> [mods EXCEPT !.alt = ~b.up]
    [] OTHER           -> [mods EXCEPT !.caps = IF b.up THEN @ ELSE ~@]

\* Mutant: the prefix is forgotten only when an extended key is recognised.
DecodeExtendedLate(b) ==
  IF b = Prefix THEN mods' = [mods EXCEPT !.extended = TRUE] /\ UNCHANGED <<keys, spilled>>
  ELSE IF mods.extended /\ ~b.up THEN mods' = [mods EXCEPT !.extended = FALSE] /\ Enqueue(Glyph(b.code, TRUE, mods))
  ELSE IF b.code \in Modifiers THEN mods' = SetModifier(b) /\ UNCHANGED <<keys, spilled>>
  ELSE UNCHANGED mods /\ IF b.up THEN UNCHANGED <<keys, spilled>> ELSE Enqueue(Glyph(b.code, FALSE, mods))

\* Mutant: the release of a key counts as a stroke.
DecodeReleases(b) ==
  IF b = Prefix THEN mods' = [mods EXCEPT !.extended = TRUE] /\ UNCHANGED <<keys, spilled>>
  ELSE IF b.code \in Modifiers /\ ~mods.extended THEN mods' = SetModifier(b) /\ UNCHANGED <<keys, spilled>>
  ELSE mods' = [mods EXCEPT !.extended = FALSE] /\ Enqueue(Glyph(b.code, mods.extended, mods))

Decode(b) ==
  CASE b = Prefix ->
         mods' = [mods EXCEPT !.extended = TRUE] /\ UNCHANGED <<keys, spilled>>
    [] b # Prefix /\ mods.extended ->
         /\ mods' = [mods EXCEPT !.extended = FALSE]
         /\ IF b.up THEN UNCHANGED <<keys, spilled>> ELSE Enqueue(Glyph(b.code, TRUE, mods))
    [] b # Prefix /\ ~mods.extended /\ b.code \in Modifiers ->
         mods' = SetModifier(b) /\ UNCHANGED <<keys, spilled>>
    [] OTHER ->
         /\ UNCHANGED mods
         /\ IF b.up THEN UNCHANGED <<keys, spilled>> ELSE Enqueue(Glyph(b.code, FALSE, mods))

----------------------------------------------------------------------------
(* The main loop: kb_set_irq_mode once, then kb_available and kb_poll in every frame. *)

SetIrqMode ==
  /\ pc = "boot"
  /\ \/ ResetTail /\ UNCHANGED pc
     \/ ResetHead /\ pc' = "frame"
  /\ UNCHANGED <<wire, mods, keys, user, delivered, spilled>>

Drain ==
  /\ pc \in {"frame", "poll"}
  /\ \/ (See \/ Read \/ Advance) /\ UNCHANGED <<mods, keys, spilled>>
     \/ Handled /\ Decode(byte)
  /\ UNCHANGED <<wire, pc, user, delivered>>

Drained == stage = "idle" /\ tail = head

(* A frame without a key leaves the keyboard alone. *)
Available ==
  /\ pc = "frame" /\ Drained /\ keys # <<>>
  /\ pc' = "poll"
  /\ UNCHANGED <<rvars, wire, mods, keys, user, delivered, spilled>>

\* Mutant: kb_poll does not advance kb_tail.
PollStuck ==
  /\ pc = "poll" /\ Drained /\ keys # <<>>
  /\ pc' = "frame" /\ UNCHANGED <<keys, delivered>>
  /\ UNCHANGED <<rvars, wire, mods, user, spilled>>

Poll ==
  /\ pc = "poll" /\ Drained /\ keys # <<>>
  /\ pc' = "frame" /\ keys' = Tail(keys) /\ delivered' = Append(delivered, Head(keys))
  /\ UNCHANGED <<rvars, wire, mods, user, spilled>>

----------------------------------------------------------------------------
Released == [shift |-> FALSE, ctrl |-> FALSE, alt |-> FALSE, caps |-> FALSE, extended |-> FALSE]

Init ==
  /\ RingInit /\ wire = <<>> /\ mods = Released /\ keys = <<>> /\ pc = "boot"
  /\ down = {} /\ capsOn = FALSE /\ events = 0 /\ struck = <<>> /\ shown = <<>> /\ chorded = FALSE
  /\ delivered = <<>> /\ spilled = 0

Main == SetIrqMode \/ Drain \/ Available \/ Poll

Next == (\E k \in Keys : Strike(k) \/ Release(k)) \/ Interrupt \/ Main

(* Interrupts are never masked for good and the main loop never stops. *)
Fairness == WF_vars(Interrupt) /\ WF_vars(Main)

Spec == Init /\ [][Next]_vars /\ Fairness

----------------------------------------------------------------------------
(* Properties. *)

\* The types of the driver's state; kb_buf never holds more than KB_BUFFER_SIZE - 1 keys.
TypeOK ==
  /\ RingOK /\ wire \in Seq(Byte) /\ pc \in Places
  /\ mods \in Mods
  /\ keys \in Seq(Glyphs) /\ Len(keys) <= KeySize - 1
  /\ down \subseteq Keys /\ events \in 0 .. MaxEvents

Quiet == wire = <<>> /\ Drained /\ pc # "boot"
Got   == delivered \o keys

\* Without a loss, and as long as the two shift keys are not held together, the windows get
\* what the user struck, in order and with the modifiers held at that moment, however late
\* the main loop decodes it.
FaithfulTyping ==
  missed = 0 /\ spilled = 0 /\ ~chorded =>
    IsPrefix(Got, shown) /\ (Quiet => Got = shown)

\* Whatever is lost where, no key is made up, doubled or overtaken: every key a window gets
\* stems from a stroke of its own, in the order of the strokes.
StemsFrom(got, strokes) ==
  \E stroke \in [DOMAIN got -> DOMAIN strokes] :
    /\ \A i \in DOMAIN got : got[i].code = strokes[stroke[i]].code
    /\ \A i, j \in DOMAIN got : i < j => stroke[i] < stroke[j]
NoPhantomKeys == StemsFrom(Got, struck)

\* When everything is decoded and no scancode was lost, no modifier is stuck: Ctrl, Alt and
\* CapsLock are what the keyboard says, and Shift is on only while a shift key is held.
ModifiersSettle ==
  Quiet /\ missed = 0 =>
    /\ mods.shift => Shifts # {}
    /\ mods.ctrl = Held("ctrl") /\ mods.alt = Held("alt") /\ mods.caps = capsOn
    /\ ~mods.extended

\* Once the user pauses, everything typed gets through to the windows, although a frame
\* takes one key only and frames are interrupted at any point.
KeysGetThrough == (events = MaxEvents) ~> (Quiet /\ keys = <<>>)
=============================================================================
