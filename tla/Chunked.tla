------------------------------ MODULE Chunked ------------------------------
(***************************************************************************)
(* dechunk and the test before it, apps/app_browser.c: a body that begins  *)
(* with a hexadecimal digit is taken to be in chunks (a length, a line     *)
(* end, so many characters, a line end; length 0 last) and put together in *)
(* place.  A body may also be cut off by the size of the buffer.           *)
(***************************************************************************)
EXTENDS Integers, Sequences, SequencesExt

CONSTANTS
  Chars,            \* characters of a document: "<", "EOL" and "hex", a hexadecimal digit
  MaxText,          \* bound on its length
  Half              \* 2^31, the least length that an int does not hold

VARIABLES document, chunked, buf, src, dst, size, pc
vars == <<document, chunked, buf, src, dst, size, pc>>

(* What a server sends (external): any document cut into chunks anywhere.  *)
Unit(c)   == [char |-> c, num |-> 1]     \* a character; as a digit it counts 1
EOL       == Unit("EOL")
Number(n) == [char |-> "number", num |-> n]
Chunk(s)  == <<Number(Len(s)), EOL>> \o s \o <<EOL>>
(* The bodies for what follows the first i characters of a document.       *)
Bodies(s) ==
  LET after[i \in 0 .. Len(s)] ==
        IF i = Len(s) THEN {Chunk(<<>>)}
        ELSE UNION {{Chunk(SubSeq(s, i + 1, e)) \o rest : rest \in after[e]} : e \in i + 1 .. Len(s)}
  IN after
Documents == UNION {[1 .. n -> {Unit(c) : c \in Chars}] : n \in 0 .. MaxText}
IsDigits(u) == u.char \in {"number", "hex"}

Init ==
  /\ document \in Documents /\ chunked \in BOOLEAN
  /\ \E b \in IF chunked THEN Bodies(document)[0] ELSE {document} :
       \E cut \in 0 .. Len(b) : buf = SubSeq(b, 1, cut)
  /\ src = 1 /\ dst = <<>> /\ size = 0 /\ pc = "test"

Left == src <= Len(buf)
LooksChunked ==      \* of brow_load; otherwise the body is used as it is
  /\ pc = "test"
  /\ IF Left /\ IsDigits(buf[1]) THEN pc' = "size" /\ UNCHANGED dst ELSE pc' = "done" /\ dst' = buf
  /\ UNCHANGED <<document, chunked, buf, src, size>>
(* The digits of a document are taken for a length of any number of them,  *)
(* counted in 32 bits.                                                     *)
ReadAs(u) == IF u.char = "number" THEN {u.num} ELSE 0 .. 2 * Half - 1
ReadSize ==
  /\ pc = "size"
  /\ IF Left /\ IsDigits(buf[src]) THEN size' \in ReadAs(buf[src]) /\ pc' = "skip"
     ELSE pc' = "done" /\ UNCHANGED size
  /\ UNCHANGED <<document, chunked, buf, src, dst>>
LineEnd(from) == LET ends == {i \in from .. Len(buf) : buf[i] = EOL} IN IF ends = {} THEN Len(buf) ELSE Min(ends)
SkipLine ==
  /\ pc = "skip"
  /\ src' = LineEnd(src) + 1 /\ pc' = IF size = 0 THEN "done" ELSE "copy"
  /\ UNCHANGED <<document, chunked, buf, dst, size>>
(* Mutant: the line end behind the characters is left for the next length. *)
EndKept(i) == i
AfterEnd(i) == IF i <= Len(buf) /\ buf[i] = EOL THEN i + 1 ELSE i
(* As an int such a length is negative and passes the test against the     *)
(* end: nothing is copied, and what the pointers then meet is undefined.   *)
Astray ==
  /\ pc = "copy" /\ size >= Half /\ pc' = "astray"
  /\ UNCHANGED <<document, chunked, buf, src, dst, size>>
CopyChunk ==
  /\ pc = "copy" /\ size < Half
  /\ LET end == IF src + size - 1 > Len(buf) THEN Len(buf) ELSE src + size - 1
     IN /\ dst' = dst \o SubSeq(buf, src, end)
        /\ src' = AfterEnd(end + 1)
        /\ pc' = IF src' <= Len(buf) THEN "size" ELSE "done"
  /\ UNCHANGED <<document, chunked, buf, size>>
Next == LooksChunked \/ ReadSize \/ SkipLine \/ Astray \/ CopyChunk
Spec == Init /\ [][Next]_vars
----------------------------------------------------------------------------
TypeOK == pc \in {"test", "size", "skip", "copy", "astray", "done"} /\ Len(dst) <= Len(buf)

(* PageAsSent: the page is the document the server sent, as far as it came *)
(* (all of it when it all came), in chunks or not; only a document that is *)
(* not in chunks and begins with a hexadecimal digit is mistaken.          *)
(* dechunk and brow_load.                                                  *)
Mistaken == ~chunked /\ buf # <<>> /\ IsDigits(buf[1])
Whole == IF chunked THEN buf \in Bodies(document)[0] ELSE buf = document
PageAsSent ==
  pc = "done" /\ ~Mistaken => IsPrefix(dst, document) /\ (Whole => dst = document)
=============================================================================
