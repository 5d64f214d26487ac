----------------------------- MODULE FatVolume -----------------------------
(***************************************************************************)
(* What the FAT32 driver promises its callers while the disk works: a tree *)
(* of named entries on which every call acts at one instant, completely or *)
(* not at all, and answers truthfully.                                     *)
(***************************************************************************)
EXTENDS Naturals, Sequences

CONSTANTS
  Names,    \* names of entries
  Data,     \* what a cluster of a file can hold
  MaxLen,   \* longest file, in clusters
  Handles,  \* identities of entries
  Dirs,     \* identities of directories
  RootDir   \* the directory that always exists, one of Dirs

VARIABLES
  vol,      \* the entries: a function from the handles in use
  call,     \* the call in progress
  ans       \* the answer to the last call

vvars == <<vol, call, ans>>

Files    == UNION {[1 .. n -> Data] : n \in 0 .. MaxLen}
NoCall   == [kind |-> "none"]
Pending(k) == call.kind = k /\ ~call.done

\* A file has a content and no directory; a directory has itself and no content.
EntryOf(in, name, is, content) == [in |-> in, name |-> name, is |-> is, content |-> content]
NoDir    == 0
IsDir(h) == vol[h].is # NoDir
LiveDirIds == {RootDir} \cup {vol[h].is : h \in {g \in DOMAIN vol : IsDir(g)}}
Named(d, n) == {h \in DOMAIN vol : vol[h].in = d /\ vol[h].name = n}
Inside(d)   == {h \in DOMAIN vol : vol[h].in = d}

Init == vol = [h \in {} |-> NoCall] /\ call = NoCall /\ ans = "none"

Invoke(c) ==
  /\ call = NoCall
  /\ call' = c /\ ans' = "none" /\ UNCHANGED vol

Answer(a) == call' = NoCall /\ ans' = a

Add(e) ==
  \E h \in Handles \ DOMAIN vol :
    vol' = [g \in DOMAIN vol \cup {h} |-> IF g = h THEN e ELSE vol[g]]

Create ==
  /\ Answer("ok")
  /\ \/ /\ Pending("mkdir") /\ Named(call.dir, call.name) = {}
        /\ \E d \in Dirs \ LiveDirIds : Add(EntryOf(call.dir, call.name, d, <<>>))
     \/ /\ Pending("write") /\ Named(call.dir, call.name) = {}
        /\ Add(EntryOf(call.dir, call.name, NoDir, call.content))
     \/ /\ Pending("copy")      \* nobody asks whether the target's name is taken
        /\ \E h \in Named(call.dir, call.name) :
             ~IsDir(h) /\ Add(EntryOf(call.tdir, call.tname, NoDir, vol[h].content))

Remove ==
  /\ \E h \in Named(call.dir, call.name) :
       /\ \/ Pending("unlink") /\ ~IsDir(h)
          \/ Pending("rmdir") /\ IsDir(h) /\ Inside(vol[h].is) = {}
       /\ vol' = [g \in DOMAIN vol \ {h} |-> vol[g]]
  /\ call' = [call EXCEPT !.done = TRUE] /\ UNCHANGED ans

Removed == call # NoCall /\ call.done /\ Answer("ok") /\ UNCHANGED vol

Refuse ==
  /\ UNCHANGED vol /\ call # NoCall /\ ~call.done
  /\ LET named == Named(call.dir, call.name) IN
     \/ call.kind \in {"mkdir", "write"} /\ named # {} /\ Answer("exists")
     \/ call.kind \in {"mkdir", "write"} /\ named = {} /\ Answer("nospace")
     \/ call.kind \in {"copy", "unlink", "rmdir"} /\ named = {} /\ Answer("absent")
     \/ \E h \in named :
          \/ call.kind \in {"copy", "unlink"} /\ IsDir(h) /\ Answer("kind")
          \/ call.kind = "rmdir" /\ ~IsDir(h) /\ Answer("kind")
          \/ call.kind = "copy" /\ ~IsDir(h) /\ Answer("nospace")
          \/ call.kind = "rmdir" /\ IsDir(h) /\ Inside(vol[h].is) # {} /\ Answer("notempty")

Request(k, d, n, td, tn, x) ==
  [kind |-> k, dir |-> d, name |-> n, tdir |-> td, tname |-> tn, content |-> x, done |-> FALSE]

Call ==
  \E d \in LiveDirIds, n \in Names :
    \/ \E k \in {"mkdir", "unlink", "rmdir"} : Invoke(Request(k, d, n, d, n, <<>>))
    \/ \E x \in Files : Invoke(Request("write", d, n, d, n, x))
    \/ \E td \in LiveDirIds, tn \in Names : Invoke(Request("copy", d, n, td, tn, <<>>))

Next == Call \/ Create \/ Remove \/ Removed \/ Refuse

Spec == Init /\ [][Next]_vvars
=============================================================================
