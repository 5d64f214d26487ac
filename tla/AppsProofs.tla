----------------------------- MODULE AppsProofs -----------------------------
(***************************************************************************)
(* Proofs about Notepad and the Terminal over one table of files, for      *)
(* every number of slots, windows and names and every size of the buffers, *)
(* however long they run.                                                  *)
(***************************************************************************)
EXTENDS MCApps, TLAPS, WellFoundedInduction, SequenceTheorems, FiniteSetTheorems

(* The least number of a set is there. *)
LEMMA LeastIn == ASSUME NEW S, S \subseteq Nat, S # {} PROVE Least(S) \in S /\ \A i \in S : Least(S) <= i
<1>1. PICK R : R = OpToRel(<, Nat)
  OBVIOUS
<1>2. IsWellFoundedOn(R, Nat)
  BY <1>1, NatLessThanWellFounded
<1>3. \A x, y \in Nat : y < x => <<y, x>> \in R
  BY <1>1 DEF OpToRel
<1>4. PICK x \in S : \A y \in S : ~ (<<y, x>> \in R)
  BY <1>2, WFMin
<1>5. \A y \in S : x <= y
  <2>1. ASSUME NEW y \in S PROVE x <= y
    <3>1. x \in Nat /\ y \in Nat /\ ~(y < x)
      BY <1>3, <1>4
    <3> QED BY <3>1
  <2> QED BY <2>1
<1> QED BY <1>5 DEF Least

(***************************************************************************)
(* The table.  A row is in use or not, whatever becomes of it.             *)
(***************************************************************************)
IsRow(r) == r = [used |-> r.used, name |-> r.name, data |-> r.data] /\ r.used \in BOOLEAN
IsTable(f) == f = [i \in Slots |-> f[i]] /\ \A i \in Slots : IsRow(f[i])
Of(f, n) == {i \in Slots : f[i].used /\ f[i].name = n}

LEMMA UsedOf == \A n : Used(n) = Of(files, n) /\ Used(n)' = Of(files', n)
BY DEF Used, Of

LEMMA OfNat == \A f, n : Of(f, n) \subseteq Nat
BY RamFilesAssumption DEF Of

(* What a step may do to the rows: nothing but to the data of one, take a   *)
(* spare one, or give one up.                                               *)
Writes(f, g, i, d) == i \in Slots /\ g = [f EXCEPT ![i].data = d]
Takes(f, g, i, n, d) ==
  /\ i \in Slots /\ ~f[i].used /\ Of(f, n) = {} /\ n \in Names
  /\ g = [f EXCEPT ![i] = [used |-> TRUE, name |-> Cut[n], data |-> d]]
Drops(f, g, i, n) == i \in Of(f, n) /\ g = [f EXCEPT ![i] = [@ EXCEPT !.used = FALSE]]

LEMMA WritesRows ==
  ASSUME NEW f, NEW g, NEW i, NEW d, IsTable(f), Writes(f, g, i, d)
  PROVE  /\ IsTable(g) /\ \A n : Of(g, n) = Of(f, n)
         /\ g[i].data = d /\ \A j \in Slots \ {i} : g[j] = f[j]
<1>1. IsRow(f[i]) /\ f = [j \in Slots |-> f[j]] /\ i \in Slots
  BY DEF IsTable, Writes
<1>2. /\ \A j \in Slots \ {i} : g[j] = f[j]
      /\ g[i] = [used |-> f[i].used, name |-> f[i].name, data |-> d]
      /\ g = [j \in Slots |-> g[j]]
  BY <1>1 DEF Writes, IsRow
<1>3. IsRow(g[i])
  BY <1>1, <1>2 DEF IsRow
<1>4. IsTable(g)
  BY <1>2, <1>3 DEF IsTable
<1>5. \A n : Of(g, n) = Of(f, n)
  BY <1>2 DEF Of
<1> QED BY <1>2, <1>4, <1>5

LEMMA TakesRows ==
  ASSUME NEW f, NEW g, NEW i, NEW n, NEW d, IsTable(f), Takes(f, g, i, n, d)
  PROVE  /\ IsTable(g) /\ \A j \in Slots \ {i} : g[j] = f[j]
         /\ \A m : m # Cut[n] => Of(g, m) = Of(f, m)
         /\ Of(g, Cut[n]) = Of(f, Cut[n]) \cup {i} /\ g[i].data = d /\ i \notin Of(f, Cut[n])
<1>1. f = [j \in Slots |-> f[j]] /\ i \in Slots /\ Cut[n] \in Names
  BY RamFilesAssumption DEF IsTable, Takes
<1>2. /\ \A j \in Slots \ {i} : g[j] = f[j]
      /\ g[i] = [used |-> TRUE, name |-> Cut[n], data |-> d]
      /\ g = [j \in Slots |-> g[j]]
  BY <1>1 DEF Takes
<1>3. IsRow(g[i])
  BY <1>1, <1>2 DEF IsRow
<1>4. IsTable(g)
  BY <1>2, <1>3 DEF IsTable
<1>5. ~f[i].used
  BY DEF Takes
<1>6. \A m : m # Cut[n] => Of(g, m) = Of(f, m)
  BY <1>2, <1>5 DEF Of
<1>7. Of(g, Cut[n]) = Of(f, Cut[n]) \cup {i} /\ i \notin Of(f, Cut[n])
  BY <1>1, <1>2, <1>5 DEF Of
<1> QED BY <1>2, <1>4, <1>6, <1>7

LEMMA DropsRows ==
  ASSUME NEW f, NEW g, NEW i, NEW n, IsTable(f), Drops(f, g, i, n)
  PROVE  /\ IsTable(g) /\ \A m : m # n => Of(g, m) = Of(f, m)
         /\ Of(g, n) = Of(f, n) \ {i} /\ \A j \in Slots : g[j].data = f[j].data
<1>1. f = [j \in Slots |-> f[j]] /\ i \in Slots /\ IsRow(f[i]) /\ f[i].name = n
  BY DEF IsTable, Drops, Of
<1>2. /\ \A j \in Slots \ {i} : g[j] = f[j]
      /\ g[i] = [used |-> FALSE, name |-> f[i].name, data |-> f[i].data]
      /\ g = [j \in Slots |-> g[j]]
  BY <1>1 DEF Drops, IsRow
<1>3. IsRow(g[i])
  BY <1>1, <1>2 DEF IsRow
<1>4. IsTable(g)
  BY <1>2, <1>3 DEF IsTable
<1>5. \A m : m # n => Of(g, m) = Of(f, m)
  BY <1>1, <1>2 DEF Of
<1>6. Of(g, n) = Of(f, n) \ {i}
  BY <1>1, <1>2 DEF Of
<1> QED BY <1>1, <1>2, <1>4, <1>5, <1>6

(* The slot that fs_open or fs_create answers with: none, the first row of  *)
(* that name, or a spare row that is taken.                                 *)
Gives(r, n) ==
  \/ r.fd = 0 /\ r.table = files
  \/ r.fd \in Of(files, n) /\ r.fd = Least(Of(files, n)) /\ r.table = files
  \/ \E d : Takes(files, r.table, r.fd, n, d)

LEMMA SpareRow == Spare # {} => Least(Spare) \in Slots /\ ~files[Least(Spare)].used
<1>1. Spare \subseteq Nat
  BY RamFilesAssumption DEF Spare
<1> QED BY <1>1, LeastIn DEF Spare

LEMMA FirstRow == ASSUME NEW n, Used(n) # {} PROVE Least(Used(n)) \in Of(files, n) /\ Used(n) = Of(files, n)
BY UsedOf, OfNat, LeastIn

LEMMA TakeGives ==
  ASSUME NEW n \in Names, NEW d, Used(n) = {}, Spare # {}
  PROVE  Gives(Take(n, d), n) /\ Take(n, d).fd \in Slots
<1>1. Takes(files, Take(n, d).table, Take(n, d).fd, n, d)
  BY SpareRow, UsedOf DEF Takes, Take, Fd
<1> QED BY <1>1 DEF Gives, Takes

LEMMA OpenGives == ASSUME NEW n \in Names PROVE Gives(FsOpen(n), n)
<1>1. Gives(Failed, n)
  BY DEF Gives, Failed, Fd
<1>2. CASE Used(n) # {}
  <2>1. Gives(Fd(Least(Used(n)), files), n)
    BY <1>2, FirstRow DEF Gives, Fd
  <2> QED BY <1>1, <1>2, <2>1 DEF FsOpen
<1>3. CASE Used(n) = {}
  BY <1>1, <1>3, TakeGives DEF FsOpen
<1> QED BY <1>2, <1>3

LEMMA CreateGives == ASSUME NEW n \in Names PROVE Gives(FsCreate(n), n)
<1>1. Gives(Failed, n)
  BY DEF Gives, Failed, Fd
<1>2. CASE Used(n) # {}
  <2>1. Gives(Fd(Least(Used(n)), files), n)
    BY <1>2, FirstRow DEF Gives, Fd
  <2> QED BY <1>1, <1>2, <2>1 DEF FsCreate
<1>3. CASE Used(n) = {}
  BY <1>1, <1>3, TakeGives DEF FsCreate
<1> QED BY <1>2, <1>3

LEMMA DeleteDrops ==
  ASSUME NEW n \in Names
  PROVE  FsDelete(n).table = files \/ \E i : Drops(files, FsDelete(n).table, i, n)
<1>1. CASE mounted \/ Used(n) = {}
  BY <1>1 DEF FsDelete, Failed, Fd
<1>2. CASE ~(mounted \/ Used(n) = {})
  BY <1>2, FirstRow DEF FsDelete, Fd, Drops
<1> QED BY <1>1, <1>2

(***************************************************************************)
(* What was touched is found, and what was saved is kept.                  *)
(***************************************************************************)
Sole(n)   == \A m \in Names : Cut[m] = n => m = n
OneRow    == \A n \in Names : Sole(n) => \A i, j \in Of(files, n) : i = j
Touched   == touched \subseteq Names /\ TouchedIsFound
KeptNames == kept = [n \in Names |-> kept[n]] /\ \A n \in Names : kept[n].saved => Cut[n] = n
TableInv  == IsTable(files) /\ OneRow /\ Touched /\ KeptNames /\ SavedIsKept

Stays == mounted' = mounted \/ mounted' = TRUE

LEMMA FoundOf ==
  /\ TouchedIsFound <=> (~mounted => \A n \in touched : Cut[n] = n => Of(files, n) # {})
  /\ TouchedIsFound' <=> (~mounted' => \A n \in touched' : Cut[n] = n => Of(files', n) # {})
BY UsedOf DEF TouchedIsFound

LEMMA KeptOf ==
  /\ SavedIsKept <=> \A n \in Names : kept[n].saved /\ Sole(n) =>
                       Of(files, n) # {} /\ files[Least(Of(files, n))].data = kept[n].text
  /\ SavedIsKept' <=> \A n \in Names : kept'[n].saved /\ Sole(n) =>
                        Of(files', n) # {} /\ files'[Least(Of(files', n))].data = kept'[n].text
BY UsedOf DEF SavedIsKept, Sole

(* The table is left alone, or a row is taken: fs_open, fs_create.          *)
LEMMA GivenKeeps ==
  ASSUME TableInv, Stays, NEW n \in Names, NEW r, Gives(r, n), files' = r.table, UNCHANGED kept,
         touched' = touched \/ (touched' = touched \cup {n} /\ r.fd # 0)
  PROVE  TableInv'
<1>1. CASE r.table = files
  <2>1. OneRow' /\ IsTable(files)' /\ KeptNames' /\ SavedIsKept'
    <3>1. files' = files /\ kept' = kept
      BY <1>1
    <3>2. OneRow' /\ IsTable(files)' /\ KeptNames'
      BY <3>1 DEF TableInv, OneRow, KeptNames, Of, IsTable, IsRow
    <3>3. SavedIsKept'
      BY <3>1, KeptOf DEF TableInv
    <3> QED BY <3>2, <3>3
  <2>2. Touched'
    <3>1. touched' \subseteq Names
      BY DEF TableInv, Touched
    <3>2. ASSUME ~mounted', NEW m \in touched', Cut[m] = m PROVE Of(files', m) # {}
      <4>1. ~mounted /\ files' = files
        BY <1>1, <3>2 DEF Stays
      <4>2. CASE m \in touched
        BY <3>2, <4>1, <4>2, FoundOf DEF TableInv, Touched
      <4>3. CASE m = n /\ r.fd # 0
        <5>1. r.fd \in Of(files, n) \/ \E d : Takes(files, r.table, r.fd, n, d)
          BY <4>3 DEF Gives
        <5> QED BY <1>1, <4>1, <4>3, <5>1, TakesRows, <3>2 DEF TableInv
      <4> QED BY <4>2, <4>3
    <3> QED BY <3>1, <3>2, FoundOf DEF Touched
  <2> QED BY <2>1, <2>2 DEF TableInv
<1>2. CASE r.table # files
  <2>1. PICK d : Takes(files, files', r.fd, n, d)
    BY <1>2 DEF Gives
  <2>2. PICK i : i = r.fd
    OBVIOUS
  <2>3. /\ IsTable(files') /\ \A j \in Slots \ {i} : files'[j] = files[j]
        /\ \A m : m # Cut[n] => Of(files', m) = Of(files, m)
        /\ Of(files', Cut[n]) = Of(files, Cut[n]) \cup {i} /\ i \notin Of(files, Cut[n])
    BY <2>1, <2>2, TakesRows DEF TableInv
  <2>4. Of(files, n) = {} /\ Cut[n] \in Names
    BY <2>1, RamFilesAssumption DEF Takes
  (* A name that no other is cut to has gained a row only if it had none. *)
  <2>5. ASSUME NEW m \in Names, Sole(m) PROVE Of(files', m) = Of(files, m) \/ (Of(files, m) = {} /\ Of(files', m) = {i})
    <3>1. CASE m = Cut[n]
      <4>1. m = n
        BY <2>5, <3>1 DEF Sole
      <4> QED BY <2>3, <2>4, <3>1, <4>1
    <3> QED BY <2>3, <3>1
  <2>6. OneRow'
    <3>1. ASSUME NEW m \in Names, Sole(m) PROVE \A x, y \in Of(files', m) : x = y
      BY <2>5, <3>1 DEF TableInv, OneRow
    <3> QED BY <3>1 DEF OneRow, Sole
  <2>7. Touched'
    <3>1. touched' \subseteq Names
      BY DEF TableInv, Touched
    <3>2. ASSUME ~mounted', NEW m \in touched', Cut[m] = m PROVE Of(files', m) # {}
      <4>1. ~mounted
        BY <3>2 DEF Stays
      <4>2. CASE m \in touched
        <5>1. Of(files, m) # {}
          BY <3>2, <4>1, <4>2, FoundOf DEF TableInv, Touched
        <5> QED BY <5>1, <2>3
      <4>3. CASE m = n
        BY <2>3, <3>2, <4>3
      <4> QED BY <4>2, <4>3
    <3> QED BY <3>1, <3>2, FoundOf DEF Touched
  <2>8. SavedIsKept'
    <3>1. ASSUME NEW m \in Names, kept[m].saved, Sole(m)
          PROVE  Of(files', m) # {} /\ files'[Least(Of(files', m))].data = kept[m].text
      <4>1. Of(files, m) # {} /\ files[Least(Of(files, m))].data = kept[m].text
        BY <3>1, KeptOf DEF TableInv
      <4>2. Of(files', m) = Of(files, m)
        BY <2>5, <3>1, <4>1
      <4>3. Least(Of(files, m)) \in Of(files, m)
        BY <4>1, OfNat, LeastIn
      <4>4. Least(Of(files, m)) # i /\ Least(Of(files, m)) \in Slots
        BY <2>1, <2>2, <4>3 DEF Takes, Of
      <4> QED BY <2>3, <4>1, <4>2, <4>4
    <3> QED BY <3>1, KeptOf
  <2> QED BY <2>3, <2>6, <2>7, <2>8 DEF TableInv, KeptNames, IsTable, IsRow
<1> QED BY <1>1, <1>2

(* A row is given up: fs_delete, after which nothing is claimed of its name. *)
LEMMA RemovedKeeps ==
  ASSUME TableInv, Stays, NEW n \in Names, files' = files \/ \E i : Drops(files, files', i, n),
         touched' = touched \ {n}, kept' = [m \in Names |-> IF m = n THEN Nothing ELSE kept[m]]
  PROVE  TableInv'
<1>1. /\ IsTable(files') /\ \A m : m # n => Of(files', m) = Of(files, m)
      /\ Of(files', n) \subseteq Of(files, n) /\ \A j \in Slots : files'[j].data = files[j].data
  <2>1. CASE files' = files
    BY <2>1 DEF TableInv
  <2>2. CASE \E i : Drops(files, files', i, n)
    BY <2>2, DropsRows DEF TableInv
  <2> QED BY <2>1, <2>2
<1>2. ~Nothing.saved
  BY DEF Nothing
<1>3. OneRow'
  BY <1>1 DEF TableInv, OneRow, Sole
<1>4. Touched'
  <2>1. touched' \subseteq Names
    BY DEF TableInv, Touched
  <2>2. ASSUME ~mounted', NEW m \in touched', Cut[m] = m PROVE Of(files', m) # {}
    <3>1. ~mounted /\ m \in touched /\ m # n
      BY <2>2 DEF Stays
    <3> QED BY <1>1, <2>2, <3>1, FoundOf DEF TableInv, Touched
  <2> QED BY <2>1, <2>2, FoundOf DEF Touched
<1>5. KeptNames'
  BY <1>2 DEF TableInv, KeptNames
<1>6. SavedIsKept'
  <2>1. ASSUME NEW m \in Names, kept'[m].saved, Sole(m)
        PROVE  Of(files', m) # {} /\ files'[Least(Of(files', m))].data = kept'[m].text
    <3>1. m # n /\ kept'[m] = kept[m]
      BY <1>2, <2>1
    <3>2. Of(files, m) # {} /\ files[Least(Of(files, m))].data = kept[m].text
      BY <2>1, <3>1, KeptOf DEF TableInv
    <3>3. Least(Of(files, m)) \in Slots
      BY <3>2, OfNat, LeastIn DEF Of
    <3> QED BY <1>1, <3>1, <3>2, <3>3
  <2> QED BY <2>1, KeptOf
<1> QED BY <1>1, <1>3, <1>4, <1>5, <1>6 DEF TableInv, IsTable, IsRow

(* The table once row i of name n is found or taken.                        *)
Got(g, i, n) ==
  /\ IsTable(g) /\ i \in Of(g, n) /\ Least(Of(g, n)) = i
  /\ \A m : m # n => Of(g, m) = Of(files, m) /\ i \notin Of(files, m)
  /\ Of(files, n) \subseteq Of(g, n) /\ \A j \in Slots \ {i} : g[j] = files[j]
  /\ Of(g, n) = Of(files, n) \/ Of(g, n) = {i}

(* A row is written: fs_write.                                              *)
LEMMA StoredKeeps ==
  ASSUME TableInv, Stays, NEW n \in Names, Cut[n] = n, NEW r, Gives(r, n), r.fd # 0,
         NEW d, Writes(r.table, files', r.fd, d), UNCHANGED touched,
         NEW k, kept' = [kept EXCEPT ![n] = k], k.saved => k.text = d
  PROVE  TableInv'
<1>1. PICK i, g : i = r.fd /\ g = r.table
  OBVIOUS
<1>2. Got(g, i, n)
  <2>1. CASE i \in Of(files, n) /\ i = Least(Of(files, n)) /\ g = files
    BY <2>1 DEF TableInv, Of, Got
  <2>2. ASSUME NEW e, Takes(files, g, i, n, e) PROVE Got(g, i, n)
    <3>1. /\ IsTable(g) /\ \A j \in Slots \ {i} : g[j] = files[j]
          /\ \A m : m # n => Of(g, m) = Of(files, m)
          /\ Of(g, n) = Of(files, n) \cup {i}
      BY <2>2, TakesRows DEF TableInv
    <3>2. Of(files, n) = {} /\ ~files[i].used
      BY <2>2 DEF Takes
    <3>3. Of(g, n) = {i} /\ Least({i}) = i
      <4>1. i \in Nat
        BY <2>2, RamFilesAssumption DEF Takes
      <4> QED BY <3>1, <3>2, <4>1, LeastIn
    <3>4. \A m : i \notin Of(files, m)
      BY <3>2 DEF Of
    <3> QED BY <3>1, <3>2, <3>3, <3>4 DEF Got
  <2> QED BY <1>1, <2>1, <2>2 DEF Gives
<1>3. /\ IsTable(files') /\ \A m : Of(files', m) = Of(g, m)
      /\ files'[i].data = d /\ \A j \in Slots \ {i} : files'[j] = g[j]
  BY <1>1, <1>2, WritesRows DEF Got
<1>4. OneRow'
  <2>1. ASSUME NEW m \in Names, Sole(m) PROVE \A x, y \in Of(files', m) : x = y
    BY <2>1, <1>2, <1>3 DEF TableInv, OneRow, Got
  <2> QED BY <2>1 DEF OneRow, Sole
<1>5. Touched'
  <2>1. ASSUME ~mounted', NEW m \in touched', Cut[m] = m PROVE Of(files', m) # {}
    <3>1. Of(files, m) # {}
      BY <2>1, FoundOf DEF TableInv, Touched, Stays
    <3> QED BY <1>2, <1>3, <3>1 DEF Got
  <2>2. touched' \subseteq Names
    BY DEF TableInv, Touched
  <2> QED BY <2>1, <2>2, FoundOf DEF Touched
<1>6. KeptNames' /\ kept'[n] = k /\ \A m \in Names : m # n => kept'[m] = kept[m]
  BY DEF TableInv, KeptNames
<1>7. SavedIsKept'
  <2>1. ASSUME NEW m \in Names, kept'[m].saved, Sole(m)
        PROVE  Of(files', m) # {} /\ files'[Least(Of(files', m))].data = kept'[m].text
    <3>1. CASE m = n
      BY <2>1, <3>1, <1>2, <1>3, <1>6 DEF Got
    <3>2. CASE m # n
      <4>1. Of(files, m) # {} /\ files[Least(Of(files, m))].data = kept[m].text
        BY <2>1, <3>2, <1>6, KeptOf DEF TableInv
      <4>2. Of(files', m) = Of(files, m) /\ i \notin Of(files, m)
        BY <3>2, <1>2, <1>3 DEF Got
      <4>3. Least(Of(files, m)) \in Of(files, m)
        BY <4>1, OfNat, LeastIn
      <4>4. Least(Of(files, m)) \in Slots \ {i}
        BY <4>2, <4>3 DEF Of
      <4> QED BY <1>2, <1>3, <1>6, <3>2, <4>1, <4>2, <4>4 DEF Got
    <3> QED BY <3>1, <3>2
  <2> QED BY <2>1, KeptOf
<1> QED BY <1>3, <1>4, <1>5, <1>6, <1>7 DEF TableInv, IsTable, IsRow

(* The names of the windows' files have been cut.                           *)
Titles ==
  /\ open \subseteq Wins
  /\ file = [w \in Wins |-> file[w]] /\ title = [w \in Wins |-> title[w]]
  /\ \A w \in Wins : title[w] \in Names \cup {"", "Notepad"}
  /\ \A w \in Wins : file[w] # "" => file[w] \in Names /\ Cut[file[w]] = file[w]
AppsInv == TableInv /\ Titles

LEMMA ReadGives == ASSUME NEW d, NEW n \in Names PROVE Gives(FsRead(d, n), n)
<1>1. CASE mounted
  BY <1>1 DEF FsRead, Gives, Failed, Fd
<1>2. CASE ~mounted
  <2>1. FsRead(d, n).table = FsOpen(n).table /\ FsRead(d, n).fd = FsOpen(n).fd
    BY <1>2 DEF FsRead
  <2> QED BY <2>1, OpenGives DEF Gives
<1> QED BY <1>1, <1>2

(* Steps that leave the table, the windows' names and the ghosts alone.     *)
Quiet == UNCHANGED <<files, kept, touched, open, file, title>> /\ Stays

LEMMA QuietTable == ASSUME TableInv, Stays, UNCHANGED <<files, kept, touched>> PROVE TableInv'
<1>1. OneRow' /\ IsTable(files)' /\ KeptNames'
  BY DEF TableInv, OneRow, KeptNames, Of, IsTable, IsRow
<1>2. SavedIsKept'
  BY KeptOf DEF TableInv
<1>3. Touched'
  BY FoundOf DEF TableInv, Touched, Stays
<1> QED BY <1>1, <1>2, <1>3 DEF TableInv

LEMMA QuietStep == ASSUME AppsInv, Quiet PROVE AppsInv'
BY QuietTable DEF AppsInv, Quiet, Titles

LEMMA WriteKeeps ==
  ASSUME TableInv, NEW w, NEW n \in Names, Cut[n] = n, WriteTo(w, n), UNCHANGED <<mounted, touched>>
  PROVE  TableInv'
<1> DEFINE r == IF FsOpen(n).fd # 0 THEN FsOpen(n) ELSE FsCreate(n)
<1>1. Gives(r, n)
  BY OpenGives, CreateGives
<1>2. CASE r.fd = 0
  BY <1>2, QuietTable DEF WriteTo, Stays
<1>3. CASE r.fd # 0
  <2>1. files' = FsWrite(r, buf[w], len[w])
    BY <1>3 DEF WriteTo
  <2> DEFINE k == IF len[w] = 0 THEN Nothing ELSE [saved |-> TRUE, text |-> UpTo(Text(w), MaxData)]
  <2>2. kept' = [kept EXCEPT ![n] = k]
    BY <1>3 DEF WriteTo
  <2> DEFINE d == UpTo(IF len[w] = 0 THEN CStr(buf[w]) ELSE SubSeq(buf[w], 1, len[w]), MaxData)
  <2>3. files' = [r.table EXCEPT ![r.fd].data = d]
    BY <2>1 DEF FsWrite
  <2>4. r.fd \in Slots
    BY <1>1, <1>3 DEF Gives, Of, Takes
  <2>5. Writes(r.table, files', r.fd, d)
    BY <2>3, <2>4 DEF Writes
  <2>6. k.saved => k.text = d
    BY DEF Nothing, Text
  <2>7. UNCHANGED touched /\ Stays
    BY DEF Stays
  <2> HIDE DEF r, k, d
  <2> QED BY <1>1, <1>3, <2>2, <2>5, <2>6, <2>7, StoredKeeps
<1> QED BY <1>2, <1>3

(* The steps that open, close and save. *)
LEMMA NewKeeps == ASSUME AppsInv, NEW w \in Wins, New(w), UNCHANGED touched PROVE AppsInv'
<1>1. UNCHANGED <<files, mounted, kept>>
  BY DEF New, fsvars
<1>2. TableInv'
  BY <1>1, QuietTable DEF AppsInv, Stays
<1>3. Titles'
  <2>1. file' = [file EXCEPT ![w] = ""] /\ title' = [title EXCEPT ![w] = "Notepad"] /\ open' = open \cup {w}
    BY DEF New, FreshWindow
  <2> QED BY <2>1 DEF AppsInv, Titles
<1> QED BY <1>2, <1>3 DEF AppsInv

LEMMA CloseKeeps == ASSUME AppsInv, NEW w, Close(w), UNCHANGED touched PROVE AppsInv'
<1>1. UNCHANGED <<files, mounted, kept, file, title>> /\ open' \subseteq open
  BY DEF Close, fsvars
<1> QED BY <1>1, QuietTable DEF AppsInv, Titles, Stays

LEMMA OpenKeeps ==
  ASSUME AppsInv, NEW d, NEW n \in Names, OpenFile(d, n), UNCHANGED touched PROVE AppsInv'
<1>1. PICK w : w = IF open # {} THEN Least(open) ELSE Least(Wins)
  OBVIOUS
<1>2. /\ open' = open \cup {w} /\ files' = FsRead(d, n).table /\ UNCHANGED <<kept, mounted>>
      /\ title' = [title EXCEPT ![w] = n] /\ file' = [file EXCEPT ![w] = Cut[n]]
  BY <1>1 DEF OpenFile
<1>3. w \in Wins
  BY <1>1, LeastIn, NotepadAssumption DEF AppsInv, Titles
<1>4. TableInv'
  BY <1>2, ReadGives, GivenKeeps DEF AppsInv, Stays
<1>5. Titles'
  BY <1>2, <1>3, RamFilesAssumption DEF AppsInv, Titles
<1> QED BY <1>4, <1>5 DEF AppsInv

LEMMA WindowsKeep ==
  ASSUME AppsInv, NEW s, NEW b, NEW names, names \subseteq Names, Windows(s, b, names) PROVE AppsInv'
<1>1. UNCHANGED touched
  BY DEF Windows, termvars
<1>2. \/ \E w \in Wins : New(w) \/ Close(w)
      \/ \E d \in Dirs, n \in names : OpenFile(d, n)
  BY DEF Windows
<1> QED BY <1>1, <1>2, NewKeeps, CloseKeeps, OpenKeeps

LEMMA SaveKeeps ==
  ASSUME AppsInv, NEW w \in open, NEW n \in Names, Cut[n] = n, SaveUnder(w, n), UNCHANGED <<touched, open, title>>
  PROVE  AppsInv'
<1>1. file' = [file EXCEPT ![w] = n] /\ WriteTo(w, n) /\ UNCHANGED mounted
  BY DEF SaveUnder
<1>2. TableInv'
  BY <1>1, WriteKeeps DEF AppsInv
<1>3. Titles'
  BY <1>1 DEF AppsInv, Titles
<1> QED BY <1>2, <1>3 DEF AppsInv

LEMMA StoresKeep == ASSUME AppsInv, NEW s, NEW b, Stores(s, b) PROVE AppsInv'
<1>1. PICK w \in open : Save(w) \/ SaveAs(w)
  BY DEF Stores
<1>2. UNCHANGED <<touched, open, title>>
  BY DEF Stores, termvars
<1>3. w \in Wins /\ Cut[TitleOf(w)] \in Names /\ Cut[Cut[TitleOf(w)]] = Cut[TitleOf(w)]
  BY RamFilesAssumption, NotepadAssumption DEF AppsInv, Titles, TitleOf
<1>4. file[w] # "" => file[w] \in Names /\ Cut[file[w]] = file[w]
  BY <1>3 DEF AppsInv, Titles
<1> QED BY <1>1, <1>2, <1>3, <1>4, SaveKeeps DEF Save, SaveAs

(* The commands of the shell.                                               *)
LEMMA EntersKeep == ASSUME AppsInv, NEW t \in Terms, NEW s, NEW b, Enters(t, s, b) PROVE AppsInv'
<1>1. /\ EnterKey(t) /\ UNCHANGED <<open, title, file>>
      /\ kept' = [n \in Names |-> IF input[t] # <<>> /\ input[t][1] = "rm" /\ Arg(input[t]) = n THEN Nothing ELSE kept[n]]
  BY DEF Enters
<1>2. UNCHANGED mounted /\ Execute(t, Push(lines[t], <<">">> \o input[t]))
  BY <1>1 DEF EnterKey
<1>3. kept = [n \in Names |-> kept[n]]
  BY DEF AppsInv, TableInv, KeptNames
<1> DEFINE n == Arg(input[t])
           On(k) == input[t][1] = k /\ IsName(n)
<1>4. CASE input[t] = <<>> \/ input[t][1] = "clear"
  <2>1. UNCHANGED <<files, touched>>
    BY <1>2, <1>4 DEF Execute
  <2>2. kept' = kept
    BY <1>1, <1>3, <1>4
  <2> QED BY <1>1, <1>2, <2>1, <2>2, QuietStep DEF Quiet, Stays
<1>5. CASE ~(input[t] = <<>> \/ input[t][1] = "clear")
  <2>1. FileEffect(input[t])
    BY <1>2, <1>5 DEF Execute
  <2>2. /\ files' = IF On("cat") THEN FsOpen(n).table ELSE IF On("touch") THEN FsCreate(n).table
                    ELSE IF On("rm") THEN FsDelete(n).table ELSE files
        /\ touched' = IF On("touch") /\ FsCreate(n).fd # 0 THEN touched \cup {n}
                      ELSE IF On("rm") THEN touched \ {n} ELSE touched
    BY <2>1 DEF FileEffect
  <2>3. CASE On("cat")
    <3>1. files' = FsOpen(n).table /\ touched' = touched /\ kept' = kept /\ n \in Names
      BY <1>1, <1>3, <2>2, <2>3 DEF IsName
    <3> QED BY <1>1, <1>2, <3>1, OpenGives, GivenKeeps DEF AppsInv, Titles, Stays
  <2>4. CASE On("touch")
    <3>1. /\ files' = FsCreate(n).table /\ kept' = kept /\ n \in Names
          /\ touched' = touched \/ (touched' = touched \cup {n} /\ FsCreate(n).fd # 0)
      BY <1>1, <1>3, <2>2, <2>4 DEF IsName
    <3> QED BY <1>1, <1>2, <3>1, CreateGives, GivenKeeps DEF AppsInv, Titles, Stays
  <2>5. CASE On("rm")
    <3>1. /\ files' = FsDelete(n).table /\ touched' = touched \ {n} /\ n \in Names
          /\ kept' = [m \in Names |-> IF m = n THEN Nothing ELSE kept[m]]
      BY <1>1, <1>5, <2>2, <2>5 DEF IsName
    <3>2. files' = files \/ \E i : Drops(files, files', i, n)
      BY <3>1, DeleteDrops
    <3> QED BY <1>1, <1>2, <3>1, <3>2, RemovedKeeps DEF AppsInv, Titles, Stays
  <2>6. CASE ~(On("cat") \/ On("touch") \/ On("rm"))
    <3>1. files' = files /\ touched' = touched
      BY <2>2, <2>6
    <3>2. kept' = kept
      BY <1>1, <1>3, <2>6 DEF IsName
    <3> QED BY <1>1, <1>2, <3>1, <3>2, QuietStep DEF Quiet, Stays
  <2> QED BY <2>3, <2>4, <2>5, <2>6
<1> QED BY <1>4, <1>5

(* Everything else edits a text, types a command or scrolls.                *)
LEMMA EditsQuiet ==
  ASSUME NEW w, Key_(w) \/ PopUpClick(w) \/ Clears(w) \/ Finds(w) \/ Points(w) \/ Types(w) \/ Buttons PROVE Quiet
BY DEF Key_, PopUpClick, Clears, Finds, Points, Types, Buttons, Edits, InWindow, termvars, fsvars, Quiet, Stays

LEMMA WordsQuiet == ASSUME NEW t, NEW s, NEW b, NEW words, Words_(t, s, b, words) PROVE Quiet
BY DEF Words_, WordKey, npvars, fsvars, Quiet, Stays

LEMMA ShellQuiet ==
  ASSUME NEW t, Erases(t) \/ MenuOf(t) \/ PopUpOf(t) \/ PopsUp \/ Slides(t) \/ Reopens(t) PROVE Quiet
<1>1. UNCHANGED npvars
  BY DEF Erases, MenuOf, PopUpOf, PopsUp, Slides, Reopens, ShellStep
<1>2. UNCHANGED <<touched, fsvars>>
  BY DEF Erases, MenuOf, PopUpOf, PopsUp, Slides, Reopens, EraseKey, MenuEntry, PopUpEntry, PopUp, Scrollbar, Reopen, Entry
<1> QED BY <1>1, <1>2 DEF npvars, fsvars, Quiet, Stays

LEMMA MountsQuiet == ASSUME Mounts PROVE Quiet
BY DEF Mounts, Mount, npvars, termvars, Quiet, Stays

LEMMA AppsInit == Init => AppsInv
<1> SUFFICES ASSUME Init PROVE AppsInv
  OBVIOUS
<1>1. /\ files = [i \in Slots |-> Free] /\ touched = {} /\ kept = [n \in Names |-> Nothing] /\ open = {}
      /\ title = [w \in Wins |-> ""] /\ file = title
  BY DEF Init, NpInit, TermInit, FsInit
<1>2. ~Free.used /\ ~Nothing.saved /\ IsRow(Free)
  BY DEF Free, Nothing, IsRow
<1>3. \A n : Of(files, n) = {}
  BY <1>1, <1>2 DEF Of
<1>4. IsTable(files) /\ OneRow /\ Touched
  BY <1>1, <1>2, <1>3 DEF IsTable, OneRow, Touched, TouchedIsFound
<1>5. KeptNames /\ SavedIsKept
  BY <1>1, <1>2 DEF KeptNames, SavedIsKept
<1>6. Titles
  BY <1>1 DEF Titles
<1> QED BY <1>4, <1>5, <1>6 DEF AppsInv, TableInv

LEMMA AppsNext == AppsInv /\ [Next]_vars => AppsInv'
<1> SUFFICES ASSUME AppsInv, [Next]_vars PROVE AppsInv'
  OBVIOUS
<1>1. ASSUME NEW w \in Wins, Key_(w) \/ PopUpClick(w) \/ Clears(w) \/ Finds(w) \/ Points(w) \/ Types(w) PROVE AppsInv'
  BY <1>1, EditsQuiet, QuietStep
<1>2. CASE Buttons
  BY <1>2, EditsQuiet, QuietStep
<1>3. CASE Windows("editing", EditSteps, {"A"}) \/ Windows("sharing", ShareSteps, {"a", "A", "long"})
  BY <1>3, WindowsKeep, ScenesAssumption
<1>4. CASE Stores("editing", EditSteps) \/ Stores("sharing", ShareSteps)
  BY <1>4, StoresKeep
<1>5. ASSUME NEW t \in Terms, Enters(t, "sharing", ShareSteps) \/ Enters(t, "typing", ShellSteps) PROVE AppsInv'
  BY <1>5, EntersKeep
<1>6. ASSUME NEW t \in Terms, Words_(t, "sharing", ShareSteps, FileWords) \/ Words_(t, "typing", ShellSteps, Words) PROVE AppsInv'
  BY <1>6, WordsQuiet, QuietStep
<1>7. ASSUME NEW t \in Terms, Erases(t) \/ MenuOf(t) \/ PopUpOf(t) \/ Slides(t) \/ Reopens(t) PROVE AppsInv'
  BY <1>7, ShellQuiet, QuietStep
<1>8. CASE PopsUp \/ Mounts
  BY <1>8, ShellQuiet, MountsQuiet, QuietStep
<1>9. CASE UNCHANGED vars
  BY <1>9, QuietStep DEF vars, npvars, termvars, fsvars, Quiet, Stays
<1> QED BY <1>1, <1>2, <1>3, <1>4, <1>5, <1>6, <1>7, <1>8, <1>9 DEF Next

LEMMA AppsInvariant == Spec => []AppsInv
BY AppsInit, AppsNext, PTL DEF Spec

(* While no volume is mounted, a file that touch answered "ok" to is found  *)
(* under its name until rm removes it, if the name is not too long,         *)
(* whatever Notepad opens and saves and the other commands do to the table  *)
(* meanwhile.                                                               *)
THEOREM TouchedSafe == Spec => []TouchedIsFound
<1>1. AppsInv => TouchedIsFound
  BY DEF AppsInv, TableInv, Touched
<1> QED BY <1>1, AppsInvariant, PTL

(* What Notepad saved under a name that no longer one is cut to is what the *)
(* table holds in the first slot of that name, until rm, whatever the shell *)
(* and the other windows do and whenever a volume is mounted.               *)
THEOREM SavedSafe == Spec => []SavedIsKept
<1>1. AppsInv => SavedIsKept
  BY DEF AppsInv, TableInv
<1> QED BY <1>1, AppsInvariant, PTL

(***************************************************************************)
(* Texts.                                                                  *)
(***************************************************************************)
LEMMA UpToText ==
  ASSUME NEW S, NEW s \in Seq(S), NEW n \in Nat
  PROVE  /\ UpTo(s, n) \in Seq(S) /\ Len(UpTo(s, n)) <= n /\ Len(UpTo(s, n)) <= Len(s)
         /\ Len(s) <= n => UpTo(s, n) = s
<1> DEFINE m == IF Len(s) < n THEN Len(s) ELSE n
<1>1. Len(s) \in Nat /\ m \in Nat /\ m <= n /\ m <= Len(s) /\ (Len(s) <= n => m = Len(s))
  OBVIOUS
<1>2. \A i \in 1 .. m : s[i] \in S
  BY <1>1, ElementOfSeq
<1> HIDE DEF m
<1>3. SubSeq(s, 1, m) \in Seq(S) /\ Len(SubSeq(s, 1, m)) = IF 1 <= m THEN m - 1 + 1 ELSE 0
  BY <1>1, <1>2, SubSeqProperties
<1>4. Len(SubSeq(s, 1, m)) = m
  BY <1>1, <1>3
<1>5. SubSeq(s, 1, Len(s)) = s
  BY SubSeqFull
<1>6. UpTo(s, n) = SubSeq(s, 1, m)
  BY DEF UpTo, m
<1> QED BY <1>1, <1>3, <1>4, <1>5, <1>6

\* A part of a text, whichever its ends.
LEMMA PartText ==
  ASSUME NEW S, NEW s \in Seq(S), NEW i \in Nat \ {0}, NEW j \in Nat, j <= Len(s)
  PROVE  SubSeq(s, i, j) \in Seq(S) /\ Len(SubSeq(s, i, j)) = IF i <= j THEN j - i + 1 ELSE 0
<1>1. \A k \in i .. j : s[k] \in S
  <2>1. ASSUME NEW k \in i .. j PROVE k \in 1 .. Len(s)
    OBVIOUS
  <2> QED BY <2>1, ElementOfSeq
<1> QED BY <1>1, SubSeqProperties

LEMMA OverText ==
  ASSUME NEW S, NEW a \in Seq(S), NEW s \in Seq(S), Len(s) <= Len(a)
  PROVE  /\ Over(a, s) \in Seq(S) /\ Len(Over(a, s)) = Len(a) /\ SubSeq(Over(a, s), 1, Len(s)) = s
<1> DEFINE r == SubSeq(a, Len(s) + 1, Len(a))
<1>1. Len(s) \in Nat /\ Len(a) \in Nat /\ Len(s) + 1 \in Nat \ {0}
  OBVIOUS
<1>2. r \in Seq(S) /\ Len(r) = Len(a) - Len(s)
  <2>1. r \in Seq(S) /\ Len(r) = IF Len(s) + 1 <= Len(a) THEN Len(a) - (Len(s) + 1) + 1 ELSE 0
    BY <1>1, PartText
  <2> QED BY <1>1, <2>1
<1> HIDE DEF r
<1>3. Over(a, s) = s \o r
  BY DEF Over, r
<1>4. s \o r \in Seq(S) /\ Len(s \o r) = Len(s) + Len(r)
  BY <1>2, ConcatProperties
<1>5. SubSeq(s \o r, 1, Len(s)) = s
  <2>1. CASE Len(s) = 0
    BY <1>1, <2>1, SubSeqEmpty, EmptySeq
  <2>2. CASE Len(s) # 0
    <3>1. 1 \in 1 .. Len(s) /\ Len(s) \in 1 .. Len(s)
      BY <1>1, <2>2
    <3>2. SubSeq(s \o r, 1, Len(s)) = SubSeq(s, 1, Len(s))
      BY <1>2, <3>1, SubSeqOfConcat1
    <3> QED BY <3>2, SubSeqFull
  <2> QED BY <2>1, <2>2
<1> QED BY <1>1, <1>2, <1>3, <1>4, <1>5

LEMMA InsertText ==
  ASSUME NEW S, NEW s \in Seq(S), NEW piece \in Seq(S), NEW pos \in Nat, pos <= Len(s)
  PROVE  Insert(s, pos, piece) \in Seq(S) /\ Len(Insert(s, pos, piece)) = Len(s) + Len(piece)
<1> DEFINE l == SubSeq(s, 1, pos)
           r == SubSeq(s, pos + 1, Len(s))
<1>1. Len(s) \in Nat /\ Len(piece) \in Nat /\ pos + 1 \in Nat \ {0} /\ 1 \in Nat \ {0}
  OBVIOUS
<1>2. l \in Seq(S) /\ Len(l) = pos
  <2>1. l \in Seq(S) /\ Len(l) = IF 1 <= pos THEN pos - 1 + 1 ELSE 0
    BY <1>1, PartText
  <2> QED BY <2>1
<1>3. r \in Seq(S) /\ Len(r) = Len(s) - pos
  <2>1. r \in Seq(S) /\ Len(r) = IF pos + 1 <= Len(s) THEN Len(s) - (pos + 1) + 1 ELSE 0
    BY <1>1, PartText
  <2> QED BY <1>1, <2>1
<1>4. Insert(s, pos, piece) = (l \o piece) \o r
  BY DEF Insert
<1> HIDE DEF l, r
<1>5. l \o piece \in Seq(S) /\ Len(l \o piece) = Len(l) + Len(piece)
  BY <1>2, ConcatProperties
<1>6. (l \o piece) \o r \in Seq(S) /\ Len((l \o piece) \o r) = Len(l \o piece) + Len(r)
  <2>1. PICK m : m = l \o piece
    OBVIOUS
  <2>2. m \in Seq(S)
    BY <1>5, <2>1
  <2>3. m \o r \in Seq(S) /\ Len(m \o r) = Len(m) + Len(r)
    BY <1>3, <2>2, ConcatProperties
  <2> QED BY <2>1, <2>3
<1> QED BY <1>1, <1>2, <1>3, <1>4, <1>5, <1>6

LEMMA RemoveText ==
  ASSUME NEW S, NEW s \in Seq(S), NEW pos \in 1 .. Len(s)
  PROVE  RemoveAt(s, pos) \in Seq(S) /\ Len(RemoveAt(s, pos)) = Len(s) - 1
<1> DEFINE l == SubSeq(s, 1, pos - 1)
           r == SubSeq(s, pos + 1, Len(s))
<1>1. Len(s) \in Nat /\ pos \in Nat /\ pos >= 1 /\ pos <= Len(s)
  OBVIOUS
<1>2. l \in Seq(S) /\ Len(l) = pos - 1
  <2>0. pos - 1 \in Nat /\ pos - 1 <= Len(s) /\ 1 \in Nat \ {0}
    BY <1>1
  <2>1. l \in Seq(S) /\ Len(l) = IF 1 <= pos - 1 THEN pos - 1 - 1 + 1 ELSE 0
    BY <2>0, PartText
  <2> QED BY <1>1, <2>1
<1>3. r \in Seq(S) /\ Len(r) = Len(s) - pos
  <2>0. pos + 1 \in Nat \ {0}
    BY <1>1
  <2>1. r \in Seq(S) /\ Len(r) = IF pos + 1 <= Len(s) THEN Len(s) - (pos + 1) + 1 ELSE 0
    BY <1>1, <2>0, PartText
  <2> QED BY <1>1, <2>1
<1>4. RemoveAt(s, pos) = l \o r
  BY DEF RemoveAt
<1> HIDE DEF l, r
<1>5. l \o r \in Seq(S) /\ Len(l \o r) = Len(l) + Len(r)
  BY <1>2, <1>3, ConcatProperties
<1> QED BY <1>1, <1>2, <1>3, <1>4, <1>5

LEMMA CStrText ==
  ASSUME NEW S, NEW s \in Seq(S)
  PROVE  CStr(s) \in Seq(S) /\ Len(CStr(s)) <= Len(s)
<1> DEFINE I == {i \in 1 .. Len(s) : s[i] = NUL}
           n == IF I # {} THEN Min(I) ELSE 0
<1>0. Len(s) \in Nat
  OBVIOUS
<1>1. n \in 0 .. Len(s)
  <2>1. CASE I = {}
    BY <2>1
  <2>2. CASE I # {}
    <3>1. I \subseteq Nat
      BY <1>0
    <3>2. Min(I) = Least(I)
      BY DEF Min, Least
    <3>3. Min(I) \in I
      BY <2>2, <3>1, <3>2, LeastIn
    <3> QED BY <2>2, <3>3
  <2> QED BY <2>1, <2>2
<1>2. CStr(s) = IF n = 0 THEN s ELSE SubSeq(s, 1, n - 1)
  BY DEF CStr, SelectInSeq
<1> HIDE DEF n
<1>3. CASE n = 0
  BY <1>0, <1>2, <1>3
<1>4. CASE n # 0
  <2>1. n - 1 \in Nat /\ n - 1 <= Len(s) /\ 1 \in Nat \ {0}
    BY <1>0, <1>1, <1>4
  <2>2. SubSeq(s, 1, n - 1) \in Seq(S) /\ Len(SubSeq(s, 1, n - 1)) = IF 1 <= n - 1 THEN n - 1 - 1 + 1 ELSE 0
    BY <2>1, PartText
  <2> QED BY <1>2, <1>4, <2>1, <2>2
<1> QED BY <1>3, <1>4

\* Each number up to how many there are is the place of one of them.
LEMMA PartFinite == ASSUME NEW n \in Nat, NEW T, T \subseteq 1 .. n PROVE IsFiniteSet(T) /\ Cardinality(T) \in Nat
<1>1. n \in Int /\ 1 \in Int
  OBVIOUS
<1>2. IsFiniteSet(1 .. n)
  BY <1>1, FS_Interval
<1>3. IsFiniteSet(T)
  BY <1>2, FS_Subset
<1>4. Cardinality(T) \in Nat
  BY <1>3, FS_CardinalityType
<1> QED BY <1>3, <1>4

IsPlace(T, i, k) == Cardinality({j \in T : j <= i}) = k
LEMMA PlaceOf ==
  ASSUME NEW n \in Nat, NEW T, T \subseteq 1 .. n, NEW k \in 1 .. Cardinality(T)
  PROVE  \E i \in T : IsPlace(T, i, k)
<1> DEFINE U(i) == {j \in T : j <= i}
<1>1. \A j \in T : j \in Nat /\ j >= 1 /\ j <= n
  OBVIOUS
<1>2. \A i : IsFiniteSet(U(i)) /\ Cardinality(U(i)) \in Nat
  <2>1. ASSUME NEW i PROVE IsFiniteSet(U(i)) /\ Cardinality(U(i)) \in Nat
    <3>1. U(i) \subseteq 1 .. n
      OBVIOUS
    <3> QED BY <3>1, PartFinite
  <2> QED BY <2>1
<1>3. Cardinality(T) \in Nat /\ k \in Nat /\ k >= 1 /\ k <= Cardinality(T)
  <2>1. Cardinality(T) \in Nat
    BY PartFinite
  <2> QED BY <2>1
<1>4. U(n) = T /\ U(0) = {}
  <2>1. \A j \in T : j <= n /\ ~(j <= 0)
    BY <1>1
  <2> QED BY <2>1
<1> DEFINE B == {i \in 0 .. n : Cardinality(U(i)) >= k}
<1>5. B \subseteq Nat /\ n \in B
  <2>1. n \in 0 .. n /\ \A i \in 0 .. n : i \in Nat
    OBVIOUS
  <2> QED BY <1>3, <1>4, <2>1
<1>6. PICK i \in B : \A j \in B : i <= j
  <2>1. Least(B) \in B /\ \A j \in B : Least(B) <= j
    BY <1>5, LeastIn
  <2> QED BY <2>1
<1>7. i \in 0 .. n /\ Cardinality(U(i)) >= k
  BY <1>6
<1>8. \A j \in 0 .. n : Cardinality(U(j)) >= k => i <= j
  BY <1>6
<1> HIDE DEF B
<1>9. i # 0
  <2>1. Cardinality(U(0)) = 0
    BY <1>4, FS_EmptySet
  <2> QED BY <1>3, <1>7, <2>1
<1>10. PICK h : h = i - 1
  OBVIOUS
<1>11. i \in 1 .. n /\ h \in 0 .. n /\ i = h + 1 /\ h \in Nat
  BY <1>7, <1>9, <1>10
<1>12. ~(Cardinality(U(h)) >= k)
  BY <1>8, <1>11
<1>13. i \in T
  <2>1. SUFFICES ASSUME i \notin T PROVE FALSE
    OBVIOUS
  <2>2. \A j \in T : j <= i <=> j <= h
    BY <1>1, <1>11, <2>1
  <2>3. U(i) = U(h)
    BY <2>2
  <2> QED BY <1>7, <1>12, <2>3
<1>14. U(i) = U(h) \cup {i} /\ i \notin U(h)
  <2>1. \A j \in T : j <= i <=> j <= h \/ j = i
    BY <1>1, <1>11
  <2>2. ~(i <= h)
    BY <1>11
  <2> QED BY <1>13, <2>1, <2>2
<1>15. IsFiniteSet(U(h)) /\ Cardinality(U(h)) \in Nat
  BY <1>2
<1> HIDE DEF U
<1>16. Cardinality(U(h) \cup {i}) = Cardinality(U(h)) + 1
  BY <1>14, <1>15, FS_AddElement
<1>17. Cardinality(U(i)) = k
  BY <1>3, <1>7, <1>12, <1>14, <1>15, <1>16
<1>18. IsPlace(T, i, k)
  BY <1>17 DEF U, IsPlace
<1> QED BY <1>13, <1>18

\* The numbers of a set in their order are a sequence of them.
LEMMA OrderOf ==
  ASSUME NEW n \in Nat, NEW T, T \subseteq 1 .. n
  PROVE  InOrder(T) \in Seq(T) /\ Len(InOrder(T)) = Cardinality(T)
<1> DEFINE Place(k) == CHOOSE i \in T : Cardinality({j \in T : j <= i}) = k
           c == Cardinality(T)
<1>1. c \in Nat
  BY PartFinite
<1>2. \A k \in 1 .. c : Place(k) \in T
  <2>1. ASSUME NEW k \in 1 .. c PROVE Place(k) \in T
    <3>1. \E i \in T : IsPlace(T, i, k)
      BY PlaceOf
    <3> QED BY <3>1 DEF IsPlace
  <2> QED BY <2>1
<1>3. InOrder(T) = [k \in 1 .. c |-> Place(k)]
  BY DEF InOrder
<1> HIDE DEF c, Place
<1>4. InOrder(T) \in [1 .. c -> T]
  BY <1>2, <1>3
<1>5. InOrder(T) \in Seq(T) /\ Len(InOrder(T)) = c
  BY <1>1, <1>4
<1> QED BY <1>5 DEF c

LEMMA WithoutText ==
  ASSUME NEW S, NEW s \in Seq(S), NEW c
  PROVE  Without(s, c) \in Seq(S)
<1>1. DOMAIN s = 1 .. Len(s) /\ Len(s) \in Nat
  OBVIOUS
<1>2. PICK T : T = {i \in DOMAIN s : s[i] # c}
  OBVIOUS
<1>3. T \subseteq 1 .. Len(s)
  BY <1>1, <1>2
<1>4. PICK stay \in Seq(T) : stay = InOrder(T)
  <2>1. InOrder(T) \in Seq(T)
    BY <1>1, <1>3, OrderOf
  <2> QED BY <2>1, Zenon
<1>5. Without(s, c) = [k \in DOMAIN stay |-> s[stay[k]]]
  BY <1>2, <1>4, Zenon DEF Without
<1>6. Len(stay) \in Nat /\ DOMAIN stay = 1 .. Len(stay)
  BY <1>4
<1>7. \A k \in 1 .. Len(stay) : stay[k] \in T
  BY <1>4, ElementOfSeq
<1>8. \A k \in 1 .. Len(stay) : s[stay[k]] \in S
  BY <1>3, <1>7, ElementOfSeq
<1>9. [k \in 1 .. Len(stay) |-> s[stay[k]]] \in [1 .. Len(stay) -> S]
  BY <1>8
<1>10. \A m \in Nat : \A f \in [1 .. m -> S] : f \in Seq(S)
  OBVIOUS
<1> QED BY <1>5, <1>6, <1>9, <1>10

(***************************************************************************)
(* The editor's windows.                                                   *)
(***************************************************************************)
TextOK ==
  /\ buf \in [Wins -> Seq(Bytes)] /\ len \in [Wins -> Nat] /\ cursor \in [Wins -> Nat]
  /\ \A w \in Wins : Len(buf[w]) = BufSize /\ len[w] < BufSize /\ cursor[w] <= len[w]
UndoOK ==
  /\ undo \in [Wins -> Seq(Bytes)] /\ undoLen \in [Wins -> Nat] /\ undoCursor \in [Wins -> Nat]
  /\ hasUndo \in [Wins -> BOOLEAN] /\ hasRedo \in [Wins -> BOOLEAN] /\ before = [w \in Wins |-> before[w]]
  /\ \A w \in Wins : Len(undo[w]) = UndoSize /\ undoLen[w] < BufSize
  /\ \A w \in Wins : hasUndo[w] \/ hasRedo[w] =>
       undoCursor[w] <= undoLen[w] /\ (Len(before[w]) < UndoSize => SubSeq(undo[w], 1, undoLen[w]) = before[w])
SelOK   == sel \in [Wins -> [on : BOOLEAN, from : Nat, to : Nat]] /\ dragStart \in [Wins -> Nat]
FindOK  == find \in [Wins -> [on : BOOLEAN, pattern : Seq(Bytes), from : Nat]]
ClipOK  == clip \in Seq(Bytes)
RowsOK(f) == \A i \in Slots : f[i].data \in Seq(Bytes)
DiskOK  == disk \in [Dirs -> [{Key[n] : n \in Names} -> [kind : {"none", "file", "dir"}, data : Seq(Bytes)]]]
EditInv == TextOK /\ UndoOK /\ SelOK /\ FindOK /\ ClipOK /\ RowsOK(files) /\ DiskOK

LEMMA ByteFacts ==
  /\ NUL \in Bytes /\ "LF" \in Bytes /\ Chars \subseteq Bytes /\ DefaultText \in Seq(Bytes)
  /\ BufSize \in Nat /\ BufSize > 0 /\ UndoSize \in Nat /\ UndoSize > 0 /\ Len(DefaultText) \in Nat /\ Len(DefaultText) < BufSize
<1>1. NUL \in Bytes /\ "LF" \in Bytes /\ Chars \subseteq Bytes
  BY DEF Bytes
<1>2. DefaultText \in Seq(Chars) /\ BufSize \in Nat /\ UndoSize \in Nat \ {0} /\ Len(DefaultText) < BufSize
  BY NotepadAssumption
<1>3. Len(DefaultText) \in Nat
  BY <1>2
<1>4. DefaultText \in Seq(Bytes)
  <2>1. \A i \in 1 .. Len(DefaultText) : DefaultText[i] \in Bytes
    BY <1>1, <1>2, ElementOfSeq
  <2>2. DefaultText = [i \in 1 .. Len(DefaultText) |-> DefaultText[i]]
    BY <1>2
  <2> QED BY <1>3, <2>1, <2>2
<1> QED BY <1>1, <1>2, <1>3, <1>4

\* The text of a window.
LEMMA WindowText ==
  ASSUME TextOK, NEW w \in Wins
  PROVE  /\ Text(w) \in Seq(Bytes) /\ Len(Text(w)) = len[w] /\ len[w] \in Nat /\ len[w] < BufSize
         /\ cursor[w] \in Nat /\ cursor[w] <= len[w]
         /\ buf[w] \in Seq(Bytes) /\ Len(buf[w]) = BufSize
<1>1. /\ len[w] \in Nat /\ len[w] < BufSize /\ cursor[w] \in Nat /\ cursor[w] <= len[w]
      /\ buf[w] \in Seq(Bytes) /\ Len(buf[w]) = BufSize
  BY DEF TextOK
<1>2. len[w] <= Len(buf[w]) /\ 1 \in Nat \ {0}
  BY <1>1, ByteFacts
<1>3. Text(w) \in Seq(Bytes) /\ Len(Text(w)) = IF 1 <= len[w] THEN len[w] - 1 + 1 ELSE 0
  BY <1>1, <1>2, PartText DEF Text
<1> QED BY <1>1, <1>3

\* What a window shows, after a step has stored b with its length n.
LEMMA TextStep ==
  ASSUME TextOK, NEW w \in Wins, NEW b \in Seq(Bytes), Len(b) = BufSize,
         NEW n \in Nat, n < BufSize, NEW p \in Nat, p <= n,
         buf' = [buf EXCEPT ![w] = b], len' = [len EXCEPT ![w] = n], cursor' = [cursor EXCEPT ![w] = p]
  PROVE  TextOK'
<1>1. buf' \in [Wins -> Seq(Bytes)] /\ len' \in [Wins -> Nat] /\ cursor' \in [Wins -> Nat]
  BY DEF TextOK
<1>2. ASSUME NEW v \in Wins PROVE Len(buf'[v]) = BufSize /\ len'[v] < BufSize /\ cursor'[v] <= len'[v]
  <2>1. CASE v = w
    BY <2>1 DEF TextOK
  <2>2. CASE v # w
    <3>1. buf'[v] = buf[v] /\ len'[v] = len[v] /\ cursor'[v] = cursor[v]
      BY <2>2 DEF TextOK
    <3> QED BY <3>1 DEF TextOK
  <2> QED BY <2>1, <2>2
<1> QED BY <1>1, <1>2 DEF TextOK

LEMMA CursorStep ==
  ASSUME TextOK, NEW w \in Wins, NEW p \in Nat, p <= len[w], cursor' = [cursor EXCEPT ![w] = p], UNCHANGED <<buf, len>>
  PROVE  TextOK'
<1>1. cursor' \in [Wins -> Nat]
  BY DEF TextOK
<1>2. ASSUME NEW v \in Wins PROVE cursor'[v] <= len[v]
  <2>1. CASE v = w
    BY <2>1 DEF TextOK
  <2>2. CASE v # w
    BY <2>2 DEF TextOK
  <2> QED BY <2>1, <2>2
<1> QED BY <1>1, <1>2 DEF TextOK

LEMMA PutKeeps ==
  ASSUME TextOK, NEW w \in Wins, NEW text \in Seq(Bytes), Len(text) < BufSize, NEW pos \in Nat, pos <= Len(text), Put(w, text, pos)
  PROVE  TextOK'
<1>1. Len(text) \in Nat
  OBVIOUS
<1>2. Append(text, NUL) \in Seq(Bytes) /\ Len(Append(text, NUL)) = Len(text) + 1
  BY ByteFacts
<1>3. buf[w] \in Seq(Bytes) /\ Len(buf[w]) = BufSize
  BY WindowText
<1>4. Len(Append(text, NUL)) <= Len(buf[w])
  BY <1>1, <1>2, <1>3, ByteFacts
<1>5. PICK b : b = Over(buf[w], Append(text, NUL))
  OBVIOUS
<1>6. b \in Seq(Bytes) /\ Len(b) = BufSize
  BY <1>2, <1>3, <1>4, <1>5, OverText
<1>7. buf' = [buf EXCEPT ![w] = b] /\ len' = [len EXCEPT ![w] = Len(text)] /\ cursor' = [cursor EXCEPT ![w] = pos]
  BY <1>5 DEF Put
<1> QED BY <1>1, <1>6, <1>7, TextStep

\* What notepad_save_undo and an exchange store.
LEMMA SavedText ==
  ASSUME TextOK, UndoOK, NEW w \in Wins
  PROVE  /\ Saved(w) \in Seq(Bytes) /\ Len(Saved(w)) = UndoSize
         /\ Len(Text(w)) < UndoSize => SubSeq(Saved(w), 1, len[w]) = Text(w)
<1>1. Text(w) \in Seq(Bytes) /\ Len(Text(w)) = len[w] /\ len[w] \in Nat
  BY WindowText
<1>2. undo[w] \in Seq(Bytes) /\ Len(undo[w]) = UndoSize
  BY DEF UndoOK
<1>3. PICK m \in Nat : m = UndoSize - 1
  BY ByteFacts
<1>4. PICK t : t = UpTo(Text(w), m)
  OBVIOUS
<1>5. t \in Seq(Bytes) /\ Len(t) <= m /\ (Len(Text(w)) <= m => t = Text(w))
  BY <1>1, <1>3, <1>4, UpToText
<1>6. Len(t) <= Len(undo[w])
  <2>1. Len(t) \in Nat
    BY <1>5
  <2> QED BY <1>2, <1>3, <1>5, <2>1, ByteFacts
<1>7. Over(undo[w], t) \in Seq(Bytes) /\ Len(Over(undo[w], t)) = UndoSize /\ SubSeq(Over(undo[w], t), 1, Len(t)) = t
  BY <1>2, <1>5, <1>6, OverText
<1>8. Saved(w) = Over(undo[w], t)
  BY <1>3, <1>4 DEF Saved
<1>9. Len(Text(w)) < UndoSize => Len(Text(w)) <= m
  BY <1>1, <1>3, ByteFacts
<1> QED BY <1>1, <1>5, <1>7, <1>8, <1>9

LEMMA UndoStep ==
  ASSUME TextOK, UndoOK, NEW w \in Wins,
         undo' = [undo EXCEPT ![w] = Saved(w)], undoLen' = [undoLen EXCEPT ![w] = len[w]],
         undoCursor' = [undoCursor EXCEPT ![w] = cursor[w]], before' = [before EXCEPT ![w] = Text(w)],
         NEW h \in BOOLEAN, NEW r \in BOOLEAN, hasUndo' = [hasUndo EXCEPT ![w] = h], hasRedo' = [hasRedo EXCEPT ![w] = r]
  PROVE  UndoOK'
<1>1. /\ Saved(w) \in Seq(Bytes) /\ Len(Saved(w)) = UndoSize
      /\ Len(Text(w)) < UndoSize => SubSeq(Saved(w), 1, len[w]) = Text(w)
  BY SavedText
<1>2. len[w] \in Nat /\ len[w] < BufSize /\ cursor[w] \in Nat /\ cursor[w] <= len[w]
  BY WindowText
<1>3. PICK s, t : s = Saved(w) /\ t = Text(w)
  OBVIOUS
<1>4. undo' = [undo EXCEPT ![w] = s] /\ before' = [before EXCEPT ![w] = t]
  BY <1>3
<1>5. /\ undo' \in [Wins -> Seq(Bytes)] /\ undoLen' \in [Wins -> Nat] /\ undoCursor' \in [Wins -> Nat]
      /\ hasUndo' \in [Wins -> BOOLEAN] /\ hasRedo' \in [Wins -> BOOLEAN] /\ before' = [v \in Wins |-> before'[v]]
  <2>1. undo' \in [Wins -> Seq(Bytes)]
    BY <1>1, <1>3, <1>4 DEF UndoOK
  <2>2. undoLen' \in [Wins -> Nat] /\ undoCursor' \in [Wins -> Nat]
    BY <1>2 DEF UndoOK
  <2>3. hasUndo' \in [Wins -> BOOLEAN] /\ hasRedo' \in [Wins -> BOOLEAN]
    BY DEF UndoOK
  <2>4. before' = [v \in Wins |-> before'[v]]
    BY <1>4 DEF UndoOK
  <2> QED BY <2>1, <2>2, <2>3, <2>4
<1>6. undo'[w] = s /\ undoLen'[w] = len[w] /\ undoCursor'[w] = cursor[w] /\ before'[w] = t
  BY <1>4 DEF UndoOK
<1>7. ASSUME NEW v \in Wins, v # w
      PROVE  /\ undo'[v] = undo[v] /\ undoLen'[v] = undoLen[v] /\ undoCursor'[v] = undoCursor[v] /\ before'[v] = before[v]
             /\ hasUndo'[v] = hasUndo[v] /\ hasRedo'[v] = hasRedo[v]
  BY <1>4, <1>7 DEF UndoOK
<1>8. ASSUME NEW v \in Wins PROVE Len(undo'[v]) = UndoSize /\ undoLen'[v] < BufSize
  BY <1>1, <1>2, <1>3, <1>6, <1>7 DEF UndoOK
<1>9. ASSUME NEW v \in Wins, hasUndo'[v] \/ hasRedo'[v]
      PROVE  /\ undoCursor'[v] <= undoLen'[v]
             /\ Len(before'[v]) < UndoSize => SubSeq(undo'[v], 1, undoLen'[v]) = before'[v]
  <2>1. CASE v = w
    BY <1>1, <1>2, <1>3, <1>6, <2>1
  <2>2. CASE v # w
    BY <1>7, <1>9, <2>2 DEF UndoOK
  <2> QED BY <2>1, <2>2
<1> QED BY <1>5, <1>8, <1>9 DEF UndoOK

LEMMA SaveUndoKeeps == ASSUME TextOK, UndoOK, NEW w \in Wins, SaveUndo(w) PROVE UndoOK'
<1>1. hasRedo' = [hasRedo EXCEPT ![w] = hasRedo[w]] /\ hasRedo[w] \in BOOLEAN /\ TRUE \in BOOLEAN
  BY DEF SaveUndo, UndoOK
<1> QED BY <1>1, UndoStep DEF SaveUndo

LEMMA LesserOf == ASSUME NEW a \in Nat, NEW b \in Nat PROVE Min2(a, b) \in Nat /\ Min2(a, b) <= a /\ Min2(a, b) <= b
BY DEF Min2

\* notepad_undo, notepad_redo.
LEMMA ExchangeKeeps ==
  ASSUME TextOK, UndoOK, NEW w \in Wins, hasUndo[w] \/ hasRedo[w], Exchange(w),
         NEW h \in BOOLEAN, NEW r \in BOOLEAN, hasUndo' = [hasUndo EXCEPT ![w] = h], hasRedo' = [hasRedo EXCEPT ![w] = r]
  PROVE  TextOK' /\ UndoOK'
<1>1. UndoOK'
  BY UndoStep DEF Exchange
<1>2. PICK n, p : n = undoLen[w] /\ p = undoCursor[w]
  OBVIOUS
<1>3. n \in Nat /\ n < BufSize /\ p \in Nat /\ p <= n /\ undo[w] \in Seq(Bytes) /\ Len(undo[w]) = UndoSize
  BY <1>2 DEF UndoOK
<1>4. PICK junk \in Bytes : buf' = [buf EXCEPT ![w] = Over(@, [i \in 1 .. n |-> IF i <= UndoSize THEN undo[w][i] ELSE junk])]
  BY <1>2, ByteFacts DEF Exchange
<1>5. PICK t : t = [i \in 1 .. n |-> IF i <= UndoSize THEN undo[w][i] ELSE junk]
  OBVIOUS
<1>6. t \in Seq(Bytes) /\ Len(t) = n
  <2>1. ASSUME NEW i \in 1 .. n PROVE (IF i <= UndoSize THEN undo[w][i] ELSE junk) \in Bytes
    <3>1. i <= UndoSize => i \in 1 .. Len(undo[w])
      BY <1>3, ByteFacts
    <3>2. i <= UndoSize => undo[w][i] \in Bytes
      BY <1>3, <3>1, ElementOfSeq
    <3> QED BY <3>2
  <2>2. t \in [1 .. n -> Bytes]
    BY <1>5, <2>1
  <2> QED BY <1>3, <2>2
<1>7. buf[w] \in Seq(Bytes) /\ Len(buf[w]) = BufSize
  BY WindowText
<1>8. PICK b : b = Over(buf[w], t)
  OBVIOUS
<1>9. b \in Seq(Bytes) /\ Len(b) = BufSize
  <2>1. Len(t) <= Len(buf[w])
    BY <1>3, <1>6, <1>7, ByteFacts
  <2> QED BY <1>6, <1>7, <1>8, <2>1, OverText
<1>10. buf' = [buf EXCEPT ![w] = b] /\ len' = [len EXCEPT ![w] = n] /\ cursor' = [cursor EXCEPT ![w] = p]
  BY <1>2, <1>4, <1>5, <1>8 DEF Exchange
<1>11. TextOK'
  BY <1>3, <1>9, <1>10, TextStep
<1> QED BY <1>1, <1>11

\* notepad_copy.
LEMMA CopiedText == ASSUME TextOK, SelOK, NEW w \in Wins PROVE Copied(w) \in Seq(Bytes)
<1> DEFINE from == IF sel[w].on THEN sel[w].from ELSE 0
           to   == IF sel[w].on THEN Min2(sel[w].to, len[w]) ELSE len[w]
<1>1. len[w] \in Nat /\ len[w] < BufSize /\ buf[w] \in Seq(Bytes) /\ Len(buf[w]) = BufSize
  BY WindowText
<1>2. sel[w].from \in Nat /\ sel[w].to \in Nat
  BY DEF SelOK
<1>3. from \in Nat /\ to \in Nat /\ to <= len[w]
  BY <1>1, <1>2 DEF Min2
<1>4. Copied(w) = UpTo(SubSeq(buf[w], from + 1, to), ClipSize - 1)
  BY DEF Copied
<1> HIDE DEF from, to
<1>5. from + 1 \in Nat \ {0} /\ to <= Len(buf[w]) /\ ClipSize - 1 \in Nat
  BY <1>1, <1>3, ByteFacts, NotepadAssumption
<1>6. PICK t, m : t = SubSeq(buf[w], from + 1, to) /\ m = ClipSize - 1
  OBVIOUS
<1>7. t \in Seq(Bytes)
  BY <1>1, <1>3, <1>5, <1>6, PartText
<1>8. m \in Nat
  BY <1>5, <1>6
<1>9. UpTo(t, m) \in Seq(Bytes)
  BY <1>7, <1>8, UpToText
<1> QED BY <1>4, <1>6, <1>9

\* The end of the word at a place: the next byte is no part of it.
LEMMA WordEnds ==
  ASSUME NEW a \in Nat, NEW n \in Nat, a <= n, NEW G, a \in G
  PROVE  \E j \in a .. n : (\A k \in a .. j : k \in G) /\ (j = n \/ j + 1 \notin G)
<1> DEFINE E == {j \in a .. n : j = n \/ j + 1 \notin G}
<1>1. E \subseteq Nat /\ n \in E
  OBVIOUS
<1>2. PICK j : j = Least(E)
  OBVIOUS
<1>3. j \in E /\ \A i \in E : j <= i
  BY <1>1, <1>2, LeastIn
<1>4. ASSUME NEW k \in a .. j PROVE k \in G
  <2>1. CASE k = a
    BY <2>1
  <2>2. CASE k # a
    <3>1. PICK h : h = k - 1
      OBVIOUS
    <3>2. j \in Nat /\ j <= n /\ k \in Nat /\ k <= j /\ k >= a
      BY <1>3, <1>4
    <3>3. h \in a .. n /\ h + 1 = k /\ h < j
      BY <2>2, <3>1, <3>2
    <3>4. h \notin E
      BY <1>3, <3>2, <3>3
    <3> QED BY <3>3, <3>4
  <2> QED BY <2>1, <2>2
<1> QED BY <1>3, <1>4

\* notepad_extract_token.
LEMMA TokenText == ASSUME TextOK, NEW w \in Wins PROVE Token(w) \in Seq(Bytes)
<1> DEFINE at == IF cursor[w] > 0 THEN Min2(cursor[w], len[w]) ELSE 1
           Word(i, j) == \A k \in i .. j : buf[w][k] \in WordChar
           F == {i \in 1 .. at : Word(i, at)}
           Closes(j) == Word(at, j) /\ (j = len[w] \/ ~Word(at, j + 1))
           last == CHOOSE j \in at .. len[w] : Closes(j)
<1>1. /\ len[w] \in Nat /\ len[w] < BufSize /\ buf[w] \in Seq(Bytes) /\ Len(buf[w]) = BufSize
      /\ cursor[w] \in Nat /\ cursor[w] <= len[w]
  BY WindowText
<1>2. Token(w) = IF len[w] = 0 \/ ~Word(at, at) THEN <<>> ELSE UpTo(SubSeq(buf[w], Least(F), last), TokenSize - 1)
  BY DEF Token
<1>3. CASE len[w] = 0 \/ ~Word(at, at)
  BY <1>2, <1>3
<1>4. CASE ~(len[w] = 0 \/ ~Word(at, at))
  <2>1. at \in Nat /\ at >= 1 /\ at <= len[w]
    BY <1>1, <1>4 DEF Min2
  <2>2. Word(at, at)
    BY <1>4
  <2> HIDE DEF at
  <2>3. Least(F) \in Nat /\ Least(F) # 0
    <3>1. at \in F /\ F \subseteq Nat
      BY <2>1, <2>2
    <3>2. Least(F) \in F
      BY <3>1, LeastIn
    <3> QED BY <2>1, <3>2
  <2>4. \E j \in at .. len[w] : Closes(j)
    <3> DEFINE G == {k \in Nat : buf[w][k] \in WordChar}
    <3>1. at \in G
      BY <2>1, <2>2
    <3>2. PICK j \in at .. len[w] : (\A k \in at .. j : k \in G) /\ (j = len[w] \/ j + 1 \notin G)
      <4> HIDE DEF G
      <4> QED BY <1>1, <2>1, <3>1, WordEnds
    <3>3. j \in Nat /\ j + 1 \in at .. j + 1 /\ j + 1 \in Nat
      BY <2>1
    <3>4. Word(at, j)
      BY <3>2
    <3>5. j + 1 \notin G => ~Word(at, j + 1)
      BY <3>3
    <3> QED BY <3>2, <3>4, <3>5
  <2>5. last \in at .. len[w]
    BY <2>4
  <2> HIDE DEF last, F
  <2>6. last \in Nat /\ last <= Len(buf[w]) /\ TokenSize - 1 \in Nat
    BY <1>1, <2>1, <2>5, ByteFacts, NotepadAssumption
  <2>7. PICK i : i = Least(F)
    OBVIOUS
  <2>8. SubSeq(buf[w], i, last) \in Seq(Bytes)
    BY <1>1, <2>3, <2>6, <2>7, PartText
  <2>9. UpTo(SubSeq(buf[w], i, last), TokenSize - 1) \in Seq(Bytes)
    BY <2>6, <2>8, UpToText
  <2> QED BY <1>2, <1>4, <2>7, <2>9
<1> QED BY <1>3, <1>4

\* notepad_find_next.
LEMMA FindKeeps ==
  ASSUME TextOK, SelOK, FindOK, NEW w \in Wins, NEW reset \in BOOLEAN, FindNext(w, reset), UNCHANGED dragStart
  PROVE  TextOK' /\ SelOK' /\ FindOK'
<1> DEFINE fresh == reset \/ ~find[w].on
           f     == IF fresh THEN [on |-> TRUE, pattern |-> Token(w), from |-> cursor[w]] ELSE find[w]
           found == Matches(w, f.pattern)
           start == NextMatch(found, Min2(f.from, len[w]))
           at    == start + Len(f.pattern)
<1>1. len[w] \in Nat /\ cursor[w] \in Nat /\ Token(w) \in Seq(Bytes)
  BY WindowText, TokenText
<1>2. f \in [on : BOOLEAN, pattern : Seq(Bytes), from : Nat]
  <2>1. CASE fresh
    BY <1>1, <2>1
  <2>2. CASE ~fresh
    BY <2>2 DEF FindOK
  <2> QED BY <2>1, <2>2
<1>3. /\ IF found = {} THEN find' = [find EXCEPT ![w] = f] /\ UNCHANGED <<cursor, sel>>
         ELSE /\ find' = [find EXCEPT ![w] = [f EXCEPT !.from = at]]
              /\ cursor' = [cursor EXCEPT ![w] = at]
              /\ sel' = [sel EXCEPT ![w] = [on |-> TRUE, from |-> at - Len(f.pattern), to |-> at]]
      /\ UNCHANGED <<buf, len>>
  BY DEF FindNext
<1>4. found = {i \in 0 .. len[w] - Len(f.pattern) : SubSeq(buf[w], i + 1, i + Len(f.pattern)) = f.pattern}
  BY DEF Matches
<1> HIDE DEF f
<1>5. Len(f.pattern) \in Nat /\ f.pattern \in Seq(Bytes) /\ f.from \in Nat
  BY <1>2
<1>6. CASE found = {}
  <2>1. FindOK'
    BY <1>2, <1>3, <1>6 DEF FindOK
  <2>2. TextOK' /\ SelOK'
    BY <1>3, <1>6 DEF TextOK, SelOK
  <2> QED BY <2>1, <2>2
<1>7. CASE found # {}
  <2>1. found \subseteq Nat
    BY <1>1, <1>4, <1>5
  <2>2. start \in found
    <3> DEFINE q == Min2(f.from, len[w])
               L == {i \in found : i >= q}
    <3>1. start = IF \E i \in found : i >= q THEN Least(L) ELSE Least(found)
      BY DEF NextMatch
    <3> HIDE DEF found, q
    <3>2. L # {} => Least(L) \in L
      <4>1. L \subseteq Nat
        BY <2>1
      <4> QED BY <4>1, LeastIn
    <3>3. Least(found) \in found
      BY <1>7, <2>1, LeastIn
    <3> QED BY <3>1, <3>2, <3>3
  <2>3. start \in Nat /\ start <= len[w] - Len(f.pattern)
    BY <1>1, <1>4, <1>5, <2>1, <2>2
  <2> HIDE DEF found, start
  <2>4. at \in Nat /\ at <= len[w] /\ at - Len(f.pattern) \in Nat
    BY <1>1, <1>5, <2>3
  <2> HIDE DEF at
  <2>5. TextOK'
    BY <1>3, <1>7, <2>4, CursorStep
  <2>6. PICK back : back = at - Len(f.pattern)
    OBVIOUS
  <2>7. SelOK'
    <3>1. sel' = [sel EXCEPT ![w] = [on |-> TRUE, from |-> back, to |-> at]]
      BY <1>3, <1>7, <2>6
    <3>2. [on |-> TRUE, from |-> back, to |-> at] \in [on : BOOLEAN, from : Nat, to : Nat]
      BY <2>4, <2>6
    <3> QED BY <3>1, <3>2 DEF SelOK
  <2>8. FindOK'
    <3>1. [f EXCEPT !.from = at] \in [on : BOOLEAN, pattern : Seq(Bytes), from : Nat]
      BY <1>2, <2>4
    <3> QED BY <1>3, <1>7, <3>1 DEF FindOK
  <2> QED BY <2>5, <2>7, <2>8
<1> QED BY <1>6, <1>7

LEMMA DeselectKeeps == ASSUME SelOK, NEW w, Deselect(w), UNCHANGED dragStart PROVE SelOK'
<1>1. sel' = [sel EXCEPT ![w].on = FALSE]
  BY DEF Deselect
<1>2. sel' \in [Wins -> [on : BOOLEAN, from : Nat, to : Nat]]
  BY <1>1 DEF SelOK
<1> QED BY <1>2 DEF SelOK

\* notepad_paste.
LEMMA PasteKeeps ==
  ASSUME TextOK, UndoOK, SelOK, ClipOK, NEW w \in Wins, Paste(w), UNCHANGED dragStart
  PROVE  TextOK' /\ UndoOK' /\ SelOK' /\ ClipOK'
<1>1. /\ Text(w) \in Seq(Bytes) /\ Len(Text(w)) = len[w] /\ len[w] \in Nat /\ len[w] < BufSize
      /\ cursor[w] \in Nat /\ cursor[w] <= len[w]
  BY WindowText
<1>2. PICK m, piece, pos, s : m = BufSize - len[w] - 1 /\ piece = UpTo(clip, m) /\ pos = Min2(cursor[w], len[w]) /\ s = Text(w)
  OBVIOUS
<1>3. m \in Nat /\ m + len[w] + 1 = BufSize
  BY <1>1, <1>2, ByteFacts
<1>4. pos \in Nat /\ pos <= len[w]
  BY <1>1, <1>2 DEF Min2
<1>5. piece \in Seq(Bytes) /\ Len(piece) <= m /\ Len(piece) \in Nat
  <2>1. piece \in Seq(Bytes) /\ Len(piece) <= m
    BY <1>2, <1>3, UpToText DEF ClipOK
  <2> QED BY <2>1
<1>6. SaveUndo(w) /\ Put(w, Insert(s, pos, piece), pos + Len(piece)) /\ clip' = piece /\ Deselect(w)
  BY <1>2 DEF Paste
<1>7. PICK t, p : t = Insert(s, pos, piece) /\ p = pos + Len(piece)
  OBVIOUS
<1>8. s \in Seq(Bytes) /\ Len(s) = len[w] /\ pos <= Len(s)
  BY <1>1, <1>2, <1>4
<1>9. t \in Seq(Bytes) /\ Len(t) = len[w] + Len(piece)
  BY <1>4, <1>5, <1>7, <1>8, InsertText
<1>10. p \in Nat /\ p <= Len(t) /\ Len(t) < BufSize
  BY <1>1, <1>3, <1>4, <1>5, <1>7, <1>9
<1>11. TextOK'
  BY <1>6, <1>7, <1>9, <1>10, PutKeeps
<1>12. UndoOK' /\ SelOK'
  BY <1>6, SaveUndoKeeps, DeselectKeeps
<1> QED BY <1>5, <1>6, <1>11, <1>12 DEF ClipOK

LEMMA ClearKeeps ==
  ASSUME TextOK, UndoOK, SelOK, NEW w \in Wins, ClearText(w), UNCHANGED dragStart
  PROVE  TextOK' /\ UndoOK' /\ SelOK'
<1>1. SaveUndo(w) /\ Put(w, <<>>, 0) /\ Deselect(w)
  BY DEF ClearText
<1>2. <<>> \in Seq(Bytes) /\ Len(<<>>) = 0 /\ 0 \in Nat /\ 0 <= 0
  OBVIOUS
<1>3. TextOK'
  <2>1. PICK t : t = <<>>
    OBVIOUS
  <2>2. t \in Seq(Bytes) /\ Len(t) < BufSize /\ 0 <= Len(t) /\ Put(w, t, 0)
    BY <1>1, <1>2, <2>1, ByteFacts
  <2> QED BY <1>2, <2>2, PutKeeps
<1> QED BY <1>1, <1>3, SaveUndoKeeps, DeselectKeeps

\* A character more, a character less.
LEMMA InsertKeeps ==
  ASSUME TextOK, NEW w \in Wins, NEW c \in Bytes, len[w] < BufSize - 1, Put(w, Insert(Text(w), cursor[w], <<c>>), cursor[w] + 1)
  PROVE  TextOK'
<1>1. /\ Text(w) \in Seq(Bytes) /\ Len(Text(w)) = len[w] /\ len[w] \in Nat /\ cursor[w] \in Nat /\ cursor[w] <= len[w]
  BY WindowText
<1>2. PICK s, i, k, t, p : s = Text(w) /\ i = cursor[w] /\ k = <<c>> /\ t = Insert(s, i, k) /\ p = i + 1
  OBVIOUS
<1>3. k \in Seq(Bytes) /\ Len(k) = 1
  BY <1>2
<1>4. s \in Seq(Bytes) /\ Len(s) = len[w] /\ i \in Nat /\ i <= Len(s)
  BY <1>1, <1>2
<1>5. t \in Seq(Bytes) /\ Len(t) = len[w] + 1
  <2>1. t \in Seq(Bytes) /\ Len(t) = Len(s) + Len(k)
    BY <1>2, <1>3, <1>4, InsertText
  <2> QED BY <1>3, <1>4, <2>1
<1>6. p \in Nat /\ p <= Len(t) /\ Len(t) < BufSize
  BY <1>1, <1>2, <1>4, <1>5, ByteFacts
<1>7. Put(w, t, p)
  BY <1>2
<1> QED BY <1>5, <1>6, <1>7, PutKeeps

LEMMA EraseKeeps ==
  ASSUME TextOK, NEW w \in Wins, cursor[w] \in 1 .. len[w], Put(w, RemoveAt(Text(w), cursor[w]), cursor[w] - 1)
  PROVE  TextOK'
<1>1. /\ Text(w) \in Seq(Bytes) /\ Len(Text(w)) = len[w] /\ len[w] \in Nat /\ len[w] < BufSize /\ cursor[w] \in Nat
  BY WindowText
<1>2. PICK t, c, p : t = RemoveAt(Text(w), c) /\ c = cursor[w] /\ p = cursor[w] - 1
  OBVIOUS
<1>3. t \in Seq(Bytes) /\ Len(t) = len[w] - 1
  BY <1>1, <1>2, RemoveText
<1>4. p \in Nat /\ p <= Len(t) /\ Len(t) < BufSize /\ Put(w, t, p)
  BY <1>1, <1>2, <1>3, ByteFacts
<1> QED BY <1>3, <1>4, PutKeeps

\* Where the mouse points.
LEMMA PointKeeps ==
  ASSUME TextOK, SelOK, NEW w \in Wins, Point(w)
  PROVE  TextOK' /\ SelOK'
<1>1. PICK pos \in 0 .. len[w] : Click(w, pos) \/ Drag(w, pos)
  BY DEF Point
<1>2. len[w] \in Nat /\ pos \in Nat /\ pos <= len[w] /\ UNCHANGED <<buf, len>>
  BY <1>1, WindowText DEF Point
<1>3. CASE UNCHANGED <<mouse, sel, cursor>>
  BY <1>2, <1>3 DEF TextOK, SelOK, mouse
<1>4. ASSUME NEW a \in Nat, NEW b \in Nat, NEW on \in BOOLEAN, sel' = [sel EXCEPT ![w] = [on |-> on, from |-> a, to |-> b]],
             cursor' = [cursor EXCEPT ![w] = pos], dragStart' = dragStart \/ dragStart' = [dragStart EXCEPT ![w] = pos]
      PROVE  TextOK' /\ SelOK'
  <2>1. TextOK'
    BY <1>2, <1>4, CursorStep
  <2>2. [on |-> on, from |-> a, to |-> b] \in [on : BOOLEAN, from : Nat, to : Nat]
    OBVIOUS
  <2>3. SelOK'
    BY <1>2, <1>4, <2>2 DEF SelOK
  <2> QED BY <2>1, <2>3
<1>5. CASE Click(w, pos) /\ ~(drag >= 0)
  <2>1. (pos < len[w]) \in BOOLEAN
    OBVIOUS
  <2>2. PICK on \in BOOLEAN : on = (pos < len[w])
    BY <2>1
  <2> QED BY <1>2, <1>4, <1>5, <2>2 DEF Click
<1>6. CASE Drag(w, pos)
  <2>1. PICK a, b : a = Min2(pos, dragStart[w]) /\ b = pos + dragStart[w] - a
    OBVIOUS
  <2>2. dragStart[w] \in Nat
    BY DEF SelOK
  <2>3. a \in Nat /\ b \in Nat
    BY <1>2, <2>1, <2>2 DEF Min2
  <2>4. (a < b) \in BOOLEAN
    OBVIOUS
  <2>5. PICK on \in BOOLEAN : on = (a < b)
    BY <2>4
  <2> QED BY <1>4, <1>6, <2>1, <2>3, <2>5 DEF Drag, mouse
<1> QED BY <1>1, <1>3, <1>5, <1>6 DEF Click

(* The table and the volume hold texts. *)
LEMMA OnDiskText == ASSUME DiskOK, NEW d \in Dirs, NEW n \in Names PROVE OnDisk(d, n).data \in Seq(Bytes)
<1>1. PICK E, K : E = [kind : {"none", "file", "dir"}, data : Seq(Bytes)] /\ K = {Key[m] : m \in Names}
  OBVIOUS
<1>2. disk \in [Dirs -> [K -> E]]
  BY <1>1 DEF DiskOK
<1>3. Key[n] \in K
  BY <1>1
<1>4. disk[d][Key[n]] \in E
  BY <1>2, <1>3
<1> QED BY <1>1, <1>4 DEF OnDisk

LEMMA UpToBytes == ASSUME NEW s \in Seq(Bytes), NEW n \in Nat PROVE UpTo(s, n) \in Seq(Bytes)
BY UpToText

LEMMA TakeRows ==
  ASSUME IsTable(files), RowsOK(files), NEW n, NEW d \in Seq(Bytes), Spare # {}
  PROVE  RowsOK(Take(n, d).table)
<1>1. PICK i : i = Least(Spare)
  OBVIOUS
<1>2. PICK row : row = [used |-> TRUE, name |-> Cut[n], data |-> d]
  OBVIOUS
<1>3. Take(n, d).table = [files EXCEPT ![i] = row] /\ row.data = d
  BY <1>1, <1>2 DEF Take, Fd
<1>4. files = [j \in Slots |-> files[j]]
  BY DEF IsTable
<1> QED BY <1>3, <1>4 DEF RowsOK

LEMMA OpenRows ==
  ASSUME IsTable(files), RowsOK(files), DiskOK, NEW n \in Names
  PROVE  RowsOK(FsOpen(n).table) /\ RowsOK(FsCreate(n).table)
<1>1. \A i : Fd(i, files).table = files
  BY DEF Fd
<1>2. Failed.table = files
  BY <1>1 DEF Failed
<1>3. <<>> \in Seq(Bytes) /\ UpTo(OnDisk("root", n).data, MaxData) \in Seq(Bytes)
  <2>1. "root" \in Dirs /\ MaxData \in Nat
    BY RamFilesAssumption DEF Dirs
  <2> QED BY <2>1, OnDiskText, UpToBytes
<1>4. PICK d \in Seq(Bytes) : d = UpTo(OnDisk("root", n).data, MaxData)
  BY <1>3
<1>5. Spare # {} => RowsOK(Take(n, d).table) /\ RowsOK(Take(n, <<>>).table)
  BY <1>3, TakeRows
<1>6. FsOpen(n).table = files \/ (Spare # {} /\ FsOpen(n).table = Take(n, d).table)
  BY <1>1, <1>2, <1>4 DEF FsOpen
<1>7. FsCreate(n).table = files \/ (Spare # {} /\ FsCreate(n).table = Take(n, <<>>).table)
  BY <1>1, <1>2 DEF FsCreate
<1> QED BY <1>5, <1>6, <1>7

LEMMA DeleteRows == ASSUME IsTable(files), RowsOK(files), NEW n \in Names PROVE RowsOK(FsDelete(n).table)
<1>1. ASSUME NEW i, Drops(files, FsDelete(n).table, i, n) PROVE RowsOK(FsDelete(n).table)
  BY <1>1, DropsRows DEF RowsOK
<1> QED BY <1>1, DeleteDrops

LEMMA GivenTable == ASSUME IsTable(files), NEW n, NEW r, Gives(r, n) PROVE IsTable(r.table) /\ (r.fd # 0 => r.fd \in Slots)
<1>1. ASSUME NEW d, Takes(files, r.table, r.fd, n, d) PROVE IsTable(r.table) /\ r.fd \in Slots
  BY <1>1, TakesRows DEF Takes
<1> QED BY <1>1 DEF Gives, Of

(* app_open, on_open, notepad_open_file: nothing is left to undo.           *)
LEMMA ForgetKeeps ==
  ASSUME UndoOK, NEW w \in Wins, undoLen' = undoLen \/ undoLen' = [undoLen EXCEPT ![w] = 0], UNCHANGED <<undo, undoCursor, before>>,
         hasUndo' = [hasUndo EXCEPT ![w] = FALSE], hasRedo' = [hasRedo EXCEPT ![w] = FALSE]
  PROVE  UndoOK'
<1>1. /\ undo' \in [Wins -> Seq(Bytes)] /\ undoLen' \in [Wins -> Nat] /\ undoCursor' \in [Wins -> Nat]
      /\ hasUndo' \in [Wins -> BOOLEAN] /\ hasRedo' \in [Wins -> BOOLEAN] /\ before' = [v \in Wins |-> before'[v]]
  <2>1. undo' \in [Wins -> Seq(Bytes)] /\ undoCursor' \in [Wins -> Nat] /\ before' = [v \in Wins |-> before'[v]]
    BY DEF UndoOK
  <2>2. undoLen' \in [Wins -> Nat]
    BY DEF UndoOK
  <2>3. hasUndo' \in [Wins -> BOOLEAN] /\ hasRedo' \in [Wins -> BOOLEAN]
    BY DEF UndoOK
  <2> QED BY <2>1, <2>2, <2>3
<1>2. ~hasUndo'[w] /\ ~hasRedo'[w] /\ undoLen'[w] < BufSize
  BY ByteFacts DEF UndoOK
<1>3. ASSUME NEW v \in Wins, v # w PROVE undoLen'[v] = undoLen[v] /\ hasUndo'[v] = hasUndo[v] /\ hasRedo'[v] = hasRedo[v]
  BY <1>3 DEF UndoOK
<1>4. ASSUME NEW v \in Wins PROVE Len(undo'[v]) = UndoSize /\ undoLen'[v] < BufSize
  BY <1>2, <1>3 DEF UndoOK
<1>5. ASSUME NEW v \in Wins, hasUndo'[v] \/ hasRedo'[v]
      PROVE  /\ undoCursor'[v] <= undoLen'[v]
             /\ Len(before'[v]) < UndoSize => SubSeq(undo'[v], 1, undoLen'[v]) = before'[v]
  BY <1>2, <1>3, <1>5 DEF UndoOK
<1> QED BY <1>1, <1>4, <1>5 DEF UndoOK

LEMMA DefaultShown ==
  ASSUME TextOK, NEW w \in Wins
  PROVE  /\ Over(Over(buf[w], <<NUL>>), DefaultText) \in Seq(Bytes)
         /\ Len(Over(Over(buf[w], <<NUL>>), DefaultText)) = BufSize
<1>1. PICK a, z, b : a = buf[w] /\ z = <<NUL>> /\ b = Over(a, z)
  OBVIOUS
<1>2. a \in Seq(Bytes) /\ Len(a) = BufSize
  BY <1>1, WindowText
<1>3. z \in Seq(Bytes) /\ Len(z) = 1 /\ Len(z) <= Len(a)
  BY <1>1, <1>2, ByteFacts
<1>4. b \in Seq(Bytes) /\ Len(b) = BufSize
  BY <1>1, <1>2, <1>3, OverText
<1>5. Len(DefaultText) <= Len(b)
  BY <1>4, ByteFacts
<1>6. Over(b, DefaultText) \in Seq(Bytes) /\ Len(Over(b, DefaultText)) = BufSize
  BY <1>4, <1>5, ByteFacts, OverText
<1> QED BY <1>1, <1>6

LEMMA NewEdit == ASSUME EditInv, NEW w \in Wins, New(w) PROVE EditInv'
<1>1. FreshWindow(w) /\ UNCHANGED <<undo, undoLen, undoCursor, before, clip, dragStart, files, disk>>
  BY DEF New, mouse, fsvars
<1>2. TextOK'
  <2>1. PICK b : b = Over(Over(buf[w], <<NUL>>), DefaultText)
    OBVIOUS
  <2>2. b \in Seq(Bytes) /\ Len(b) = BufSize
    BY <2>1, DefaultShown DEF EditInv
  <2>3. PICK n : n = Len(DefaultText)
    OBVIOUS
  <2>4. n \in Nat /\ n < BufSize /\ n <= n
    BY <2>3, ByteFacts
  <2>5. buf' = [buf EXCEPT ![w] = b] /\ len' = [len EXCEPT ![w] = n] /\ cursor' = [cursor EXCEPT ![w] = n]
    BY <1>1, <2>1, <2>3 DEF FreshWindow
  <2> QED BY <2>2, <2>4, <2>5, TextStep DEF EditInv
<1>3. UndoOK'
  BY <1>1, ForgetKeeps DEF EditInv, FreshWindow
<1>4. SelOK'
  BY <1>1, DeselectKeeps DEF EditInv, FreshWindow
<1>5. FindOK'
  BY <1>1 DEF EditInv, FreshWindow, FindOK
<1>6. ClipOK' /\ RowsOK(files)' /\ DiskOK'
  BY <1>1 DEF EditInv, ClipOK, RowsOK, DiskOK
<1> QED BY <1>2, <1>3, <1>4, <1>5, <1>6 DEF EditInv

\* What fs_read_file_in_dir returns is a text.
LEMMA ReadText ==
  ASSUME IsTable(files), RowsOK(files), DiskOK, NEW d \in Dirs, NEW n \in Names
  PROVE  FsRead(d, n).data \in Seq(Bytes) /\ RowsOK(FsRead(d, n).table)
<1>1. CASE mounted
  <2>1. FsRead(d, n).table = files
    BY <1>1 DEF FsRead, Failed, Fd
  <2>2. FsRead(d, n).data = IF OnDisk(d, n).kind = "file" THEN OnDisk(d, n).data ELSE <<>>
    BY <1>1 DEF FsRead
  <2>3. <<>> \in Seq(Bytes) /\ OnDisk(d, n).data \in Seq(Bytes)
    BY OnDiskText
  <2> QED BY <2>1, <2>2, <2>3
<1>2. CASE ~mounted
  <2>1. PICK r : r = FsOpen(n)
    OBVIOUS
  <2>2. FsRead(d, n).table = r.table /\ FsRead(d, n).data = IF r.fd = 0 THEN <<>> ELSE r.table[r.fd].data
    BY <1>2, <2>1 DEF FsRead
  <2>3. RowsOK(r.table) /\ (r.fd # 0 => r.fd \in Slots)
    BY <2>1, OpenRows, OpenGives, GivenTable
  <2>4. <<>> \in Seq(Bytes)
    OBVIOUS
  <2>5. r.fd # 0 => r.table[r.fd].data \in Seq(Bytes)
    BY <2>3 DEF RowsOK
  <2> QED BY <2>2, <2>3, <2>4, <2>5
<1> QED BY <1>1, <1>2

LEMMA OpenEdit ==
  ASSUME AppsInv, EditInv, NEW d \in Dirs, NEW n \in Names, OpenFile(d, n)
  PROVE  EditInv'
<1> DEFINE raw == CStr(UpTo(FsRead(d, n).data, BufSize - 1))
           given == UpTo(Without(raw, "CR"), BufSize - 1)
<1>1. PICK w, text : /\ w = IF open # {} THEN Least(open) ELSE Least(Wins)
                     /\ text = given
  OBVIOUS
<1>2. /\ files' = FsRead(d, n).table
      /\ IF w \in open THEN Put(w, text, Len(text))
         ELSE /\ len' = [len EXCEPT ![w] = Len(text)] /\ cursor' = [cursor EXCEPT ![w] = Len(text)]
              /\ buf' = [buf EXCEPT ![w] = Over(Over(Over(@, <<NUL>>), DefaultText), Append(text, NUL))]
      /\ Deselect(w) /\ clip' = <<>> /\ find' = [find EXCEPT ![w] = NoFind]
      /\ undoLen' = [undoLen EXCEPT ![w] = 0]
      /\ hasUndo' = [hasUndo EXCEPT ![w] = FALSE] /\ hasRedo' = [hasRedo EXCEPT ![w] = FALSE]
      /\ UNCHANGED <<undo, undoCursor, before, dragStart, disk>>
  BY <1>1 DEF OpenFile, mouse
<1>3. w \in Wins
  BY <1>1, LeastIn, NotepadAssumption DEF AppsInv, Titles
<1>4. FsRead(d, n).data \in Seq(Bytes) /\ RowsOK(files')
  BY <1>2, ReadText DEF AppsInv, TableInv, EditInv
<1>5. text \in Seq(Bytes) /\ Len(text) < BufSize /\ Len(text) \in Nat
  <2>1. PICK m : m = BufSize - 1
    OBVIOUS
  <2>2. m \in Nat /\ m < BufSize
    BY <2>1, ByteFacts
  <2>3. PICK a, b, c, e : a = FsRead(d, n).data /\ b = UpTo(a, m) /\ c = CStr(b) /\ e = Without(c, "CR")
    OBVIOUS
  <2>4. b \in Seq(Bytes)
    BY <1>4, <2>2, <2>3, UpToText
  <2>5. c \in Seq(Bytes)
    BY <2>3, <2>4, CStrText
  <2>6. e \in Seq(Bytes)
    BY <2>3, <2>5, WithoutText
  <2>7. UpTo(e, m) \in Seq(Bytes) /\ Len(UpTo(e, m)) <= m
    BY <2>2, <2>6, UpToText
  <2>8. text = UpTo(e, m)
    BY <1>1, <2>1, <2>3
  <2>9. text \in Seq(Bytes) /\ Len(text) <= m
    BY <2>7, <2>8
  <2>10. Len(text) \in Nat
    BY <2>9
  <2> QED BY <2>2, <2>9, <2>10, ByteFacts
<1> HIDE DEF given
<1>6. TextOK'
  <2>1. CASE w \in open
    <3>1. Len(text) <= Len(text) /\ Put(w, text, Len(text))
      BY <1>2, <1>5, <2>1
    <3> QED BY <1>3, <1>5, <3>1, PutKeeps DEF EditInv
  <2>2. CASE w \notin open
    <3>1. PICK a, z, b : a = Over(Over(buf[w], <<NUL>>), DefaultText) /\ z = Append(text, NUL) /\ b = Over(a, z)
      OBVIOUS
    <3>2. a \in Seq(Bytes) /\ Len(a) = BufSize
      BY <1>3, <3>1, DefaultShown DEF EditInv
    <3>3. z \in Seq(Bytes) /\ Len(z) = Len(text) + 1
      BY <1>5, <3>1, ByteFacts
    <3>4. Len(z) <= Len(a)
      BY <1>5, <3>2, <3>3, ByteFacts
    <3>5. b \in Seq(Bytes) /\ Len(b) = BufSize
      BY <3>1, <3>2, <3>3, <3>4, OverText
    <3>6. PICK k : k = Len(text)
      OBVIOUS
    <3>7. buf' = [buf EXCEPT ![w] = b] /\ len' = [len EXCEPT ![w] = k] /\ cursor' = [cursor EXCEPT ![w] = k]
      BY <1>2, <2>2, <3>1, <3>6
    <3>8. k \in Nat /\ k < BufSize /\ k <= k
      BY <1>5, <3>6
    <3> QED BY <1>3, <3>5, <3>7, <3>8, TextStep DEF EditInv
  <2> QED BY <2>1, <2>2
<1>7. UndoOK' /\ SelOK'
  BY <1>2, <1>3, ForgetKeeps, DeselectKeeps DEF EditInv
<1>8. FindOK'
  <2>1. NoFind \in [on : BOOLEAN, pattern : Seq(Bytes), from : Nat]
    BY DEF NoFind
  <2> QED BY <1>2, <2>1 DEF EditInv, FindOK
<1>9. ClipOK' /\ DiskOK'
  <2>1. <<>> \in Seq(Bytes)
    OBVIOUS
  <2>2. ClipOK'
    BY <1>2, <2>1 DEF ClipOK
  <2>3. DiskOK'
    BY <1>2 DEF EditInv, DiskOK
  <2> QED BY <2>2, <2>3
<1>10. RowsOK(files)'
  BY <1>4 DEF RowsOK
<1> QED BY <1>6, <1>7, <1>8, <1>9, <1>10 DEF EditInv

(* What the steps of the mouse, the keys and the menu do.                   *)
Still == UNCHANGED <<files, disk>>

LEMMA StillKeeps == ASSUME EditInv, Still PROVE RowsOK(files)' /\ DiskOK'
BY DEF EditInv, Still, RowsOK, DiskOK

LEMMA ClippedEdit == ASSUME EditInv, NEW w \in Wins, clip' = Copied(w) PROVE ClipOK'
BY CopiedText DEF EditInv, ClipOK

\* The operations that the keys and the menu share.
Shared(w) ==
  \/ Cut_(w) \/ Copy(w) \/ Paste(w) \/ Clear(w) \/ SelectAll(w) \/ Undo(w) \/ Redo(w)
  \/ UNCHANGED <<edit, history, sel, clip>>

LEMMA SharedKeeps ==
  ASSUME EditInv, NEW w \in Wins, Shared(w), UNCHANGED <<dragStart, find>>, Still
  PROVE  EditInv'
<1>1. FindOK' /\ RowsOK(files)' /\ DiskOK'
  BY StillKeeps DEF EditInv, FindOK
<1>2. UNCHANGED clip => ClipOK'
  BY DEF EditInv, ClipOK
<1>3. UNCHANGED sel => SelOK'
  BY DEF EditInv, SelOK
<1>4. UNCHANGED edit => TextOK'
  BY DEF EditInv, TextOK, edit
<1>5. UNCHANGED history => UndoOK'
  BY DEF EditInv, UndoOK, history
<1>6. CASE Cut_(w)
  BY <1>1, <1>6, ClippedEdit, ClearKeeps DEF EditInv, Cut_
<1>7. CASE Copy(w)
  BY <1>1, <1>3, <1>4, <1>5, <1>7, ClippedEdit DEF EditInv, Copy
<1>8. CASE Paste(w)
  BY <1>1, <1>8, PasteKeeps DEF EditInv
<1>9. CASE Clear(w)
  BY <1>1, <1>2, <1>9, ClearKeeps DEF EditInv, Clear
<1>10. CASE SelectAll(w)
  <2>1. len[w] \in Nat
    BY WindowText DEF EditInv
  <2>2. sel' = [sel EXCEPT ![w] = [on |-> TRUE, from |-> 0, to |-> len[w]]]
    BY <1>10 DEF SelectAll
  <2>3. [on |-> TRUE, from |-> 0, to |-> len[w]] \in [on : BOOLEAN, from : Nat, to : Nat]
    BY <2>1
  <2>4. SelOK'
    BY <2>2, <2>3 DEF EditInv, SelOK
  <2> QED BY <1>1, <1>2, <1>4, <1>5, <1>10, <2>4 DEF EditInv, SelectAll
<1>11. CASE Undo(w) \/ Redo(w)
  <2>1. hasUndo[w] \/ hasRedo[w]
    BY <1>11 DEF Undo, Redo
  <2>2. PICK h \in BOOLEAN, r \in BOOLEAN : hasUndo' = [hasUndo EXCEPT ![w] = h] /\ hasRedo' = [hasRedo EXCEPT ![w] = r]
    <3>1. TRUE \in BOOLEAN /\ FALSE \in BOOLEAN
      OBVIOUS
    <3> QED BY <1>11, <3>1, Zenon DEF Undo, Redo
  <2>3. Exchange(w)
    BY <1>11 DEF Undo, Redo
  <2>4. TextOK' /\ UndoOK'
    BY <2>1, <2>2, <2>3, ExchangeKeeps DEF EditInv
  <2>5. Deselect(w) /\ UNCHANGED clip
    BY <2>3 DEF Exchange
  <2>6. SelOK'
    BY <2>5, DeselectKeeps DEF EditInv
  <2> QED BY <1>1, <1>2, <2>4, <2>5, <2>6 DEF EditInv
<1>12. CASE UNCHANGED <<edit, history, sel, clip>>
  BY <1>1, <1>2, <1>3, <1>4, <1>5, <1>12 DEF EditInv
<1> QED BY <1>6, <1>7, <1>8, <1>9, <1>10, <1>11, <1>12 DEF Shared

\* The keys that change the text under the cursor, or move it.
LEMMA TypedKeeps ==
  ASSUME EditInv, NEW w \in Wins, UNCHANGED <<dragStart, find>>, Still,
         (\E c \in Chars : TypeChar(w, c)) \/ Enter(w) \/ Backspace(w) \/ Move(w)
  PROVE  EditInv'
<1>1. FindOK' /\ RowsOK(files)' /\ DiskOK'
  BY StillKeeps DEF EditInv, FindOK
<1>2. UNCHANGED clip => ClipOK'
  BY DEF EditInv, ClipOK
<1>3. UNCHANGED sel => SelOK'
  BY DEF EditInv, SelOK
<1>4. UNCHANGED history => UndoOK'
  BY DEF EditInv, UndoOK, history
<1>5. ASSUME NEW c \in Chars, TypeChar(w, c) PROVE EditInv'
  <2>1. c \in Bytes /\ len[w] < BufSize - 1 /\ Put(w, Insert(Text(w), cursor[w], <<c>>), cursor[w] + 1)
    BY <1>5, ByteFacts DEF TypeChar
  <2>2. UNCHANGED <<history, sel, clip>>
    BY <1>5 DEF TypeChar
  <2>3. TextOK'
    BY <2>1, InsertKeeps DEF EditInv
  <2> QED BY <1>1, <1>2, <1>3, <1>4, <2>2, <2>3 DEF EditInv
<1>6. CASE Enter(w)
  <2>1. PICK c : c = "LF"
    OBVIOUS
  <2>2. c \in Bytes /\ len[w] < BufSize - 1 /\ Put(w, Insert(Text(w), cursor[w], <<c>>), cursor[w] + 1)
    BY <1>6, <2>1, ByteFacts DEF Enter
  <2>3. TextOK' /\ UndoOK'
    BY <1>6, <2>2, InsertKeeps, SaveUndoKeeps DEF EditInv, Enter
  <2> QED BY <1>1, <1>2, <1>3, <1>6, <2>3 DEF EditInv, Enter
<1>7. CASE Backspace(w)
  <2>1. TextOK' /\ UndoOK'
    BY <1>7, EraseKeeps, SaveUndoKeeps DEF EditInv, Backspace
  <2> QED BY <1>1, <1>2, <1>3, <1>7, <2>1 DEF EditInv, Backspace
<1>8. CASE Move(w)
  <2>1. PICK to \in {cursor[w] - 1, cursor[w] + 1} \cap 0 .. len[w] : cursor' = [cursor EXCEPT ![w] = to]
    BY <1>8 DEF Move
  <2>2. len[w] \in Nat
    BY WindowText DEF EditInv
  <2>3. to \in Nat /\ to <= len[w]
    BY <2>1, <2>2
  <2>4. UNCHANGED <<buf, len, history, sel, clip>>
    BY <1>8 DEF Move
  <2>5. TextOK'
    BY <2>1, <2>3, <2>4, CursorStep DEF EditInv
  <2> QED BY <1>1, <1>2, <1>3, <1>4, <2>4, <2>5 DEF EditInv
<1> QED BY <1>5, <1>6, <1>7, <1>8

LEMMA WindowEdit ==
  ASSUME EditInv, NEW w \in Wins, Key_(w) \/ PopUpClick(w) \/ Clears(w) \/ Finds(w) \/ Points(w) \/ Types(w)
  PROVE  EditInv'
<1>1. Still
  BY DEF Key_, PopUpClick, Clears, Finds, Points, Types, Edits, InWindow, fsvars, Still
<1>2. CASE Key_(w)
  <2>1. UNCHANGED <<dragStart, find>> /\ (Shared(w) \/ (\E c \in Chars : TypeChar(w, c)) \/ Enter(w) \/ Backspace(w) \/ Move(w))
    BY <1>2 DEF Key_, EditKey, mouse, Shared
  <2> QED BY <1>1, <2>1, SharedKeeps, TypedKeeps
<1>3. CASE PopUpClick(w)
  <2>1. UNCHANGED <<dragStart, find>> /\ Shared(w)
    BY <1>3 DEF PopUpClick, MenuClick, mouse, Shared
  <2> QED BY <1>1, <2>1, SharedKeeps
<1>4. CASE Clears(w)
  <2>1. UNCHANGED <<dragStart, find>> /\ Shared(w)
    BY <1>4 DEF Clears, mouse, Shared
  <2> QED BY <1>1, <2>1, SharedKeeps
<1>5. CASE Finds(w)
  <2>1. PICK reset \in BOOLEAN : FindNext(w, reset) /\ UNCHANGED mouse
    BY <1>5 DEF Finds, Find
  <2>2. UNCHANGED <<dragStart, history, clip>>
    BY <2>1 DEF FindNext, mouse
  <2>3. TextOK' /\ SelOK' /\ FindOK'
    BY <2>1, <2>2, FindKeeps DEF EditInv
  <2>4. UndoOK' /\ ClipOK'
    BY <2>2 DEF EditInv, UndoOK, ClipOK, history
  <2> QED BY <1>1, <2>3, <2>4, StillKeeps DEF EditInv
<1>6. CASE Points(w)
  <2>1. Point(w) /\ UNCHANGED <<history, clip, find>>
    BY <1>6 DEF Points, Point
  <2>2. TextOK' /\ SelOK'
    BY <2>1, PointKeeps DEF EditInv
  <2>3. UndoOK' /\ ClipOK' /\ FindOK'
    BY <2>1 DEF EditInv, UndoOK, ClipOK, FindOK, history
  <2> QED BY <1>1, <2>2, <2>3, StillKeeps DEF EditInv
<1>7. CASE Types(w)
  <2>1. UNCHANGED <<dragStart, find>> /\ (TypeChar(w, "x") \/ Clear(w) \/ Undo(w))
    BY <1>7 DEF Types, mouse
  <2>2. CASE TypeChar(w, "x")
    BY <1>1, <2>1, <2>2, TypedKeeps, ScenesAssumption
  <2>3. CASE Clear(w) \/ Undo(w)
    BY <1>1, <2>1, <2>3, SharedKeeps DEF Shared
  <2> QED BY <2>1, <2>2, <2>3
<1> QED BY <1>2, <1>3, <1>4, <1>5, <1>6, <1>7

(* Steps that leave the editor and the files alone.                         *)
EditQuiet == UNCHANGED <<buf, len, cursor, undo, undoLen, undoCursor, hasUndo, hasRedo, before, sel, dragStart, find, clip, files, disk>>

LEMMA EditQuietStep == ASSUME EditInv, EditQuiet PROVE EditInv'
<1>1. TextOK' /\ UndoOK' /\ SelOK'
  BY DEF EditInv, EditQuiet, TextOK, UndoOK, SelOK
<1>2. FindOK' /\ ClipOK' /\ RowsOK(files)' /\ DiskOK'
  BY DEF EditInv, EditQuiet, FindOK, ClipOK, RowsOK, DiskOK
<1> QED BY <1>1, <1>2 DEF EditInv

LEMMA ButtonsEdit == ASSUME EditInv, Buttons PROVE EditInv'
<1>1. EditQuiet
  <2>1. Button /\ UNCHANGED fsvars
    BY DEF Buttons
  <2> QED BY <2>1 DEF Button, Release, RightClick, mouse, history, fsvars, EditQuiet
<1> QED BY <1>1, EditQuietStep

LEMMA WindowsEdit ==
  ASSUME AppsInv, EditInv, NEW s, NEW b, NEW names, names \subseteq Names, Windows(s, b, names)
  PROVE  EditInv'
<1>1. ASSUME NEW w \in Wins, Close(w) PROVE EditInv'
  <2>1. EditQuiet
    BY <1>1 DEF Close, edit, history, mouse, fsvars, EditQuiet
  <2> QED BY <2>1, EditQuietStep
<1>2. \/ \E w \in Wins : New(w) \/ Close(w)
      \/ \E d \in Dirs, n \in names : OpenFile(d, n)
  BY DEF Windows
<1> QED BY <1>1, <1>2, NewEdit, OpenEdit

\* fs_write stores a text in its row.
LEMMA StoredRows ==
  ASSUME IsTable(files), RowsOK(files), TextOK, DiskOK, NEW w \in Wins, NEW n \in Names, WriteTo(w, n)
  PROVE  RowsOK(files')
<1>1. PICK r : r = IF FsOpen(n).fd # 0 THEN FsOpen(n) ELSE FsCreate(n)
  OBVIOUS
<1>2. RowsOK(r.table) /\ IsTable(r.table) /\ (r.fd # 0 => r.fd \in Slots)
  <2>1. Gives(r, n)
    BY <1>1, OpenGives, CreateGives
  <2> QED BY <1>1, <2>1, OpenRows, GivenTable
<1>3. CASE r.fd = 0
  BY <1>1, <1>3 DEF WriteTo
<1>4. CASE r.fd # 0
  <2>1. files' = FsWrite(r, buf[w], len[w])
    BY <1>1, <1>4 DEF WriteTo
  <2>2. buf[w] \in Seq(Bytes) /\ Len(buf[w]) = BufSize /\ len[w] \in Nat /\ len[w] < BufSize
    BY WindowText
  <2>3. PICK m : m = buf[w]
    OBVIOUS
  <2>4. PICK k : k = IF len[w] = 0 THEN CStr(m) ELSE SubSeq(m, 1, len[w])
    OBVIOUS
  <2>5. k \in Seq(Bytes)
    <3>1. CStr(m) \in Seq(Bytes)
      BY <2>2, <2>3, CStrText
    <3>2. len[w] <= Len(m) /\ 1 \in Nat \ {0}
      BY <2>2, <2>3, ByteFacts
    <3>3. SubSeq(m, 1, len[w]) \in Seq(Bytes)
      BY <2>2, <2>3, <3>2, PartText
    <3> QED BY <2>4, <3>1, <3>3
  <2>6. PICK d : d = UpTo(k, MaxData)
    OBVIOUS
  <2>7. d \in Seq(Bytes)
    BY <2>5, <2>6, UpToBytes, RamFilesAssumption
  <2>8. files' = [r.table EXCEPT ![r.fd].data = d]
    BY <2>1, <2>3, <2>4, <2>6 DEF FsWrite
  <2>9. Writes(r.table, files', r.fd, d)
    BY <1>2, <1>4, <2>8 DEF Writes
  <2>10. files'[r.fd].data = d /\ \A j \in Slots \ {r.fd} : files'[j] = r.table[j]
    BY <1>2, <2>9, WritesRows
  <2> QED BY <1>2, <2>7, <2>10 DEF RowsOK
<1> QED BY <1>3, <1>4

LEMMA StoresEdit == ASSUME AppsInv, EditInv, NEW s, NEW b, Stores(s, b) PROVE EditInv'
<1>1. PICK w \in open : Save(w) \/ SaveAs(w)
  BY DEF Stores
<1>2. w \in Wins /\ Cut[TitleOf(w)] \in Names
  BY RamFilesAssumption, NotepadAssumption DEF AppsInv, Titles, TitleOf
<1>3. file[w] # "" => file[w] \in Names
  BY <1>2 DEF AppsInv, Titles
<1>4. PICK n \in Names : SaveUnder(w, n)
  BY <1>1, <1>2, <1>3 DEF Save, SaveAs
<1>5. WriteTo(w, n) /\ UNCHANGED disk
  BY <1>4 DEF SaveUnder
<1>6. RowsOK(files')
  BY <1>2, <1>5, StoredRows DEF AppsInv, TableInv, EditInv
<1>7. UNCHANGED <<edit, history, clip, sel, mouse, find>>
  BY DEF Stores
<1>8. TextOK' /\ UndoOK' /\ SelOK'
  BY <1>7 DEF EditInv, TextOK, UndoOK, SelOK, edit, history, mouse
<1>9. FindOK' /\ ClipOK' /\ DiskOK'
  BY <1>5, <1>7 DEF EditInv, FindOK, ClipOK, DiskOK
<1>10. RowsOK(files)'
  BY <1>6 DEF RowsOK
<1> QED BY <1>8, <1>9, <1>10 DEF EditInv

\* fatmkdir, fatrm and fatrmdir change one entry of the root directory.
LEMMA EntryKeeps ==
  ASSUME DiskOK, NEW n \in Names, disk' = Made(n) \/ disk' = Removed(n) PROVE DiskOK'
<1>1. PICK E : E = [kind : {"none", "file", "dir"}, data : Seq(Bytes)]
  OBVIOUS
<1>2. [kind |-> "dir", data |-> <<>>] \in E /\ NoFile \in E
  <2>1. <<>> \in Seq(Bytes)
    OBVIOUS
  <2> QED BY <1>1, <2>1 DEF NoFile
<1>3. PICK e \in E : disk' = [disk EXCEPT !["root"][Key[n]] = e]
  BY <1>2 DEF Made, Removed
<1>4. disk \in [Dirs -> [{Key[m] : m \in Names} -> E]] /\ "root" \in Dirs
  BY <1>1 DEF DiskOK, Dirs
<1>5. Key[n] \in {Key[m] : m \in Names}
  OBVIOUS
<1>6. PICK K : K = {Key[m] : m \in Names}
  OBVIOUS
<1>7. disk' \in [Dirs -> [K -> E]]
  BY <1>3, <1>4, <1>5, <1>6
<1> QED BY <1>1, <1>6, <1>7 DEF DiskOK

LEMMA EntersEdit == ASSUME AppsInv, EditInv, NEW t \in Terms, NEW s, NEW b, Enters(t, s, b) PROVE EditInv'
<1>1. EnterKey(t) /\ UNCHANGED <<edit, history, clip, sel, mouse, find>>
  BY DEF Enters
<1>2. Execute(t, Push(lines[t], <<">">> \o input[t]))
  BY <1>1 DEF EnterKey
<1>3. TextOK' /\ UndoOK' /\ SelOK'
  BY <1>1 DEF EditInv, TextOK, UndoOK, SelOK, edit, history, mouse
<1>4. FindOK' /\ ClipOK'
  BY <1>1 DEF EditInv, FindOK, ClipOK
<1> DEFINE n == Arg(input[t])
           On(k) == input[t][1] = k /\ IsName(n)
<1>5. CASE UNCHANGED <<files, disk>>
  BY <1>3, <1>4, <1>5, StillKeeps DEF EditInv, Still
<1>6. CASE FileEffect(input[t])
  <2>1. /\ files' = IF On("cat") THEN FsOpen(n).table ELSE IF On("touch") THEN FsCreate(n).table
                    ELSE IF On("rm") THEN FsDelete(n).table ELSE files
        /\ disk' = disk \/ (IsName(n) /\ (disk' = Made(n) \/ disk' = Removed(n)))
    BY <1>6 DEF FileEffect
  <2>2. RowsOK(files')
    <3>1. IsName(n) => RowsOK(FsOpen(n).table) /\ RowsOK(FsCreate(n).table) /\ RowsOK(FsDelete(n).table)
      BY OpenRows, DeleteRows DEF IsName, AppsInv, TableInv, EditInv
    <3>2. RowsOK(files)
      BY DEF EditInv
    <3> QED BY <2>1, <3>1, <3>2
  <2>3. DiskOK'
    <3>1. UNCHANGED disk => DiskOK'
      BY DEF EditInv, DiskOK
    <3>2. ASSUME IsName(n), disk' = Made(n) \/ disk' = Removed(n) PROVE DiskOK'
      BY <3>2, EntryKeeps DEF IsName, EditInv
    <3> QED BY <2>1, <3>1, <3>2
  <2>4. RowsOK(files)'
    BY <2>2 DEF RowsOK
  <2> QED BY <1>3, <1>4, <2>3, <2>4 DEF EditInv
<1> QED BY <1>2, <1>5, <1>6 DEF Execute

LEMMA WordsEdit == ASSUME EditInv, NEW t, NEW s, NEW b, NEW words, Words_(t, s, b, words) PROVE EditInv'
<1>1. UNCHANGED npvars /\ \E w \in words : WordKey(t, w)
  BY DEF Words_
<1>2. UNCHANGED fsvars
  BY <1>1 DEF WordKey
<1>3. EditQuiet
  BY <1>1, <1>2 DEF npvars, edit, history, mouse, fsvars, EditQuiet
<1> QED BY <1>3, EditQuietStep

LEMMA ShellEdit ==
  ASSUME EditInv, NEW t, Erases(t) \/ MenuOf(t) \/ PopUpOf(t) \/ PopsUp \/ Slides(t) \/ Reopens(t) PROVE EditInv'
<1>1. UNCHANGED npvars
  BY DEF Erases, MenuOf, PopUpOf, PopsUp, Slides, Reopens, ShellStep
<1>2. UNCHANGED fsvars
  BY DEF Erases, MenuOf, PopUpOf, PopsUp, Slides, Reopens, EraseKey, MenuEntry, PopUpEntry, PopUp, Scrollbar, Reopen, Entry
<1>3. EditQuiet
  BY <1>1, <1>2 DEF npvars, edit, history, mouse, fsvars, EditQuiet
<1> QED BY <1>3, EditQuietStep

LEMMA MountsEdit == ASSUME EditInv, Mounts PROVE EditInv'
<1>1. EditQuiet
  BY DEF Mounts, Mount, npvars, edit, history, mouse, EditQuiet
<1> QED BY <1>1, EditQuietStep

LEMMA EditInit == Init => EditInv
<1> SUFFICES ASSUME Init PROVE EditInv
  OBVIOUS
<1>1. /\ buf = [w \in Wins |-> [i \in 1 .. BufSize |-> NUL]] /\ undo = [w \in Wins |-> [i \in 1 .. UndoSize |-> NUL]]
      /\ len = [w \in Wins |-> 0] /\ cursor = len /\ undoLen = len /\ undoCursor = len
      /\ hasUndo = [w \in Wins |-> FALSE] /\ hasRedo = hasUndo /\ before = [w \in Wins |-> <<>>]
      /\ sel = [w \in Wins |-> NoSel] /\ find = [w \in Wins |-> NoFind] /\ dragStart = [w \in Wins |-> 0] /\ clip = <<>>
      /\ files = [i \in Slots |-> Free] /\ disk \in Volume
  BY DEF Init, NpInit, FsInit
<1>2. <<>> \in Seq(Bytes) /\ 0 \in Nat /\ FALSE \in BOOLEAN
  OBVIOUS
<1>3. ASSUME NEW n \in Nat PROVE [i \in 1 .. n |-> NUL] \in Seq(Bytes) /\ Len([i \in 1 .. n |-> NUL]) = n
  BY ByteFacts
<1>4. PICK blank, spare : blank = [i \in 1 .. BufSize |-> NUL] /\ spare = [i \in 1 .. UndoSize |-> NUL]
  OBVIOUS
<1>5. blank \in Seq(Bytes) /\ Len(blank) = BufSize /\ spare \in Seq(Bytes) /\ Len(spare) = UndoSize
  BY <1>3, <1>4, ByteFacts
<1>6. TextOK
  BY <1>1, <1>4, <1>5, ByteFacts DEF TextOK
<1>7. UndoOK
  BY <1>1, <1>4, <1>5, ByteFacts DEF UndoOK
<1>8. SelOK /\ FindOK /\ ClipOK
  <2>1. SelOK
    BY <1>1 DEF SelOK, NoSel
  <2>2. FindOK
    BY <1>1, <1>2 DEF FindOK, NoFind
  <2> QED BY <1>1, <1>2, <2>1, <2>2 DEF ClipOK
<1>9. RowsOK(files)
  BY <1>1, <1>2 DEF RowsOK, Free
<1>10. DiskOK
  BY <1>1, NotepadAssumption DEF DiskOK
<1> QED BY <1>6, <1>7, <1>8, <1>9, <1>10 DEF EditInv

LEMMA EditNext == AppsInv /\ EditInv /\ [Next]_vars => EditInv'
<1> SUFFICES ASSUME AppsInv, EditInv, [Next]_vars PROVE EditInv'
  OBVIOUS
<1>1. ASSUME NEW w \in Wins, Key_(w) \/ PopUpClick(w) \/ Clears(w) \/ Finds(w) \/ Points(w) \/ Types(w) PROVE EditInv'
  BY <1>1, WindowEdit
<1>2. CASE Buttons
  BY <1>2, ButtonsEdit
<1>3. CASE Windows("editing", EditSteps, {"A"}) \/ Windows("sharing", ShareSteps, {"a", "A", "long"})
  BY <1>3, WindowsEdit, ScenesAssumption
<1>4. CASE Stores("editing", EditSteps) \/ Stores("sharing", ShareSteps)
  BY <1>4, StoresEdit
<1>5. ASSUME NEW t \in Terms, Enters(t, "sharing", ShareSteps) \/ Enters(t, "typing", ShellSteps) PROVE EditInv'
  BY <1>5, EntersEdit
<1>6. ASSUME NEW t \in Terms, Words_(t, "sharing", ShareSteps, FileWords) \/ Words_(t, "typing", ShellSteps, Words) PROVE EditInv'
  BY <1>6, WordsEdit
<1>7. ASSUME NEW t \in Terms, Erases(t) \/ MenuOf(t) \/ PopUpOf(t) \/ Slides(t) \/ Reopens(t) PROVE EditInv'
  BY <1>7, ShellEdit
<1>8. CASE PopsUp \/ Mounts
  BY <1>8, ShellEdit, MountsEdit
<1>9. CASE UNCHANGED vars
  <2>1. EditQuiet
    BY <1>9 DEF vars, npvars, edit, history, mouse, fsvars, EditQuiet
  <2> QED BY <2>1, EditQuietStep
<1> QED BY <1>1, <1>2, <1>3, <1>4, <1>5, <1>6, <1>7, <1>8, <1>9 DEF Next

LEMMA EditInvariant == Spec => [](AppsInv /\ EditInv)
<1>1. Init => AppsInv /\ EditInv
  BY AppsInit, EditInit
<1>2. AppsInv /\ EditInv /\ [Next]_vars => (AppsInv /\ EditInv)'
  BY AppsNext, EditNext
<1> QED BY <1>1, <1>2, PTL DEF Spec

(* In every window of Notepad the cursor stays inside the text, and while   *)
(* there is a step to undo or redo, taking it brings back what was there    *)
(* before the last one, if that fits in the undo buffer, whatever is typed, *)
(* cut, pasted, found, opened, saved or pointed at, and whatever the shell  *)
(* does to the files meanwhile.                                             *)
THEOREM EditorIsSound == Spec => []EditorSound
<1>1. AppsInv /\ EditInv => EditorSound
  BY DEF AppsInv, Titles, EditInv, TextOK, UndoOK, EditorSound, TextSound, UndoRestores
<1> QED BY <1>1, EditInvariant, PTL

(***************************************************************************)
(* The scrollback.                                                         *)
(***************************************************************************)
IsSeq(p) == \E S : p \in Seq(S)
End(p, k) == [i \in 1 .. k |-> Fit(p[Len(p) - k + i])]
Shows(ls, p) == IsSeq(p) /\ ls = End(p, IF Len(p) > MaxLines THEN MaxLines ELSE Len(p))
ScrollInv ==
  /\ lines = [t \in Terms |-> lines[t]] /\ pushed = [t \in Terms |-> pushed[t]]
  /\ \A t \in Terms : Shows(lines[t], pushed[t])

LEMMA SeqIsFcn == ASSUME NEW S, NEW s \in Seq(S), NEW n, Len(s) = n PROVE s = [i \in 1 .. n |-> s[i]]
<1>1. s = [i \in 1 .. Len(s) |-> s[i]]
  OBVIOUS
<1> QED BY <1>1

\* A line more at the end, the oldest one less when there is no room.
LEMMA PushShows ==
  ASSUME NEW ls, NEW p, Shows(ls, p), NEW l
  PROVE  Shows(Push(ls, l), Append(p, l)) /\ Len(ls) \in Nat
<1>1. PICK S : p \in Seq(S)
  BY DEF Shows, IsSeq
<1>2. PICK n, k : n = Len(p) /\ k = IF n > MaxLines THEN MaxLines ELSE n
  OBVIOUS
<1>3. n \in Nat /\ k \in Nat /\ MaxLines \in Nat /\ MaxLines >= 1 /\ k <= n /\ k <= MaxLines
  BY <1>1, <1>2, TerminalAssumption
<1>4. ls = [i \in 1 .. k |-> Fit(p[n - k + i])]
  BY <1>2 DEF Shows, End
<1>5. PICK T : T = S \cup {l}
  OBVIOUS
<1>6. PICK q \in Seq(T) : q = Append(p, l)
  <2>1. p \in Seq(T) /\ l \in T
    BY <1>1, <1>5
  <2>2. Append(p, l) \in Seq(T)
    BY <2>1, AppendProperties
  <2> QED BY <2>2, Zenon
<1>7. Len(q) = n + 1 /\ q[n + 1] = l /\ \A i \in 1 .. n : q[i] = p[i]
  BY <1>1, <1>2, <1>6
<1>8. PICK f : f = Fit(l)
  OBVIOUS
<1>9. PICK G : G = {ls[i] : i \in 1 .. k} \cup {f}
  OBVIOUS
<1>10. ls \in [1 .. k -> G]
  BY <1>4, <1>9
<1>11. ls \in Seq(G) /\ Len(ls) = k
  BY <1>3, <1>10
<1>12. PICK r : r = Push(ls, l)
  OBVIOUS
<1>13. r = Append(IF k >= MaxLines THEN Tail(ls) ELSE ls, f)
  BY <1>8, <1>11, <1>12, Zenon DEF Push
<1>14. CASE k >= MaxLines
  <2>1. k = MaxLines /\ k >= 1 /\ k \in Nat
    BY <1>3, <1>14
  <2>2. PICK o \in Seq(G) : o = Tail(ls) /\ Len(o) = k - 1 /\ \A i \in 1 .. k - 1 : o[i] = ls[i + 1]
    <3>1. Tail(ls) \in Seq(G)
      BY <1>11, <2>1, HeadTailProperties, EmptySeq
    <3>2. Len(Tail(ls)) = k - 1 /\ \A i \in 1 .. k - 1 : Tail(ls)[i] = ls[i + 1]
      BY <1>11, <2>1, HeadTailProperties, EmptySeq
    <3> QED BY <3>1, <3>2, Zenon
  <2>3. r = Append(o, f)
    BY <1>13, <1>14, <2>2
  <2>4. r = [i \in 1 .. k |-> IF i = k THEN f ELSE ls[i + 1]]
    <3>1. f \in G
      BY <1>9
    <3>2. Append(o, f) \in Seq(G) /\ Len(Append(o, f)) = k
      BY <2>1, <2>2, <3>1
    <3>3. \A i \in 1 .. k : Append(o, f)[i] = IF i = k THEN f ELSE ls[i + 1]
      BY <2>1, <2>2, <3>1
    <3>4. r \in Seq(G) /\ Len(r) = k /\ \A i \in 1 .. k : r[i] = IF i = k THEN f ELSE ls[i + 1]
      BY <2>3, <3>2, <3>3, Zenon
    <3>5. r = [i \in 1 .. k |-> r[i]]
      BY <3>4
    <3> QED BY <3>4, <3>5
  <2>5. ASSUME NEW i \in 1 .. k PROVE (IF i = k THEN f ELSE ls[i + 1]) = Fit(q[n + 1 - k + i])
    <3>1. CASE i = k
      <4>1. n + 1 - k + i = n + 1
        BY <1>3, <3>1
      <4> QED BY <1>7, <1>8, <3>1, <4>1
    <3>2. CASE i # k
      <4>1. i + 1 \in 1 .. k
        BY <2>1, <2>5, <3>2
      <4>2. n + 1 - k + i = n - k + (i + 1)
        BY <1>3, <2>5
      <4>3. n - k + (i + 1) \in 1 .. n
        BY <1>3, <4>1
      <4>4. ls[i + 1] = Fit(p[n - k + (i + 1)])
        BY <1>4, <4>1
      <4>5. q[n + 1 - k + i] = p[n - k + (i + 1)]
        BY <1>7, <4>2, <4>3
      <4> QED BY <3>2, <4>4, <4>5
    <3> QED BY <3>1, <3>2
  <2>6. ASSUME NEW i \in 1 .. k PROVE r[i] = Fit(q[Len(q) - k + i])
    <3>1. Len(q) - k + i = n + 1 - k + i
      BY <1>3, <1>7
    <3> QED BY <2>4, <2>5, <3>1
  <2>7. n + 1 > MaxLines
    BY <1>3, <2>1
  <2>8. Shows(r, q)
    <3>1. r = End(q, k)
      BY <2>4, <2>6 DEF End
    <3> QED BY <1>6, <1>7, <2>1, <2>7, <3>1 DEF Shows, IsSeq
  <2> QED BY <1>3, <1>6, <1>11, <1>12, <2>8
<1>15. CASE ~(k >= MaxLines)
  <2>1. k = n /\ k + 1 <= MaxLines
    BY <1>2, <1>3, <1>15
  <2>2. r = [i \in 1 .. n + 1 |-> IF i = n + 1 THEN f ELSE ls[i]]
    <3>1. f \in G
      BY <1>9
    <3>2. Append(ls, f) \in Seq(G) /\ Len(Append(ls, f)) = n + 1
      BY <1>11, <2>1, <3>1
    <3>3. \A i \in 1 .. n + 1 : Append(ls, f)[i] = IF i = n + 1 THEN f ELSE ls[i]
      BY <1>3, <1>11, <2>1, <3>1
    <3>4. r = Append(ls, f)
      BY <1>13, <1>15
    <3>5. r \in Seq(G) /\ Len(r) = n + 1 /\ \A i \in 1 .. n + 1 : r[i] = IF i = n + 1 THEN f ELSE ls[i]
      BY <3>2, <3>3, <3>4, Zenon
    <3>6. r = [i \in 1 .. n + 1 |-> r[i]]
      BY <3>5
    <3> QED BY <3>5, <3>6
  <2>3. ASSUME NEW i \in 1 .. n + 1 PROVE (IF i = n + 1 THEN f ELSE ls[i]) = Fit(q[i])
    <3>1. CASE i = n + 1
      BY <1>7, <1>8, <3>1
    <3>2. CASE i # n + 1
      <4>1. i \in 1 .. n
        BY <1>3, <3>2
      <4>2. ls[i] = Fit(p[n - k + i]) /\ n - k + i = i
        BY <1>3, <1>4, <2>1, <4>1
      <4> QED BY <1>7, <3>2, <4>1, <4>2
    <3> QED BY <3>1, <3>2
  <2>4. r = [i \in 1 .. n + 1 |-> Fit(q[(n + 1) - (n + 1) + i])]
    <3>1. \A i \in 1 .. n + 1 : (n + 1) - (n + 1) + i = i
      BY <1>3
    <3> QED BY <2>2, <2>3, <3>1
  <2>5. ~(n + 1 > MaxLines)
    BY <1>3, <2>1
  <2>6. Shows(r, q)
    <3>1. r = End(q, n + 1)
      BY <1>7, <2>4 DEF End
    <3> QED BY <1>6, <1>7, <2>5, <3>1 DEF Shows, IsSeq
  <2> QED BY <1>3, <1>6, <1>11, <1>12, <2>6
<1> QED BY <1>14, <1>15

\* PushAll is defined: pushing one line after the other comes to its end.
Trace(a, ls, new, n) == a = [k \in 0 .. n |-> IF k = 0 THEN ls ELSE Push(a[k - 1], new[k])]
LEMMA PushedOn ==
  ASSUME NEW ls, NEW new, NEW n \in Nat
  PROVE  \E a : Trace(a, ls, new, n)
<1> DEFINE Bad == {m \in Nat : ~\E a : Trace(a, ls, new, m)}
<1>1. SUFFICES ASSUME Bad # {} PROVE FALSE
  OBVIOUS
<1>2. PICK m \in Bad : \A j \in Bad : m <= j
  <2>1. Bad \subseteq Nat
    OBVIOUS
  <2> QED BY <1>1, <2>1, LeastIn
<1>3. m \in Nat /\ ~\E a : Trace(a, ls, new, m)
  OBVIOUS
<1>4. m # 0
  <2>1. SUFFICES ASSUME m = 0 PROVE FALSE
    OBVIOUS
  <2>2. PICK a : a = [k \in 0 .. 0 |-> ls]
    OBVIOUS
  <2>3. \A k \in 0 .. 0 : k = 0
    OBVIOUS
  <2>4. Trace(a, ls, new, 0)
    BY <2>2, <2>3 DEF Trace
  <2> QED BY <1>3, <2>1, <2>4
<1>5. PICK h \in Nat : m = h + 1
  BY <1>3, <1>4
<1>6. h \notin Bad
  <2>1. ~(m <= h)
    BY <1>5
  <2> QED BY <1>2, <2>1
<1>7. PICK a : Trace(a, ls, new, h)
  BY <1>6
<1>8. PICK b : b = [k \in 0 .. m |-> IF k = m THEN Push(a[h], new[m]) ELSE a[k]]
  OBVIOUS
<1>9. ASSUME NEW k \in 0 .. m PROVE b[k] = IF k = 0 THEN ls ELSE Push(b[k - 1], new[k])
  <2>1. CASE k = m
    <3>1. k - 1 = h /\ h \in 0 .. m /\ h # m
      BY <1>5, <2>1
    <3> QED BY <1>4, <1>8, <2>1, <3>1
  <2>2. CASE k # m /\ k # 0
    <3>1. k \in 0 .. h /\ k - 1 \in 0 .. m /\ k - 1 # m
      BY <1>5, <2>2
    <3>2. a[k] = Push(a[k - 1], new[k])
      BY <1>7, <2>2, <3>1 DEF Trace
    <3> QED BY <1>8, <2>2, <3>1, <3>2
  <2>3. CASE k # m /\ k = 0
    <3>1. 0 \in 0 .. h
      BY <1>5
    <3>2. a[0] = ls
      BY <1>7, <3>1 DEF Trace
    <3> QED BY <1>8, <2>3, <3>2
  <2> QED BY <2>1, <2>2, <2>3
<1>10. Trace(b, ls, new, m)
  BY <1>8, <1>9 DEF Trace
<1> QED BY <1>3, <1>10

LEMMA PushAllOf ==
  ASSUME NEW ls, NEW new, Len(new) \in Nat
  PROVE  \E a : /\ a[0] = ls /\ \A k \in 1 .. Len(new) : a[k] = Push(a[k - 1], new[k])
                /\ PushAll(ls, new) = a[Len(new)]
<1>1. \E a : Trace(a, ls, new, Len(new))
  BY PushedOn
<1>2. PICK a : a = CHOOSE x : Trace(x, ls, new, Len(new))
  OBVIOUS
<1>3. Trace(a, ls, new, Len(new))
  BY <1>1, <1>2, Zenon
<1>4. PushAll(ls, new) = a[Len(new)]
  BY <1>2 DEF PushAll, Trace
<1>5. a[0] = ls /\ \A k \in 1 .. Len(new) : a[k] = Push(a[k - 1], new[k])
  BY <1>3 DEF Trace
<1> QED BY <1>4, <1>5

LEMMA PushAllShows ==
  ASSUME NEW ls, NEW p, Shows(ls, p), NEW new, IsSeq(new)
  PROVE  Shows(PushAll(ls, new), p \o new)
<1>1. PICK S, T : p \in Seq(S) /\ new \in Seq(T)
  BY DEF Shows, IsSeq
<1>2. PICK U : U = S \cup T
  OBVIOUS
<1>3. p \in Seq(U) /\ new \in Seq(U)
  BY <1>1, <1>2
<1>4. PICK n, m : n = Len(p) /\ m = Len(new)
  OBVIOUS
<1>5. n \in Nat /\ m \in Nat
  BY <1>1, <1>4
<1>6. PICK a : a[0] = ls /\ (\A k \in 1 .. m : a[k] = Push(a[k - 1], new[k])) /\ PushAll(ls, new) = a[m]
  BY <1>4, <1>5, PushAllOf
<1> DEFINE Long(k) == [i \in 1 .. n + k |-> IF i <= n THEN p[i] ELSE new[i - n]]
<1>7. ASSUME NEW k \in 0 .. m PROVE Long(k) \in Seq(U) /\ Len(Long(k)) = n + k
  <2>1. ASSUME NEW i \in 1 .. n + k PROVE (IF i <= n THEN p[i] ELSE new[i - n]) \in U
    <3>1. CASE i <= n
      <4>1. i \in 1 .. n
        BY <1>5, <3>1
      <4> QED BY <1>3, <1>4, <3>1, <4>1, ElementOfSeq
    <3>2. CASE ~(i <= n)
      <4>1. i - n \in 1 .. m
        BY <1>5, <3>2
      <4> QED BY <1>3, <1>4, <3>2, <4>1, ElementOfSeq
    <3> QED BY <3>1, <3>2
  <2>2. Long(k) \in [1 .. n + k -> U] /\ n + k \in Nat
    BY <1>5, <2>1
  <2> QED BY <2>2
<1>8. Long(0) = p
  BY <1>3, <1>4, <1>5
<1>9. Long(m) = p \o new
  <2>1. PICK w \in Seq(U) : w = p \o new
    <3>1. p \o new \in Seq(U)
      BY <1>3, ConcatProperties
    <3> QED BY <3>1, Zenon
  <2>2. Len(w) = n + m /\ \A i \in 1 .. n + m : w[i] = IF i <= n THEN p[i] ELSE new[i - n]
    BY <1>3, <1>4, <2>1, ConcatProperties
  <2>3. w = [i \in 1 .. n + m |-> w[i]]
    BY <2>2, SeqIsFcn
  <2> QED BY <2>1, <2>2, <2>3
<1>10. ASSUME NEW k \in 0 .. m, k # 0 PROVE Append(Long(k - 1), new[k]) = Long(k)
  <2>1. k - 1 \in 0 .. m /\ k \in 1 .. m
    BY <1>5, <1>10
  <2>2. PICK q \in Seq(U) : q = Long(k - 1) /\ Len(q) = n + k - 1
    <3>1. Long(k - 1) \in Seq(U) /\ Len(Long(k - 1)) = n + k - 1
      BY <1>5, <1>7, <2>1
    <3> QED BY <3>1, Zenon
  <2>3. PICK e \in U : e = new[k]
    <3>1. new[k] \in U
      BY <1>3, <1>4, <2>1, ElementOfSeq
    <3> QED BY <3>1, Zenon
  <2>4. PICK r \in Seq(U) : r = Append(q, e)
    <3>1. Append(q, e) \in Seq(U)
      BY <2>2, <2>3, AppendProperties
    <3> QED BY <3>1, Zenon
  <2>8. Len(r) = n + k /\ r[n + k] = e /\ \A i \in 1 .. Len(q) : r[i] = q[i]
    BY <1>5, <2>1, <2>2, <2>3, <2>4, AppendProperties
  <2>5. ASSUME NEW i \in 1 .. n + k PROVE r[i] = IF i <= n THEN p[i] ELSE new[i - n]
    <3>1. CASE i = n + k
      <4>1. r[i] = new[k]
        BY <2>3, <2>8, <3>1
      <4>2. ~(i <= n) /\ i - n = k
        BY <1>5, <2>1, <3>1
      <4> QED BY <4>1, <4>2
    <3>2. CASE i # n + k
      <4>1. i \in 1 .. n + (k - 1) /\ i \in 1 .. Len(q)
        BY <1>5, <2>1, <2>2, <3>2
      <4>2. r[i] = q[i]
        BY <2>8, <4>1
      <4>3. q[i] = IF i <= n THEN p[i] ELSE new[i - n]
        BY <2>2, <4>1
      <4> QED BY <4>2, <4>3
    <3> QED BY <3>1, <3>2
  <2>6. r = [i \in 1 .. n + k |-> r[i]]
    BY <2>8, SeqIsFcn
  <2>7. r = Long(k)
    BY <2>5, <2>6
  <2> QED BY <2>2, <2>3, <2>4, <2>7, Zenon
<1> HIDE DEF Long
<1> DEFINE Bad == {k \in 0 .. m : ~Shows(a[k], Long(k))}
<1>11. Bad = {}
  <2>1. SUFFICES ASSUME Bad # {} PROVE FALSE
    OBVIOUS
  <2>2. PICK k \in Bad : \A j \in Bad : k <= j
    <3>1. Bad \subseteq Nat
      BY <1>5
    <3> QED BY <2>1, <3>1, LeastIn
  <2>3. k \in 0 .. m /\ ~Shows(a[k], Long(k))
    OBVIOUS
  <2>4. k # 0
    BY <1>6, <1>8, <2>3
  <2>5. k - 1 \in 0 .. m /\ k \in 1 .. m /\ ~(k <= k - 1)
    BY <1>5, <2>3, <2>4
  <2>6. Shows(a[k - 1], Long(k - 1))
    BY <2>2, <2>5
  <2>7. Shows(Push(a[k - 1], new[k]), Append(Long(k - 1), new[k]))
    BY <2>6, PushShows
  <2> QED BY <1>6, <1>10, <2>3, <2>4, <2>5, <2>7
<1>12. Shows(a[m], Long(m))
  BY <1>5, <1>11
<1> QED BY <1>6, <1>9, <1>12

\* What the commands print is always a sequence of lines.
LEMMA CountedIsSeq == ASSUME NEW n \in Nat, NEW f, f = [i \in 1 .. n |-> f[i]] PROVE IsSeq(f)
<1>1. PICK S : S = {f[i] : i \in 1 .. n}
  OBVIOUS
<1>2. f \in [1 .. n -> S]
  BY <1>1
<1>3. f \in Seq(S)
  BY <1>2
<1> QED BY <1>3 DEF IsSeq

LEMMA OneEachSeq == ASSUME NEW s, IsSeq(s) PROVE IsSeq(OneEach(s))
<1>1. PICK S : s \in Seq(S)
  BY DEF IsSeq
<1>2. PICK n : n = Len(s)
  OBVIOUS
<1>3. n \in Nat /\ DOMAIN s = 1 .. n
  BY <1>1, <1>2
<1>4. PICK f : f = [k \in 1 .. n |-> <<s[k]>>]
  OBVIOUS
<1>5. f = [k \in 1 .. n |-> f[k]]
  BY <1>4
<1>6. OneEach(s) = f
  BY <1>3, <1>4 DEF OneEach
<1> QED BY <1>3, <1>5, <1>6, CountedIsSeq

LEMMA ListSeq == ASSUME DiskOK PROVE IsSeq(FsList)
<1>1. CASE mounted
  <2>1. PICK S : S = {n \in DOMAIN disk["root"] : disk["root"][n].kind # "none"}
    OBVIOUS
  <2>2. PICK K : K = {Key[n] : n \in Names}
    OBVIOUS
  <2>3. S \subseteq K
    BY <2>1, <2>2 DEF DiskOK, Dirs
  <2>4. IsFiniteSet(K)
    <3>1. PICK f : f = [n \in Names |-> Key[n]]
      OBVIOUS
    <3>2. f \in Surjection(Names, K)
      BY <2>2, <3>1 DEF Surjection
    <3>3. IsFiniteSet(Names)
      BY RamFilesAssumption
    <3> QED BY <3>2, <3>3, FS_Surjection
  <2>5. IsFiniteSet(S)
    BY <2>3, <2>4, FS_Subset
  <2>6. Cardinality(S) \in Nat /\ ExistsBijection(1 .. Cardinality(S), S)
    BY <2>5, FS_CardinalityType
  <2>7. PICK n \in Nat : n = Cardinality(S)
    BY <2>6
  <2>8. \E f \in [1 .. n -> S] : IsInjective(f)
    <3>1. PICK f : f \in Bijection(1 .. n, S)
      BY <2>6, <2>7 DEF ExistsBijection
    <3>2. f \in [1 .. n -> S] /\ \A a, b \in 1 .. n : f[a] = f[b] => a = b
      BY <3>1 DEF Bijection, Injection, IsInjective
    <3> QED BY <3>2 DEF IsInjective
  <2>9. SetToSeq(S) \in [1 .. n -> S]
    BY <2>7, <2>8 DEF SetToSeq
  <2>10. FsList = SetToSeq(S)
    BY <1>1, <2>1 DEF FsList
  <2>11. SetToSeq(S) \in Seq(S)
    BY <2>9
  <2> QED BY <2>10, <2>11 DEF IsSeq
<1>2. CASE ~mounted
  <2>1. PICK c : c = Cardinality(Slots)
    OBVIOUS
  <2>2. c \in Nat
    BY <2>1, RamFilesAssumption, FS_CardinalityType
  <2>3. PICK T : T = {i \in 1 .. c : files[i].used}
    OBVIOUS
  <2>4. T \subseteq 1 .. c
    BY <2>3
  <2>5. PICK row \in Seq(T) : row = InOrder(T)
    <3>1. InOrder(T) \in Seq(T)
      BY <2>2, <2>4, OrderOf
    <3> QED BY <3>1, Zenon
  <2>6. PICK n : n = Len(row)
    OBVIOUS
  <2>7. n \in Nat /\ DOMAIN row = 1 .. n
    BY <2>5, <2>6
  <2>8. PICK f : f = [k \in 1 .. n |-> files[row[k]].name]
    OBVIOUS
  <2>9. f = [k \in 1 .. n |-> f[k]]
    BY <2>8
  <2>10. FsList = [k \in DOMAIN row |-> files[row[k]].name]
    BY <1>2, <2>1, <2>3, <2>5, Zenon DEF FsList
  <2>11. FsList = f
    BY <2>7, <2>8, <2>10
  <2> QED BY <2>7, <2>9, <2>11, CountedIsSeq
<1> QED BY <1>1, <1>2

LEMMA LinesOfSeq == ASSUME NEW S, NEW s \in Seq(S) PROVE IsSeq(LinesOf(s))
<1> DEFINE First(p) == Least({i \in 1 .. p : RunOf(s, i, p)})
           Stop(p) == CHOOSE j \in p .. p + LineLen - 2 :
                        /\ j <= Len(s) /\ RunOf(s, p, j)
                        /\ j = p + LineLen - 2 \/ j = Len(s) \/ Break(s[j + 1])
           starts == {p \in DOMAIN s : ~Break(s[p]) /\ (p - First(p)) % (LineLen - 1) = 0}
           order == InOrder(starts)
<1>0. LinesOf(s) = [k \in DOMAIN order |-> SubSeq(s, order[k], Stop(order[k]))]
  BY DEF LinesOf
<1>1. PICK T : T = starts
  OBVIOUS
<1>2. Len(s) \in Nat /\ T \subseteq 1 .. Len(s)
  BY <1>1
<1>3. PICK row \in Seq(T) : row = InOrder(T)
  <2>1. InOrder(T) \in Seq(T)
    BY <1>2, OrderOf
  <2> QED BY <2>1, Zenon
<1>4. PICK n : n = Len(row)
  OBVIOUS
<1>5. n \in Nat /\ DOMAIN row = 1 .. n
  BY <1>3, <1>4
<1> HIDE DEF Stop, starts
<1>6. LinesOf(s) = [k \in DOMAIN row |-> SubSeq(s, row[k], Stop(row[k]))]
  BY <1>0, <1>1, <1>3
<1>7. PICK f : f = [k \in 1 .. n |-> SubSeq(s, row[k], Stop(row[k]))]
  OBVIOUS
<1>8. f = [k \in 1 .. n |-> f[k]]
  BY <1>7
<1>9. LinesOf(s) = f
  BY <1>5, <1>6, <1>7
<1> QED BY <1>5, <1>8, <1>9, CountedIsSeq

LEMMA CatSeq ==
  ASSUME AppsInv, EditInv, NEW n \in Names, FsOpen(n).fd # 0, NEW count \in Nat
  PROVE  IsSeq(UpTo(LinesOf(CStr(FsOpen(n).table[FsOpen(n).fd].data)), Room(count)))
<1>1. IsTable(files) /\ RowsOK(files) /\ DiskOK
  BY DEF AppsInv, TableInv, EditInv
<1>2. RowsOK(FsOpen(n).table) /\ FsOpen(n).fd \in Slots
  BY <1>1, OpenRows, OpenGives, GivenTable
<1>3. PICK d \in Seq(Bytes) : d = FsOpen(n).table[FsOpen(n).fd].data
  BY <1>2 DEF RowsOK
<1>4. PICK c \in Seq(Bytes) : c = CStr(d)
  <2>1. CStr(d) \in Seq(Bytes)
    BY CStrText
  <2> QED BY <2>1, Zenon
<1>5. PICK l : l = LinesOf(c)
  OBVIOUS
<1>6. PICK S : l \in Seq(S)
  BY <1>5, LinesOfSeq DEF IsSeq
<1>7. PICK m \in Nat : m = Room(count)
  <2>1. Room(count) \in Nat
    BY TerminalAssumption DEF Room
  <2> QED BY <2>1
<1>8. UpTo(l, m) \in Seq(S)
  BY <1>6, UpToText
<1> QED BY <1>3, <1>4, <1>5, <1>7, <1>8 DEF IsSeq

LEMMA SaySeq == \A w : IsSeq(Say(w)) /\ IsSeq(<<w>>)
<1>1. ASSUME NEW w PROVE IsSeq(<<w>>)
  <2>1. <<w>> \in Seq({w})
    OBVIOUS
  <2> QED BY <2>1 DEF IsSeq
<1> QED BY <1>1 DEF Say

LEMMA PrintedSeq ==
  ASSUME AppsInv, EditInv, NEW cmd, NEW count \in Nat
  PROVE  IsSeq(Printed(cmd, count))
<1> DEFINE n == Arg(cmd)
<1>1. \A w : IsSeq(Say(w)) /\ IsSeq(<<w>>)
  BY SaySeq
<1>2. IsSeq(FsList) /\ IsSeq(OneEach(FsList))
  BY ListSeq, OneEachSeq DEF EditInv
<1>3. IsSeq([k \in 1 .. 4 |-> <<"help">>])
  <2>1. PICK f : f = [k \in 1 .. 4 |-> <<"help">>]
    OBVIOUS
  <2>2. f = [k \in 1 .. 4 |-> f[k]] /\ 4 \in Nat
    BY <2>1
  <2> QED BY <2>1, <2>2, CountedIsSeq
<1>4. IsSeq(Say("/:") \o OneEach(FsList))
  <2>1. PICK S, T : Say("/:") \in Seq(S) /\ OneEach(FsList) \in Seq(T)
    BY <1>1, <1>2 DEF IsSeq
  <2>2. PICK a, b : a = Say("/:") /\ b = OneEach(FsList)
    OBVIOUS
  <2>3. a \in Seq(S \cup T) /\ b \in Seq(S \cup T)
    BY <2>1, <2>2
  <2>4. a \o b \in Seq(S \cup T)
    BY <2>3, ConcatProperties
  <2> QED BY <2>2, <2>4 DEF IsSeq
<1>5. \A can, done : IsSeq(OnVolume(n, can, done))
  BY <1>1 DEF OnVolume
<1>6. IsName(n) /\ FsOpen(n).fd # 0 => IsSeq(UpTo(LinesOf(CStr(FsOpen(n).table[FsOpen(n).fd].data)), Room(count)))
  BY CatSeq DEF IsName
<1> HIDE DEF n
<1> QED BY <1>1, <1>2, <1>3, <1>4, <1>5, <1>6 DEF Printed, n

LEMMA EmptyShows == Shows(<<>>, <<>>)
<1>1. <<>> \in Seq({}) /\ Len(<<>>) = 0
  OBVIOUS
<1>2. ~(0 > MaxLines)
  BY TerminalAssumption
<1>3. <<>> = End(<<>>, 0)
  BY <1>1 DEF End
<1> QED BY <1>1, <1>2, <1>3, Zenon DEF Shows, IsSeq

LEMMA BannerShows == Shows(Banner, Banner)
<1>1. PICK S : S = {<<"SavaOS", "Terminal">>, <<"Type", "help">>}
  OBVIOUS
<1>2. Banner \in Seq(S) /\ Len(Banner) = 2
  BY <1>1 DEF Banner
<1>3. ~(2 > MaxLines)
  BY TerminalAssumption
<1>4. ASSUME NEW l \in S PROVE Fit(l) = l
  <2>1. PICK V : V = {"SavaOS", "Terminal", "Type", "help"}
    OBVIOUS
  <2>4. PICK a, b : a = <<"SavaOS", "Terminal">> /\ b = <<"Type", "help">>
    OBVIOUS
  <2>5. a \in Seq(V) /\ Len(a) = 2 /\ b \in Seq(V) /\ Len(b) = 2
    BY <2>1, <2>4
  <2>6. l = a \/ l = b
    BY <1>1, <2>4, Zenon
  <2>7. l \in Seq(V) /\ Len(l) = 2
    BY <2>5, <2>6
  <2>2. PICK m \in Nat : m = LineLen - 1 /\ 2 <= m
    BY TerminalAssumption
  <2>3. UpTo(l, m) = l
    BY <2>2, <2>7, UpToText
  <2> QED BY <2>2, <2>3 DEF Fit
<1>5. \A i \in 1 .. 2 : Banner[i] \in S
  BY <1>2, ElementOfSeq
<1>6. ASSUME NEW i \in 1 .. 2 PROVE Fit(Banner[Len(Banner) - 2 + i]) = Banner[i]
  <2>1. Len(Banner) - 2 + i = i
    BY <1>2
  <2> QED BY <1>4, <1>5, <2>1
<1>7. Banner = [i \in 1 .. 2 |-> Banner[i]]
  BY <1>2, SeqIsFcn
<1>8. Banner = End(Banner, 2)
  BY <1>6, <1>7 DEF End
<1> QED BY <1>2, <1>3, <1>8 DEF Shows, IsSeq

(* One window's scrollback changes, the others stay.                        *)
LEMMA WindowShows ==
  ASSUME ScrollInv, NEW t \in Terms, NEW ls, NEW p, Shows(ls, p),
         lines' = [lines EXCEPT ![t] = ls], pushed' = [pushed EXCEPT ![t] = p]
  PROVE  ScrollInv'
<1>1. /\ lines' = [u \in Terms |-> IF u = t THEN ls ELSE lines[u]]
      /\ pushed' = [u \in Terms |-> IF u = t THEN p ELSE pushed[u]]
  BY DEF ScrollInv
<1>2. \A u \in Terms : Shows(lines'[u], pushed'[u])
  BY <1>1 DEF ScrollInv
<1>3. lines' = [u \in Terms |-> lines'[u]] /\ pushed' = [u \in Terms |-> pushed'[u]]
  BY <1>1
<1>4. ScrollInv' <=> /\ lines' = [u \in Terms |-> lines'[u]] /\ pushed' = [u \in Terms |-> pushed'[u]]
                     /\ \A u \in Terms : Shows(lines'[u], pushed'[u])
  BY DEF ScrollInv, Shows, End, IsSeq, Fit, UpTo
<1> QED BY <1>2, <1>3, <1>4

LEMMA SameScroll == ASSUME ScrollInv, UNCHANGED <<lines, pushed>> PROVE ScrollInv'
BY DEF ScrollInv, Shows, End, IsSeq, Fit, UpTo

LEMMA EntersShow ==
  ASSUME AppsInv, EditInv, ScrollInv, NEW t \in Terms, NEW s, NEW b, Enters(t, s, b) PROVE ScrollInv'
<1>1. PICK x : x = <<">">> \o input[t]
  OBVIOUS
<1>2. PICK ls, p : ls = Push(lines[t], x) /\ p = Append(pushed[t], x)
  OBVIOUS
<1>3. Execute(t, ls)
  BY <1>1, <1>2 DEF Enters, EnterKey
<1>4. Shows(ls, p)
  BY <1>2, PushShows DEF ScrollInv
<1>5. Len(ls) \in Nat
  BY <1>4, PushShows
<1>6. CASE input[t] # <<>> /\ input[t][1] = "clear"
  <2>1. lines' = [lines EXCEPT ![t] = <<>>] /\ pushed' = [pushed EXCEPT ![t] = <<>>]
    BY <1>3, <1>6 DEF Execute
  <2> QED BY <2>1, EmptyShows, WindowShows
<1>7. CASE ~(input[t] # <<>> /\ input[t][1] = "clear")
  <2>1. PICK new : new = IF input[t] = <<>> THEN <<>> ELSE Printed(input[t], Len(ls))
    OBVIOUS
  <2>2. IsSeq(new)
    <3>1. <<>> \in Seq({})
      OBVIOUS
    <3>2. IsSeq(<<>>)
      BY <3>1 DEF IsSeq
    <3> QED BY <1>5, <2>1, <3>2, PrintedSeq
  <2>3. lines' = [lines EXCEPT ![t] = PushAll(ls, new)] /\ pushed' = [pushed EXCEPT ![t] = p \o new]
    BY <1>1, <1>2, <1>3, <1>7, <2>1 DEF Execute
  <2>4. Shows(PushAll(ls, new), p \o new)
    BY <1>4, <2>2, PushAllShows
  <2> QED BY <2>3, <2>4, WindowShows
<1> QED BY <1>6, <1>7

LEMMA EntryShows ==
  ASSUME ScrollInv, NEW t \in Terms, NEW e, Entry(t, e) PROVE ScrollInv'
<1>1. CASE e = "Clear"
  <2>1. lines' = [lines EXCEPT ![t] = <<>>] /\ pushed' = [pushed EXCEPT ![t] = <<>>]
    BY <1>1 DEF Entry
  <2> QED BY <2>1, EmptyShows, WindowShows
<1>2. CASE e # "Clear"
  BY <1>2, SameScroll DEF Entry
<1> QED BY <1>1, <1>2

LEMMA ShellShows ==
  ASSUME ScrollInv, NEW t \in Terms, Erases(t) \/ MenuOf(t) \/ PopUpOf(t) \/ Slides(t) \/ Reopens(t) PROVE ScrollInv'
<1>1. CASE MenuOf(t) \/ PopUpOf(t)
  <2>1. \E e \in Entries \cup {"outside"} : Entry(t, e)
    BY <1>1 DEF MenuOf, PopUpOf, MenuEntry, PopUpEntry
  <2> QED BY <2>1, EntryShows
<1>2. CASE Reopens(t)
  <2>1. lines' = [lines EXCEPT ![t] = Banner] /\ pushed' = [pushed EXCEPT ![t] = Banner]
    BY <1>2 DEF Reopens, Reopen
  <2> QED BY <2>1, BannerShows, WindowShows
<1>3. CASE Erases(t) \/ Slides(t)
  <2>1. UNCHANGED <<lines, pushed>>
    BY <1>3 DEF Erases, Slides, EraseKey, Scrollbar
  <2> QED BY <2>1, SameScroll
<1> QED BY <1>1, <1>2, <1>3

LEMMA ScrollNext == AppsInv /\ EditInv /\ ScrollInv /\ [Next]_vars => ScrollInv'
<1> SUFFICES ASSUME AppsInv, EditInv, ScrollInv, [Next]_vars PROVE ScrollInv'
  OBVIOUS
<1>1. ASSUME NEW w \in Wins, Key_(w) \/ PopUpClick(w) \/ Clears(w) \/ Finds(w) \/ Points(w) \/ Types(w) PROVE ScrollInv'
  <2>1. UNCHANGED termvars
    BY <1>1 DEF Key_, PopUpClick, Clears, Finds, Points, Types, Edits
  <2> QED BY <2>1, SameScroll DEF termvars
<1>2. CASE Buttons
  <2>1. UNCHANGED termvars
    BY <1>2 DEF Buttons
  <2> QED BY <2>1, SameScroll DEF termvars
<1>3. CASE Windows("editing", EditSteps, {"A"}) \/ Windows("sharing", ShareSteps, {"a", "A", "long"})
  <2>1. UNCHANGED termvars
    BY <1>3 DEF Windows
  <2> QED BY <2>1, SameScroll DEF termvars
<1>4. CASE Stores("editing", EditSteps) \/ Stores("sharing", ShareSteps)
  <2>1. UNCHANGED termvars
    BY <1>4 DEF Stores
  <2> QED BY <2>1, SameScroll DEF termvars
<1>5. ASSUME NEW t \in Terms, Enters(t, "sharing", ShareSteps) \/ Enters(t, "typing", ShellSteps) PROVE ScrollInv'
  BY <1>5, EntersShow
<1>6. ASSUME NEW t \in Terms, Words_(t, "sharing", ShareSteps, FileWords) \/ Words_(t, "typing", ShellSteps, Words) PROVE ScrollInv'
  <2>1. UNCHANGED <<lines, pushed>>
    BY <1>6 DEF Words_, WordKey
  <2> QED BY <2>1, SameScroll
<1>7. ASSUME NEW t \in Terms, Erases(t) \/ MenuOf(t) \/ PopUpOf(t) \/ Slides(t) \/ Reopens(t) PROVE ScrollInv'
  BY <1>7, ShellShows
<1>8. CASE PopsUp \/ Mounts
  <2>1. UNCHANGED <<lines, pushed>>
    BY <1>8 DEF PopsUp, PopUp, Mounts, termvars
  <2> QED BY <2>1, SameScroll
<1>9. CASE UNCHANGED vars
  BY <1>9, SameScroll DEF vars, termvars
<1> QED BY <1>1, <1>2, <1>3, <1>4, <1>5, <1>6, <1>7, <1>8, <1>9 DEF Next

LEMMA ScrollInit == Init => ScrollInv
<1> SUFFICES ASSUME Init PROVE ScrollInv
  OBVIOUS
<1>1. lines = [t \in Terms |-> Banner] /\ pushed = [t \in Terms |-> Banner]
  BY DEF Init, TermInit
<1> HIDE DEF Banner
<1> QED BY <1>1, BannerShows DEF ScrollInv

(* A Terminal window holds the last TERM_MAX_LINES lines that were printed  *)
(* since it was cleared, in order and each cut to its place, whichever      *)
(* commands printed them and however many lines at a time.                  *)
THEOREM ScrollbackIsWhole == Spec => []Scrollback
<1>1. ScrollInv => Scrollback
  BY DEF ScrollInv, Scrollback, Shows, End
<1>2. Init => ScrollInv
  BY ScrollInit
<1>3. AppsInv /\ EditInv /\ ScrollInv /\ [Next]_vars => ScrollInv'
  BY ScrollNext
<1> QED BY <1>1, <1>2, <1>3, EditInvariant, PTL DEF Spec
=============================================================================
