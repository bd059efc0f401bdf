-------------------------------- MODULE BbmProofs --------------------------------
(* The safety properties of Bbm and its refinement of RelocStore, for every    *)
(* number of data blocks, reserved blocks and table pages, whatever erases and *)
(* writes fail and wherever the power does.                                    *)
(*                                                                             *)
(* The argument is about tables. A sound table has for each entry a reserved   *)
(* block of its own, so that it can have no more entries than the area has     *)
(* blocks, and is full exactly when none is free (SoundLen). update_reloc_tb   *)
(* keeps a table sound while a block is free, and takes it past its limit for  *)
(* good when none is, by as many entries as erases fail. What it adds extends  *)
(* the table stored last: no data block leaves its place unless that place is  *)
(* given up, and none moves to a block that the stored table used.             *)
EXTENDS Bbm, FiniteSetTheorems, SequenceTheorems, LeastElement

-----------------------------------------------------------------------------
(* Tables and where they put a block. *)

\* The reserved block that an entry uses: a replacement, or one given up.
UsedBy(e) == IF e.to # GivenUp THEN e.to ELSE e.from
\* A data block and its replacement; a reserved block given up.
Live(e) == e.from \in Data /\ e.to \in Reserved
Dead(e) == e.from \in Reserved /\ e.to = GivenUp

\* No block is in two entries, neither as from nor as the reserved block used.
Sound(t) ==
  /\ t \in Seq(Entries)
  /\ \A i \in DOMAIN t : Live(t[i]) \/ Dead(t[i])
  /\ \A i, j \in DOMAIN t : i # j => t[i].from # t[j].from /\ UsedBy(t[i]) # UsedBy(t[j])

\* A table past its limit: no markbad is let through to it any more.
Overfull(t) == t \in Seq(Entries) /\ Len(t) > MaxRelocEntry /\ Len(t) <= PageEntries

\* The blocks that are in no one's use any more.
Retired(t) == {t[i].from : i \in DOMAIN t}

\* The two areas and the mark for a block given up are apart.
LEMMA AreasApart ==
  /\ Data \cap Reserved = {} /\ GivenUp \notin Reserved /\ GivenUp \notin Data
  /\ RelocBegin - 1 \in Data /\ RelocBegin - 1 \notin Reserved
  /\ \A b \in Data : b < RelocBegin
  /\ \A r \in Reserved : r >= RelocBegin
  BY RelocAssumption DEF Data, Reserved, GivenUp

\* An entry uses a block of the reserved area.
LEMMA UsedByReserved ==
  ASSUME NEW e, Live(e) \/ Dead(e)
  PROVE  UsedBy(e) \in Reserved
  BY AreasApart DEF Live, Dead, UsedBy

\* Search takes the last entry of a data block.
LEMMA SearchIs ==
  ASSUME NEW t \in Seq(Entries), NEW b \in Data
  PROVE  \/ b \notin Retired(t) /\ Search(t, b) = b
         \/ \E i \in DOMAIN t : t[i].from = b /\ Search(t, b) = t[i].to
<1> DEFINE hits == {i \in DOMAIN t : t[i].from = b}
<1>0. Search(t, b) = IF b >= RelocBegin \/ hits = {} THEN b
                     ELSE t[CHOOSE i \in hits : \A j \in hits : j <= i].to
  BY DEF Search
<1>1. ~(b >= RelocBegin)
  BY RelocAssumption DEF Data
<1>2. CASE hits = {}
  BY <1>1, <1>2 DEF Search, Retired
<1>3. CASE hits # {}
  <2>1. hits \in SUBSET Nat /\ Len(t) \in Nat /\ \A i \in hits : i <= Len(t)
    BY LenProperties
  <2>2. \E i \in hits : \A j \in hits : j <= i
    <3> HIDE DEF hits
    <3> QED
      BY <1>3, <2>1, HasGreatest
  <2>3. (CHOOSE i \in hits : \A j \in hits : j <= i) \in hits
    BY <2>2
  <2> QED
    BY <1>0, <1>1, <1>3, <2>3
<1> QED
  BY <1>2, <1>3

\* Reserved blocks are not looked up.
LEMMA SearchReserved ==
  ASSUME NEW t, NEW r \in Reserved
  PROVE  Search(t, r) = r
  BY AreasApart DEF Search

\* In a sound table it is the only entry.
LEMMA SoundSearch ==
  ASSUME NEW t, Sound(t), NEW i \in DOMAIN t, t[i].from \in Data
  PROVE  Search(t, t[i].from) = t[i].to /\ t[i].to \in Reserved /\ t[i].to \in Used(t)
<1>1. PICK j \in DOMAIN t : t[j].from = t[i].from /\ Search(t, t[i].from) = t[j].to
  BY SearchIs DEF Sound, Retired
<1>2. i = j
  BY <1>1 DEF Sound
<1>3. Live(t[i])
  BY AreasApart DEF Sound, Dead
<1> QED
  BY <1>1, <1>2, <1>3, AreasApart DEF Live, Used

\* Where a sound table puts a data block.
LEMMA Place ==
  ASSUME NEW t, Sound(t), NEW b \in Data
  PROVE  \/ b \notin Retired(t) /\ Search(t, b) = b
         \/ /\ b \in Retired(t) /\ Search(t, b) \in Used(t) /\ Search(t, b) \in Reserved
            /\ \E i \in DOMAIN t : t[i].from = b /\ t[i].to = Search(t, b)
<1>1. CASE b \notin Retired(t)
  BY <1>1, SearchIs DEF Sound, Retired
<1>2. CASE b \in Retired(t)
  BY <1>2, SoundSearch DEF Retired
<1> QED
  BY <1>1, <1>2

\* No two data blocks are in one place, ...
LEMMA PlaceOwn ==
  ASSUME NEW t, Sound(t), NEW b \in Data, NEW c \in Data, b # c
  PROVE  Search(t, b) # Search(t, c)
<1>1. ASSUME NEW i \in DOMAIN t, NEW j \in DOMAIN t, t[i].from = b, t[j].from = c,
             t[i].to \in Reserved, t[j].to \in Reserved
      PROVE  t[i].to # t[j].to
  BY <1>1, AreasApart DEF Sound, UsedBy
<1> QED
  BY <1>1, Place, AreasApart

\* ... and none is in a block given up.
LEMMA PlaceNotRetired ==
  ASSUME NEW t, Sound(t), NEW b \in Data
  PROVE  Search(t, b) \notin Retired(t)
<1>1. CASE b \notin Retired(t)
  BY <1>1, Place
<1>2. CASE b \in Retired(t)
  <2>1. PICK i \in DOMAIN t : t[i].from = b /\ t[i].to = Search(t, b) /\ Search(t, b) \in Reserved
    BY <1>2, Place
  <2>2. ASSUME NEW j \in DOMAIN t, t[j].from = t[i].to PROVE FALSE
    <3>1. i # j /\ Dead(t[j])
      BY <2>1, <2>2, AreasApart DEF Sound, Live
    <3>2. UsedBy(t[i]) = UsedBy(t[j])
      BY <2>1, <2>2, <3>1, AreasApart DEF UsedBy, Dead
    <3> QED
      BY <3>1, <3>2 DEF Sound
  <2> QED
    BY <2>1, <2>2 DEF Retired
<1> QED
  BY <1>1, <1>2

\* rel_dist, entry by entry.
LEMMA UsedIs ==
  ASSUME NEW t
  PROVE  Used(t) = {UsedBy(t[i]) : i \in DOMAIN t}
  BY DEF Used, UsedBy

-----------------------------------------------------------------------------
(* What one entry more does to a sound table. *)

\* A sound table has a reserved block to each entry, so it is full with the area.
LEMMA SoundLen ==
  ASSUME NEW t, Sound(t)
  PROVE  /\ Len(t) \in Nat /\ Len(t) <= MaxRelocEntry
         /\ Len(t) = MaxRelocEntry <=> Free(t) = {}
<1> DEFINE n == Len(t)
           f == [i \in 1 .. n |-> UsedBy(t[i])]
<1>1. n \in Nat /\ DOMAIN t = 1 .. n
  BY LenProperties DEF Sound
<1>2. f \in [1 .. n -> Reserved]
  BY <1>1, UsedByReserved DEF Sound
<1>3. f \in Injection(1 .. n, Reserved)
  BY <1>1, <1>2 DEF Sound, Injection, IsInjective
<1>4. IsFiniteSet(Reserved) /\ Cardinality(Reserved) = MaxRelocEntry
  BY FS_Interval, RelocAssumption DEF Reserved
<1>5. IsFiniteSet(1 .. n) /\ Cardinality(1 .. n) = n
  <2>1. n \in Int /\ 1 \in Int /\ (IF 1 > n THEN 0 ELSE n - 1 + 1) = n
    BY <1>1
  <2> HIDE DEF n
  <2> QED
    BY <2>1, FS_Interval
<1>6. n <= MaxRelocEntry /\ (n = MaxRelocEntry <=> f \in Surjection(1 .. n, Reserved))
  BY <1>3, <1>4, <1>5, FS_Injection
<1>7. f \in Surjection(1 .. n, Reserved) <=> Reserved \subseteq Used(t)
  BY <1>1, <1>2, UsedIs DEF Surjection
<1> QED
  BY <1>1, <1>6, <1>7 DEF Free

\* The search downwards finds a free block if there is one.
LEMMA FreeIs ==
  ASSUME NEW t, Free(t) # {}
  PROVE  RelocBlock(t) \in Free(t) /\ RelocBlock(t) \in Reserved /\ RelocBlock(t) \notin Used(t)
<1>1. /\ Free(t) \in SUBSET Nat
      /\ RelocBegin + MaxRelocEntry \in Nat
      /\ \A r \in Free(t) : r <= RelocBegin + MaxRelocEntry
  BY RelocAssumption DEF Free, Reserved
<1>2. \E r \in Free(t) : \A s \in Free(t) : s <= r
  BY <1>1, HasGreatest
<1> QED
  BY <1>2 DEF RelocBlock, Free

\* Appending an entry for blocks that the table does not mention.
LEMMA SoundAppend ==
  ASSUME NEW t, Sound(t), NEW e \in Entries, Live(e) \/ Dead(e),
         e.from \notin Retired(t), UsedBy(e) \notin Used(t)
  PROVE  LET u == Append(t, e)
         IN  /\ Sound(u)
             /\ Retired(u) = Retired(t) \cup {e.from}
             /\ Used(u) = Used(t) \cup {UsedBy(e)}
             /\ \A b \in Data \ {e.from} : Search(u, b) = Search(t, b)
             /\ e.from \in Data => Search(u, e.from) = e.to
<1> DEFINE u == Append(t, e)
           n == Len(t)
<1>1. n \in Nat /\ DOMAIN t = 1 .. n
  BY LenProperties DEF Sound
<1>2. /\ u \in Seq(Entries) /\ Len(u) = n + 1
      /\ \A i \in 1 .. n : u[i] = t[i]
      /\ u[n + 1] = e
  BY AppendProperties DEF Sound
<1>3. DOMAIN u = 1 .. n + 1
  BY <1>2, LenProperties
<1> HIDE DEF u, n
<1>4. DOMAIN u = DOMAIN t \cup {n + 1} /\ n + 1 \notin DOMAIN t
  BY <1>1, <1>3
<1>5. /\ \A i \in DOMAIN t : u[i] = t[i]
      /\ \A i \in DOMAIN u : i \notin DOMAIN t => u[i] = e
  BY <1>1, <1>2, <1>4
<1>6. Retired(u) = Retired(t) \cup {e.from}
  BY <1>2, <1>4, <1>5 DEF Retired
<1>7. Used(u) = Used(t) \cup {UsedBy(e)}
  <2>1. Used(u) = {UsedBy(u[i]) : i \in DOMAIN u} /\ Used(t) = {UsedBy(t[i]) : i \in DOMAIN t}
    BY UsedIs
  <2>2. /\ \A i \in DOMAIN t : UsedBy(u[i]) = UsedBy(t[i])
        /\ UsedBy(u[n + 1]) = UsedBy(e)
    BY <1>2, <1>5
  <2> QED
    BY <2>1, <2>2, <1>4
<1>8. \A i \in DOMAIN u : Live(u[i]) \/ Dead(u[i])
  BY <1>5 DEF Sound
<1>9. ASSUME NEW i \in DOMAIN u, NEW j \in DOMAIN u, i # j
      PROVE  u[i].from # u[j].from /\ UsedBy(u[i]) # UsedBy(u[j])
  <2>1. ASSUME NEW k \in DOMAIN t PROVE t[k].from # e.from /\ UsedBy(t[k]) # UsedBy(e)
    BY UsedIs DEF Retired
  <2>2. CASE i \in DOMAIN t /\ j \in DOMAIN t
    BY <1>5, <1>9, <2>2 DEF Sound
  <2>3. CASE i \notin DOMAIN t /\ j \in DOMAIN t
    BY <1>5, <2>1, <2>3
  <2>4. CASE i \in DOMAIN t /\ j \notin DOMAIN t
    BY <1>5, <2>1, <2>4
  <2> QED
    BY <1>4, <1>9, <2>2, <2>3, <2>4
<1>10. Sound(u)
  BY <1>2, <1>8, <1>9 DEF Sound
<1>11. ASSUME NEW b \in Data, b # e.from PROVE Search(u, b) = Search(t, b)
  <2>1. CASE b \notin Retired(t)
    BY <1>6, <1>10, <1>11, <2>1, Place
  <2>2. CASE b \in Retired(t)
    <3>1. PICK i \in DOMAIN t : t[i].from = b
      BY <2>2 DEF Retired
    <3>2. u[i].from = b /\ u[i].to = t[i].to /\ i \in DOMAIN u
      BY <3>1, <1>4, <1>5
    <3> QED
      BY <3>1, <3>2, <1>10, SoundSearch
  <2> QED
    BY <2>1, <2>2
<1>12. ASSUME e.from \in Data PROVE Search(u, e.from) = e.to
  BY <1>2, <1>4, <1>10, <1>12, SoundSearch
<1> QED
  BY <1>6, <1>7, <1>10, <1>11, <1>12 DEF u

\* Sending a relocated block on to a free one.
SentOn(t, n, r) == [t EXCEPT ![n].to = r]

\* ... moves one use.
LEMMA SoundUpdate ==
  ASSUME NEW t, Sound(t), NEW n \in DOMAIN t, t[n].from \in Data, NEW r \in Free(t),
         NEW u, u = SentOn(t, n, r)
  PROVE  /\ Sound(u) /\ Len(u) = Len(t)
         /\ Retired(u) = Retired(t)
         /\ Used(u) = (Used(t) \ {t[n].to}) \cup {r}
         /\ Search(u, t[n].from) = r
         /\ \A b \in Data \ {t[n].from} : Search(u, b) = Search(t, b)
<1> DEFINE e == [t[n] EXCEPT !.to = r]
<1>0. u = [t EXCEPT ![n] = e]
  BY DEF SentOn
<1>1. DOMAIN t = 1 .. Len(t) /\ t[n] \in Entries /\ r \in Reserved /\ r \notin Used(t)
  BY LenProperties, ElementOfSeq DEF Sound, Free
<1>2. e \in Entries /\ e.from = t[n].from /\ e.to = r
  BY <1>1 DEF Entries
<1>3. Live(e) /\ UsedBy(e) = r
  BY <1>1, <1>2, AreasApart DEF Live, UsedBy
<1>4. t[n].to \in Reserved /\ UsedBy(t[n]) = t[n].to
  BY SoundSearch, AreasApart DEF UsedBy
<1> HIDE DEF e
<1>5. /\ u \in Seq(Entries) /\ Len(u) = Len(t)
      /\ DOMAIN u = DOMAIN t
      /\ \A i \in DOMAIN t : u[i] = IF i = n THEN e ELSE t[i]
  BY <1>0, <1>1, <1>2, ExceptSeq, LenProperties DEF Sound
<1>6. Retired(u) = Retired(t)
  <2>1. \A i \in DOMAIN t : u[i].from = t[i].from
    BY <1>2, <1>5
  <2> QED
    BY <1>5, <2>1 DEF Retired
<1>7. \A i \in DOMAIN t : i # n => UsedBy(t[i]) # r /\ UsedBy(t[i]) # t[n].to
  BY <1>1, <1>4, UsedIs DEF Sound
<1>8. Used(u) = (Used(t) \ {t[n].to}) \cup {r}
  <2>1. Used(u) = {UsedBy(u[i]) : i \in DOMAIN t} /\ Used(t) = {UsedBy(t[i]) : i \in DOMAIN t}
    BY <1>5, UsedIs
  <2>2. \A i \in DOMAIN t : UsedBy(u[i]) = IF i = n THEN r ELSE UsedBy(t[i])
    BY <1>3, <1>5
  <2> QED
    BY <2>1, <2>2, <1>4, <1>7
<1>9. Sound(u)
  <2>1. \A i \in DOMAIN u : Live(u[i]) \/ Dead(u[i])
    BY <1>3, <1>5 DEF Sound
  <2>2. ASSUME NEW i \in DOMAIN u, NEW j \in DOMAIN u, i # j
        PROVE  u[i].from # u[j].from /\ UsedBy(u[i]) # UsedBy(u[j])
    <3>1. u[i].from = t[i].from /\ u[j].from = t[j].from
      BY <1>2, <1>5
    <3>2. t[i].from # t[j].from /\ UsedBy(t[i]) # UsedBy(t[j])
      BY <2>2, <1>5 DEF Sound
    <3>3. UsedBy(u[i]) = (IF i = n THEN r ELSE UsedBy(t[i]))
          /\ UsedBy(u[j]) = (IF j = n THEN r ELSE UsedBy(t[j]))
      BY <1>3, <1>5
    <3> QED
      BY <2>2, <3>1, <3>2, <3>3, <1>5, <1>7
  <2> QED
    BY <1>5, <2>1, <2>2 DEF Sound
<1>10. Search(u, t[n].from) = r
  BY <1>2, <1>5, <1>9, SoundSearch
<1>11. ASSUME NEW b \in Data, b # t[n].from PROVE Search(u, b) = Search(t, b)
  <2>1. CASE b \notin Retired(t)
    BY <1>6, <1>9, <2>1, Place
  <2>2. CASE b \in Retired(t)
    <3>1. PICK i \in DOMAIN t : t[i].from = b
      BY <2>2 DEF Retired
    <3>2. u[i] = t[i] /\ i \in DOMAIN u
      BY <3>1, <1>5, <1>11
    <3> QED
      BY <3>1, <3>2, <1>9, SoundSearch
  <2> QED
    BY <2>1, <2>2
<1> QED
  BY <1>5, <1>6, <1>8, <1>9, <1>10, <1>11

(* Table t is what has become of table old: what was given up or in use stays  *)
(* so, and a data block that moved left its place to move to a block then free.*)
Extends(t, old) ==
  /\ Retired(old) \subseteq Retired(t)
  /\ Used(old) \subseteq Used(t)
  /\ \A b \in Data : Search(t, b) # Search(old, b) =>
        Search(old, b) \in Retired(t) /\ Search(t, b) \in Reserved \ Used(old)

\* A free block was not given up before.
LEMMA FreeNotRetired ==
  ASSUME NEW t, Sound(t), NEW r \in Free(t)
  PROVE  r \in Reserved /\ r \notin Used(t) /\ r \notin Retired(t)
<1>1. ASSUME NEW i \in DOMAIN t, t[i].from = r PROVE FALSE
  <2>1. Dead(t[i])
    BY <1>1, AreasApart DEF Sound, Live, Free
  <2>2. UsedBy(t[i]) = r
    BY <1>1, <2>1 DEF Dead, UsedBy
  <2> QED
    BY <2>2, UsedIs DEF Free
<1> QED
  BY <1>1 DEF Retired, Free

\* A replacement that could not be erased is noted; no data block moves.
LEMMA GivenUpIs ==
  ASSUME NEW t, Sound(t), NEW r \in Free(t)
  PROVE  LET u == GivenUpToo(t, r)
         IN  /\ Sound(u)
             /\ Retired(u) = Retired(t) \cup {r}
             /\ Used(u) = Used(t) \cup {r}
             /\ \A b \in Data : Search(u, b) = Search(t, b)
<1> DEFINE e == [from |-> r, to |-> GivenUp]
<1>1. e \in Entries /\ Dead(e) /\ e.from = r /\ UsedBy(e) = r
  BY FreeNotRetired DEF Entries, Blocks, Dead, UsedBy
<1>2. e.from \notin Data
  BY <1>1, FreeNotRetired, AreasApart
<1>3. GivenUpToo(t, r) = Append(t, e)
  BY DEF GivenUpToo
<1> HIDE DEF e
<1>4. e.from \notin Retired(t) /\ UsedBy(e) \notin Used(t)
  BY <1>1, FreeNotRetired
<1> QED
  BY <1>1, <1>2, <1>3, <1>4, SoundAppend

\* A table in which entry n was sent on and the block that it leaves given up.
Moved(t, n, r) == Append(SentOn(t, n, r), [from |-> t[n].to, to |-> GivenUp])

\* Replaced in the case that block b has no entry, or one.
LEMMA ReplacedCases ==
  ASSUME NEW t \in Seq(Entries), NEW b \in Data, NEW r
  PROVE  \/ /\ \A i \in DOMAIN t : t[i].from = b => t[i].to = GivenUp
            /\ Replaced(t, b, r) = Append(t, [from |-> b, to |-> r])
         \/ \E n \in DOMAIN t :
              t[n].from = b /\ t[n].to # GivenUp /\ Replaced(t, b, r) = Moved(t, n, r)
<1> DEFINE hits == {i \in DOMAIN t : t[i].from = b /\ t[i].to # GivenUp}
           n == CHOOSE i \in hits : \A j \in hits : i <= j
<1>1. Replaced(t, b, r) =
        IF hits = {} THEN Append(t, [from |-> b, to |-> r]) ELSE Moved(t, n, r)
  BY DEF Replaced, Moved, SentOn
<1>2. CASE hits = {}
  BY <1>1, <1>2
<1>3. CASE hits # {}
  <2>1. hits \in SUBSET Nat
    BY LenProperties
  <2>2. \E i \in hits : \A j \in hits : i <= j
    <3> HIDE DEF hits
    <3> QED
      BY <1>3, <2>1, HasLeast
  <2>3. n \in hits
    BY <2>2
  <2> HIDE DEF n
  <2> QED
    BY <1>1, <1>3, <2>3
<1> QED
  BY <1>2, <1>3

\* In a sound table no data block is given up.
LEMMA SoundReplacedCases ==
  ASSUME NEW t, Sound(t), NEW b \in Data, NEW r
  PROVE  \/ b \notin Retired(t) /\ Replaced(t, b, r) = Append(t, [from |-> b, to |-> r])
         \/ \E n \in DOMAIN t : t[n].from = b /\ Replaced(t, b, r) = Moved(t, n, r)
<1>1. ASSUME NEW i \in DOMAIN t, t[i].from = b PROVE t[i].to # GivenUp
  BY <1>1, SoundSearch, AreasApart
<1>2. t \in Seq(Entries)
  BY DEF Sound
<1> QED
  BY <1>1, <1>2, ReplacedCases DEF Retired

\* A block is replaced: its place is given up, and no other block moves.
LEMMA ReplacedIs ==
  ASSUME NEW t, Sound(t), NEW b \in Data, NEW r \in Free(t)
  PROVE  LET u == Replaced(t, b, r)
         IN  /\ Sound(u)
             /\ Retired(u) = Retired(t) \cup {Search(t, b)}
             /\ Used(u) = Used(t) \cup {r}
             /\ Search(u, b) = r
             /\ \A c \in Data \ {b} : Search(u, c) = Search(t, c)
<1>1. CASE b \notin Retired(t) /\ Replaced(t, b, r) = Append(t, [from |-> b, to |-> r])
  <2> DEFINE e == [from |-> b, to |-> r]
  <2>1. e \in Entries /\ Live(e) /\ e.from = b /\ e.to = r /\ UsedBy(e) = r
    BY FreeNotRetired, AreasApart DEF Entries, Blocks, Live, UsedBy
  <2>2. Search(t, b) = b
    BY <1>1, Place
  <2>3. Replaced(t, b, r) = Append(t, e)
    BY <1>1
  <2> HIDE DEF e
  <2>4. e.from \notin Retired(t) /\ UsedBy(e) \notin Used(t) /\ e.from \in Data
    BY <1>1, <2>1, FreeNotRetired
  <2> QED
    BY <2>1, <2>2, <2>3, <2>4, SoundAppend
<1>2. ASSUME NEW n \in DOMAIN t, t[n].from = b, Replaced(t, b, r) = Moved(t, n, r)
      PROVE  LET u == Replaced(t, b, r)
             IN  /\ Sound(u)
                 /\ Retired(u) = Retired(t) \cup {Search(t, b)}
                 /\ Used(u) = Used(t) \cup {r}
                 /\ Search(u, b) = r
                 /\ \A c \in Data \ {b} : Search(u, c) = Search(t, c)
  <2> DEFINE m == [t EXCEPT ![n].to = r]
             e == [from |-> t[n].to, to |-> GivenUp]
  <2>1. /\ Sound(m)
        /\ Retired(m) = Retired(t)
        /\ Used(m) = (Used(t) \ {t[n].to}) \cup {r}
        /\ Search(m, b) = r
        /\ \A c \in Data \ {b} : Search(m, c) = Search(t, c)
    <3>1. m = SentOn(t, n, r)
      BY DEF SentOn
    <3> HIDE DEF m
    <3> QED
      BY <1>2, <3>1, SoundUpdate
  <2>2. t[n].to = Search(t, b) /\ t[n].to \in Reserved /\ t[n].to \in Used(t)
    BY <1>2, SoundSearch
  <2>3. e \in Entries /\ Dead(e) /\ e.from = Search(t, b) /\ UsedBy(e) = Search(t, b)
    BY <2>2 DEF Entries, Blocks, Dead, UsedBy
  <2>4. Replaced(t, b, r) = Append(m, e)
    BY <1>2 DEF Moved, SentOn
  <2> HIDE DEF m, e
  <2>5. e.from \notin Retired(m) /\ UsedBy(e) \notin Used(m) /\ e.from \notin Data
    BY <2>1, <2>2, <2>3, PlaceNotRetired, FreeNotRetired, AreasApart
  <2>6. LET u == Append(m, e)
        IN  /\ Sound(u)
            /\ Retired(u) = Retired(m) \cup {e.from}
            /\ Used(u) = Used(m) \cup {UsedBy(e)}
            /\ \A c \in Data \ {e.from} : Search(u, c) = Search(m, c)
    BY <2>1, <2>3, <2>5, SoundAppend
  <2> QED
    BY <2>1, <2>2, <2>3, <2>4, <2>5, <2>6
<1> QED
  BY <1>1, <1>2, SoundReplacedCases

\* The block that update_reloc_tb tries to erase.
LEMMA RelocBlockType ==
  ASSUME NEW t
  PROVE  RelocBlock(t) \in Reserved \cup {RelocBegin - 1}
  BY FreeIs DEF RelocBlock

\* An entry more in a table at its limit takes it past that.
LEMMA OverfullAppend ==
  ASSUME NEW m \in Seq(Entries), Len(m) >= MaxRelocEntry, Len(m) < PageEntries, NEW e \in Entries
  PROVE  Overfull(Append(m, e))
<1>1. Append(m, e) \in Seq(Entries) /\ Len(Append(m, e)) = Len(m) + 1 /\ Len(m) \in Nat
  BY AppendProperties, LenProperties
<1> QED
  BY <1>1, RelocAssumption, PageEntriesAssumption DEF Overfull

\* With no reserved block left the table passes its limit, for good: by a
\* replacement that cannot be erased ...
LEMMA GivenUpOverfull ==
  ASSUME NEW t \in Seq(Entries), Len(t) >= MaxRelocEntry, Len(t) < PageEntries,
         NEW r \in Reserved \cup {RelocBegin - 1}
  PROVE  Overfull(GivenUpToo(t, r))
<1> DEFINE e == [from |-> r, to |-> GivenUp]
<1>1. e \in Entries
  BY AreasApart DEF Entries, Blocks
<1> QED
  BY <1>1, OverfullAppend DEF GivenUpToo

\* ... and by one that can.
LEMMA ReplacedOverfull ==
  ASSUME NEW t \in Seq(Entries), Len(t) >= MaxRelocEntry, Len(t) < PageEntries, NEW b \in Data,
         NEW r \in Reserved \cup {RelocBegin - 1}
  PROVE  Overfull(Replaced(t, b, r))
<1>1. CASE Replaced(t, b, r) = Append(t, [from |-> b, to |-> r])
  <2> DEFINE e == [from |-> b, to |-> r]
  <2>1. e \in Entries
    BY DEF Entries, Blocks
  <2> QED
    BY <1>1, <2>1, OverfullAppend
<1>2. ASSUME NEW n \in DOMAIN t, t[n].from = b, t[n].to # GivenUp,
             Replaced(t, b, r) = Moved(t, n, r)
      PROVE  Overfull(Replaced(t, b, r))
  <2> DEFINE x == [t[n] EXCEPT !.to = r]
             m == [t EXCEPT ![n] = x]
             e == [from |-> t[n].to, to |-> GivenUp]
  <2>1. t[n] \in Entries /\ DOMAIN t = 1 .. Len(t)
    BY <1>2, LenProperties, ElementOfSeq
  <2>2. e \in Entries
    BY <1>2, <2>1, AreasApart DEF Entries, Blocks
  <2>3. x \in Entries
    BY <2>1 DEF Entries
  <2>4. Replaced(t, b, r) = Append(m, e)
    BY <1>2 DEF Moved, SentOn
  <2> HIDE DEF x, e
  <2>5. m \in Seq(Entries) /\ Len(m) = Len(t)
    BY <1>2, <2>1, <2>3, ExceptSeq
  <2> HIDE DEF m
  <2> QED
    BY <2>2, <2>4, <2>5, OverfullAppend
<1> QED
  BY <1>1, <1>2, ReplacedCases

\* A table extends itself, and goes on extending what it extended.
LEMMA ExtendsItself ==
  ASSUME NEW t
  PROVE  Extends(t, t)
  BY DEF Extends

\* ... when a replacement is given up ...
LEMMA ExtendsGivenUp ==
  ASSUME NEW t, NEW old, Sound(t), Extends(t, old), NEW r \in Free(t)
  PROVE  Extends(GivenUpToo(t, r), old)
<1> DEFINE u == GivenUpToo(t, r)
<1>1. /\ Retired(u) = Retired(t) \cup {r} /\ Used(u) = Used(t) \cup {r}
      /\ \A b \in Data : Search(u, b) = Search(t, b)
  BY GivenUpIs
<1> HIDE DEF u
<1>2. Extends(u, old)
  BY <1>1 DEF Extends
<1> QED
  BY <1>2 DEF u

\* ... and when a block is replaced.
LEMMA ExtendsReplaced ==
  ASSUME NEW t, NEW old, Sound(t), Extends(t, old), NEW b \in Data, NEW r \in Free(t)
  PROVE  Extends(Replaced(t, b, r), old)
<1> DEFINE u == Replaced(t, b, r)
<1>1. /\ Retired(u) = Retired(t) \cup {Search(t, b)} /\ Used(u) = Used(t) \cup {r}
      /\ Search(u, b) = r
      /\ \A c \in Data \ {b} : Search(u, c) = Search(t, c)
  BY ReplacedIs
<1> HIDE DEF u
<1>2. r \in Reserved /\ r \notin Used(old)
  BY FreeNotRetired DEF Extends
<1>3. Search(old, b) \in Retired(u)
  BY <1>1 DEF Extends
<1>4. Extends(u, old)
  BY <1>1, <1>2, <1>3 DEF Extends
<1> QED
  BY <1>4 DEF u

-----------------------------------------------------------------------------
(* The inductive invariant. *)

\* The blocks that table t leaves in a place marked bad are owed a relocation.
Owes(t) == \A b \in Data : Search(t, b) \in marked => b \in owed

(* Every table is sound or past its limit, the pages are used downwards, and   *)
(* until the area is used up a block is only erased for a sound table with a   *)
(* free block.                                                                 *)
Structure ==
  /\ \A p \in Tables(slot) : Sound(slot[p]) \/ Overfull(slot[p])
  /\ Sound(reloc) \/ Overfull(reloc)
  /\ table_init => \A p \in Tables(slot) : current_slot <= p
  /\ IF pc = "off" THEN ~table_init /\ since = {} ELSE table_init <=> Tables(slot) # {}
  /\ pc = "sync" => table_init
  /\ pc = "erase" =>
       table_init /\ block \in Data /\ (exhausted \/ (Sound(reloc) /\ Free(reloc) # {}))

(* While the reserved area lasts: all tables are sound, the one in RAM extends *)
(* the one the next boot finds, both owe what they leave in marked places, and *)
(* while a table can still be stored the blocks it would settle are in good    *)
(* ones.                                                                       *)
Clean ==
  /\ wiped = {}
  /\ \A p \in Tables(slot) : Sound(slot[p])
  /\ Sound(reloc)
  /\ Tables(slot) # {} => Owes(Stored(slot))
  /\ table_init =>
       /\ Extends(reloc, Stored(slot))
       /\ Owes(reloc)
       /\ current_slot > PXA_BEGIN_SLOT =>
            \A b \in since : (pc = "erase" /\ b = block) \/ Search(reloc, b) \notin marked

\* The inductive invariant.
Inv == TypeOK /\ Structure /\ (exhausted \/ Clean)

\* The empty table leaves every block where it is.
LEMMA EmptySound == Sound(<<>>) /\ Retired(<<>>) = {} /\ \A b \in Data : Search(<<>>, b) = b
<1>1. <<>> \in Seq(Entries) /\ DOMAIN <<>> = {}
  BY EmptySeq, LenProperties
<1> QED
  BY <1>1 DEF Sound, Retired, Search

\* The limit of update_reloc_tb tells the two kinds of table apart.
LEMMA TableType ==
  ASSUME NEW t, Sound(t) \/ Overfull(t)
  PROVE  AreTables(t) /\ (Overfull(t) => ~Sound(t) /\ TableFull(t)) /\ (Sound(t) => ~TableFull(t))
         /\ IsTable(t)
  BY SoundLen, RelocAssumption, PageEntriesAssumption, PageAssumption, LenProperties
     DEF Sound, Overfull, AreTables, TableFull, IsTable

\* In a table that is not sound a data block may be looked up as given up.
LEMMA PlaceType ==
  ASSUME NEW t, Sound(t) \/ Overfull(t), NEW b \in Data
  PROVE  Search(t, b) \in Blocks \cup {GivenUp}
<1>1. CASE Sound(t)
  BY <1>1, Place DEF Blocks
<1>2. CASE Overfull(t)
  <2>1. ASSUME NEW i \in DOMAIN t PROVE t[i].to \in Blocks \cup {GivenUp}
    <3>1. t[i] \in Entries
      BY <1>2, LenProperties DEF Overfull
    <3> QED
      BY <3>1, AreasApart DEF Entries, Blocks
  <2> QED
    BY <1>2, <2>1, SearchIs DEF Overfull, Blocks
<1> QED
  BY <1>1, <1>2

\* The scan upwards ends at the lowest page that holds a table.
LEMMA NewestIs ==
  ASSUME NEW s, Tables(s) # {}
  PROVE  /\ Newest(s) \in Tables(s) /\ \A p \in Tables(s) : Newest(s) <= p
         /\ Stored(s) = s[Newest(s)]
         /\ \A p \in Tables(s) : (\A q \in Tables(s) : p <= q) => Newest(s) = p
<1>1. Tables(s) \in SUBSET Nat
  BY SlotAssumption DEF Tables, Slots
<1>2. \E p \in Tables(s) : \A q \in Tables(s) : p <= q
  BY <1>1, HasLeast
<1>3. Newest(s) \in Tables(s) /\ \A q \in Tables(s) : Newest(s) <= q
  BY <1>2 DEF Newest
<1> QED
  BY <1>1, <1>3 DEF Stored

\* The write of a page below all tables.
LEMMA PageWritten ==
  ASSUME TypeOK, Structure, table_init, current_slot >= PXA_BEGIN_SLOT,
         NEW page \in {reloc, Torn}, NEW q, q = current_slot - 1,
         slot' = [slot EXCEPT ![q] = page]
  PROVE  /\ DOMAIN slot' = Slots
         /\ \A p \in Slots : IsTable(slot'[p]) => AreTables(slot'[p])
         /\ slot'[q] = page
         /\ Tables(slot') # {}
         /\ \A p \in Tables(slot') : q <= p /\ ((p \in Tables(slot) /\ slot'[p] = slot[p]) \/ slot'[p] = reloc)
         /\ Stored(slot') = IF page = reloc /\ q >= PXA_BEGIN_SLOT THEN reloc ELSE Stored(slot)
<1>1. q \in Slots /\ q + 1 = current_slot
  BY SlotAssumption DEF TypeOK, Slots, PXA_BEGIN_SLOT
<1>2. DOMAIN slot' = Slots /\ \A p \in Slots : slot'[p] = IF p = q THEN page ELSE slot[p]
  BY <1>1 DEF TypeOK
<1>3. IsTable(reloc) /\ ~IsTable(Torn) /\ Torn # reloc
  BY TableType DEF Structure, IsTable
<1>4. \A p \in Slots : IsTable(slot'[p]) => AreTables(slot'[p])
  BY <1>2, <1>3 DEF TypeOK
<1>5. Tables(slot) # {}
  BY DEF Structure
<1>6. \A p \in Tables(slot) : p \in Slots /\ q < p
  BY <1>1, SlotAssumption DEF Structure, Tables, Slots, TypeOK
<1>7. CASE page = reloc /\ q >= PXA_BEGIN_SLOT
  <2>1. Tables(slot') = Tables(slot) \cup {q}
    BY <1>1, <1>2, <1>3, <1>6, <1>7 DEF Tables
  <2>2. \A p \in Tables(slot') : q <= p
    BY <1>1, <1>6, <2>1 DEF Slots
  <2>3. Newest(slot') = q /\ Stored(slot') = slot'[Newest(slot')]
    BY <2>1, <2>2, NewestIs
  <2> QED
    BY <1>1, <1>2, <1>4, <1>6, <1>7, <2>1, <2>2, <2>3
<1>8. CASE ~(page = reloc /\ q >= PXA_BEGIN_SLOT)
  <2>1. Tables(slot') = Tables(slot)
    BY <1>1, <1>2, <1>3, <1>6, <1>8 DEF Tables
  <2>2. \A p \in Tables(slot) : slot'[p] = slot[p]
    BY <1>2, <1>6 
  <2>3. Newest(slot') = Newest(slot) /\ Newest(slot) \in Tables(slot)
    BY <1>5, <2>1, NewestIs DEF Newest
  <2>4. Stored(slot') = Stored(slot)
    BY <1>5, <2>1, <2>2, <2>3 DEF Stored
  <2>5. \A p \in Tables(slot) : q <= p
    BY <1>1, <1>6 DEF Slots
  <2> QED
    BY <1>1, <1>2, <1>4, <1>5, <1>8, <2>1, <2>2, <2>4, <2>5
<1> QED
  BY <1>7, <1>8

-----------------------------------------------------------------------------
(* Every step keeps it. *)

\* Boot.
LEMMA ScanKeeps == Inv /\ Scan => Inv'
<1> SUFFICES ASSUME Inv, Scan PROVE Inv'
  OBVIOUS
<1>1. /\ pc = "off" /\ pc' = "idle" /\ ~table_init /\ since = {}
      /\ UNCHANGED <<slot, marked, block, since, owed, wiped, exhausted>>
  BY DEF Scan, flash, Inv, Structure
<1>2. CASE Tables(slot) = {}
  <2>1. reloc' = <<>> /\ table_init' = FALSE /\ current_slot' = current_slot
    BY <1>2 DEF Scan
  <2>2. TypeOK'
    BY <1>1, <2>1, EmptySound, TableType DEF Inv, TypeOK
  <2>3. Structure'
    BY <1>1, <1>2, <2>1, EmptySound DEF Structure
  <2>4. exhausted' \/ Clean'
    BY <1>1, <1>2, <2>1, EmptySound DEF Inv, Clean
  <2> QED
    BY <2>2, <2>3, <2>4 DEF Inv
<1>3. CASE Tables(slot) # {}
  <2> DEFINE p == Newest(slot)
  <2>1. /\ p \in Tables(slot) /\ \A q \in Tables(slot) : p <= q
        /\ Stored(slot) = slot[p]
    BY <1>3, NewestIs
  <2>2. reloc' = Stored(slot) /\ table_init' = TRUE /\ current_slot' = p
    BY <1>3, <2>1 DEF Scan
  <2>3. Sound(Stored(slot)) \/ Overfull(Stored(slot))
    BY <2>1 DEF Inv, Structure
  <2> HIDE DEF p
  <2>4. p \in 0 .. MaxSlots - 1
    BY <2>1, SlotAssumption DEF Tables, Slots
  <2>5. TypeOK'
    BY <1>1, <2>2, <2>3, <2>4, TableType DEF Inv, TypeOK
  <2>6. Structure'
    BY <1>1, <1>3, <2>1, <2>2, <2>3 DEF Inv, Structure
  <2>7. ASSUME Clean PROVE Clean'
    <3>1. Sound(Stored(slot)) /\ Owes(Stored(slot))
      BY <1>3, <2>1, <2>7 DEF Clean
    <3>2. Extends(Stored(slot), Stored(slot))
      BY ExtendsItself
    <3> QED
      BY <1>1, <2>2, <2>7, <3>1, <3>2 DEF Clean, Owes
  <2> QED
    BY <1>1, <2>5, <2>6, <2>7 DEF Inv
<1> QED
  BY <1>2, <1>3

(* MarkBad. The place marked is in no other block's use, neither in the table  *)
(* in RAM nor in the one stored: what the former moved away from is given up.  *)
LEMMA MarkKeeps == ASSUME Inv, NEW b \in Data, MarkBad(b) PROVE Inv'
<1>1. /\ pc = "idle" /\ Where(b) # GivenUp /\ marked' = marked \cup {Where(b)}
      /\ UNCHANGED <<slot, reloc, table_init, current_slot, wiped>>
  BY DEF MarkBad, Markable, bbm
<1>2. Where(b) \in Blocks
  BY <1>1, PlaceType DEF Where, Inv, Structure, Blocks
<1>3. CASE table_init /\ ~TableFull(reloc)
  <2>1. /\ pc' = "erase" /\ block' = b
        /\ since' = since \cup {b}
        /\ owed' = owed \cup {b}
        /\ exhausted' = (exhausted \/ Free(reloc) = {})
    BY <1>3 DEF MarkBad
  <2>2. Sound(reloc) /\ Where(b) = Search(reloc, b)
    BY <1>3, TableType DEF Inv, Structure, Where
  <2>3. TypeOK'
    BY <1>1, <1>2, <2>1 DEF Inv, TypeOK
  <2>4. Structure'
    BY <1>1, <1>3, <2>1, <2>2 DEF Inv, Structure
  <2>5. ASSUME Clean PROVE Clean'
    <3>1. \A c \in Data \ {b} : Search(reloc, c) # Where(b)
      BY <2>2, PlaceOwn
    <3>2. Owes(reloc)'
      BY <1>1, <1>3, <2>1, <2>5, <3>1 DEF Owes, Clean
    <3>3. ASSUME Tables(slot) # {} PROVE Owes(Stored(slot))'
      <4>1. Owes(Stored(slot)) /\ Extends(reloc, Stored(slot))
        BY <1>3, <2>5, <3>3 DEF Clean
      <4>2. \A c \in Data \ {b} : Search(Stored(slot), c) # Where(b)
        BY <2>2, <3>1, <4>1, PlaceNotRetired DEF Extends
      <4> QED
        BY <1>1, <2>1, <4>1, <4>2 DEF Owes
    <3>4. ASSUME current_slot > PXA_BEGIN_SLOT, NEW c \in since', c # b
          PROVE  Search(reloc, c) \notin marked'
      <4>1. c \in Data /\ c \in since
        BY <2>1, <3>4 DEF Inv, TypeOK
      <4>2. Search(reloc, c) \notin marked
        BY <1>1, <1>3, <2>5, <3>4, <4>1 DEF Clean
      <4> QED
        BY <1>1, <3>1, <3>4, <4>1, <4>2
    <3> QED
      BY <1>1, <2>1, <2>5, <3>2, <3>3, <3>4 DEF Clean
  <2> QED
    BY <2>1, <2>3, <2>4, <2>5 DEF Inv
<1>4. CASE ~(table_init /\ ~TableFull(reloc))
  <2>1. UNCHANGED <<pc, block, since, owed, exhausted>>
    BY <1>4 DEF MarkBad
  <2>2. TypeOK'
    BY <1>1, <1>2, <2>1 DEF Inv, TypeOK
  <2>3. Structure'
    BY <1>1, <2>1 DEF Inv, Structure
  <2>4. ASSUME Clean PROVE Clean'
    <3>1. ~table_init
      BY <1>4, <2>4, TableType DEF Clean
    <3>2. Tables(slot) = {}
      BY <1>1, <3>1 DEF Inv, Structure
    <3> QED
      BY <1>1, <2>1, <2>4, <3>1, <3>2 DEF Clean
  <2> QED
    BY <2>1, <2>2, <2>3, <2>4 DEF Inv
<1> QED
  BY <1>3, <1>4

\* An erase while the reserved area lasts loses no one's block.
LEMMA NoVictims ==
  ASSUME Inv, pc = "erase", ~exhausted
  PROVE  LET r == RelocBlock(reloc)
         IN  r \in Free(reloc) /\ Physical(Search(reloc, r)) = r /\ Victims(r) = {}
<1> DEFINE r == RelocBlock(reloc)
<1>3. table_init /\ Sound(reloc) /\ Free(reloc) # {}
  BY DEF Inv, Structure
<1>1. r \in Free(reloc) /\ r \in Reserved /\ r \notin Used(reloc)
  BY <1>3, FreeIs
<1> HIDE DEF r
<1>2. Physical(Search(reloc, r)) = r
  BY <1>1, SearchReserved, AreasApart DEF Physical
<1>4. \A b \in Data : Physical(Search(reloc, b)) # r
  BY <1>1, <1>3, Place, AreasApart DEF Physical
<1>5. Victims(r) = {}
  BY <1>3, <1>4 DEF Victims, Where
<1> QED
  BY <1>1, <1>2, <1>5 DEF r

\* The block marked moves to one that is erased and bears no mark.
LEMMA EraseKeeps == Inv /\ Erase => Inv'
<1> SUFFICES ASSUME Inv, Erase PROVE Inv'
  OBVIOUS
<1> DEFINE r == RelocBlock(reloc)
           p == Physical(Search(reloc, r))
<1>1. /\ pc = "erase"
      /\ marked' = marked \ {p} /\ wiped' = wiped \cup Victims(p)
      /\ UNCHANGED <<slot, table_init, current_slot, block, since, owed, exhausted>>
      /\ IF Len(reloc) < PageEntries THEN reloc' = Replaced(reloc, block, r) /\ pc' = "sync"
         ELSE pc' = "overrun" /\ reloc' = reloc
  BY DEF Erase, Enter
<1>2. /\ table_init /\ block \in Data /\ (exhausted \/ (Sound(reloc) /\ Free(reloc) # {}))
      /\ Sound(reloc) \/ Overfull(reloc)
  BY <1>1 DEF Inv, Structure
<1>3. Sound(reloc') \/ Overfull(reloc')
  <2>1. CASE reloc' = reloc
    BY <1>2, <2>1
  <2>2. CASE Len(reloc) < PageEntries /\ Sound(reloc) /\ Free(reloc) # {}
    BY <1>1, <1>2, <2>2, FreeIs, ReplacedIs
  <2>3. CASE Len(reloc) < PageEntries /\ ~(Sound(reloc) /\ Free(reloc) # {})
    <3>1. reloc \in Seq(Entries) /\ Len(reloc) >= MaxRelocEntry
      BY <1>2, <2>3, SoundLen, LenProperties, RelocAssumption DEF Sound, Overfull
    <3> QED
      BY <1>1, <1>2, <2>3, <3>1, RelocBlockType, ReplacedOverfull
  <2> QED
    BY <1>1, <2>1, <2>2, <2>3
<1>4. TypeOK'
  <2>1. wiped' \subseteq Data
    BY <1>1 DEF Inv, TypeOK, Victims
  <2> HIDE DEF r, p
  <2> QED
    BY <1>1, <1>3, <2>1, TableType DEF Inv, TypeOK
<1>5. Structure'
  BY <1>1, <1>2, <1>3 DEF Inv, Structure
<1>6. ASSUME ~exhausted PROVE Clean'
  <2>1. Clean /\ Sound(reloc) /\ Len(reloc) < PageEntries
    BY <1>2, <1>6, SoundLen, RelocAssumption, PageEntriesAssumption DEF Inv
  <2>2. r \in Free(reloc) /\ p = r /\ Victims(p) = {}
    BY <1>1, <1>6, NoVictims
  <2> HIDE DEF r, p
  <2>3. /\ Sound(reloc') /\ Search(reloc', block) = r
        /\ \A c \in Data \ {block} : Search(reloc', c) = Search(reloc, c)
    BY <1>1, <1>2, <2>1, <2>2, ReplacedIs
  <2>4. Extends(reloc', Stored(slot))
    BY <1>1, <1>2, <2>1, <2>2, ExtendsReplaced DEF Clean
  <2>5. Owes(reloc)'
    BY <1>1, <1>2, <2>1, <2>2, <2>3 DEF Owes, Clean
  <2>6. Tables(slot) # {} => Owes(Stored(slot))'
    BY <1>1, <2>1 DEF Owes, Clean
  <2>7. ASSUME current_slot > PXA_BEGIN_SLOT, NEW c \in since
        PROVE  Search(reloc', c) \notin marked'
    <3>1. c \in Data
      BY DEF Inv, TypeOK
    <3>2. CASE c = block
      BY <1>1, <2>2, <2>3, <3>2
    <3>3. CASE c # block
      BY <1>1, <1>2, <2>1, <2>3, <2>7, <3>1, <3>3 DEF Clean
    <3> QED
      BY <3>2, <3>3
  <2> QED
    BY <1>1, <2>1, <2>2, <2>3, <2>4, <2>5, <2>6, <2>7 DEF Clean
<1> QED
  BY <1>1, <1>4, <1>5, <1>6 DEF Inv

\* A free block becomes one given up, or there was none and the table grows.
LEMMA EraseFailsKeeps == Inv /\ EraseFails => Inv'
<1> SUFFICES ASSUME Inv, EraseFails PROVE Inv'
  OBVIOUS
<1> DEFINE r == RelocBlock(reloc)
<1>1. /\ pc = "erase"
      /\ UNCHANGED <<slot, marked, table_init, current_slot, block, since, owed, wiped>>
      /\ exhausted' = (exhausted \/ Free(reloc') = {})
      /\ IF Len(reloc) < PageEntries THEN reloc' = GivenUpToo(reloc, r) /\ pc' = "erase"
         ELSE pc' = "overrun" /\ reloc' = reloc
  BY DEF EraseFails, Enter, flash
<1>2. /\ table_init /\ block \in Data /\ (exhausted \/ (Sound(reloc) /\ Free(reloc) # {}))
      /\ Sound(reloc) \/ Overfull(reloc)
  BY <1>1 DEF Inv, Structure
<1>3. CASE Sound(reloc) /\ Free(reloc) # {}
  <2>1. r \in Free(reloc)
    BY <1>3, FreeIs
  <2> HIDE DEF r
  <2>2. reloc' = GivenUpToo(reloc, r) /\ pc' = pc
    BY <1>1, <1>3, SoundLen, RelocAssumption, PageEntriesAssumption
  <2>3. Sound(reloc') /\ \A b \in Data : Search(reloc', b) = Search(reloc, b)
    BY <1>3, <2>1, <2>2, GivenUpIs
  <2>4. TypeOK'
    BY <1>1, <2>2, <2>3, TableType DEF Inv, TypeOK
  <2>5. Structure'
    BY <1>1, <1>2, <2>2, <2>3 DEF Inv, Structure
  <2>6. ASSUME Clean PROVE Clean'
    <3>1. Extends(reloc', Stored(slot))
      BY <1>2, <1>3, <2>1, <2>2, <2>6, ExtendsGivenUp DEF Clean
    <3>2. Owes(reloc)'
      BY <1>1, <1>2, <2>3, <2>6 DEF Owes, Clean
    <3>3. Tables(slot) # {} => Owes(Stored(slot))'
      BY <1>1, <2>6 DEF Owes, Clean
    <3>4. \A c \in since : Search(reloc', c) = Search(reloc, c)
      BY <2>3 DEF Inv, TypeOK
    <3> QED
      BY <1>1, <2>2, <2>3, <2>6, <3>1, <3>2, <3>3, <3>4 DEF Clean
  <2> QED
    BY <1>1, <2>4, <2>5, <2>6 DEF Inv
<1>4. CASE ~(Sound(reloc) /\ Free(reloc) # {})
  <2>1. exhausted /\ exhausted'
    BY <1>1, <1>2, <1>4
  <2>2. reloc \in Seq(Entries) /\ Len(reloc) >= MaxRelocEntry
    BY <1>2, <1>4, SoundLen, LenProperties, RelocAssumption DEF Sound, Overfull
  <2>3. Sound(reloc') \/ Overfull(reloc')
    BY <1>1, <1>2, <2>2, RelocBlockType, GivenUpOverfull
  <2> HIDE DEF r
  <2>4. TypeOK'
    BY <1>1, <2>1, <2>3, TableType DEF Inv, TypeOK
  <2>5. Structure'
    BY <1>1, <1>2, <2>1, <2>3 DEF Inv, Structure
  <2> QED
    BY <2>1, <2>4, <2>5 DEF Inv
<1> QED
  BY <1>3, <1>4

(* EraseRefused. A sound table with a free block is not full: block_bad looks  *)
(* at the mark only because no page is left, and no table is stored any more.  *)
LEMMA EraseRefusedKeeps == Inv /\ EraseRefused => Inv'
<1> SUFFICES ASSUME Inv, EraseRefused PROVE Inv'
  OBVIOUS
<1>1. /\ pc = "erase" /\ BlockBad(RelocBlock(reloc)) /\ pc' = "idle" /\ block' = 0
      /\ UNCHANGED <<slot, marked, reloc, table_init, current_slot, since, owed, wiped, exhausted>>
  BY DEF EraseRefused, flash, bbm
<1>2. table_init /\ (exhausted \/ (Sound(reloc) /\ Free(reloc) # {}))
  BY <1>1 DEF Inv, Structure
<1>3. TypeOK'
  BY <1>1 DEF Inv, TypeOK
<1>4. Structure'
  BY <1>1, <1>2 DEF Inv, Structure
<1>5. ASSUME ~exhausted PROVE Clean'
  <2>1. Clean /\ Sound(reloc) /\ Free(reloc) # {}
    BY <1>2, <1>5 DEF Inv
  <2>2. Len(reloc) \in Nat /\ Len(reloc) < MaxRelocEntry
    BY <2>1, SoundLen, RelocAssumption
  <2>3. current_slot <= PXA_BEGIN_SLOT
    BY <1>1, <1>2, <2>2, RelocAssumption DEF BlockBad
  <2>4. ~(current_slot > PXA_BEGIN_SLOT)
    BY <2>3, SlotAssumption DEF Inv, TypeOK, PXA_BEGIN_SLOT
  <2> QED
    BY <1>1, <2>1, <2>4 DEF Clean, Owes
<1> QED
  BY <1>1, <1>3, <1>4, <1>5 DEF Inv

\* A table stored settles the blocks marked since the last one.
LEMMA SyncKeeps == Inv /\ Sync => Inv'
<1> SUFFICES ASSUME Inv, Sync PROVE Inv'
  OBVIOUS
<1> DEFINE q == current_slot - 1
<1>1. PICK page \in {reloc, Torn} :
        /\ pc = "sync" /\ pc' = "idle" /\ block' = 0 /\ current_slot >= PXA_BEGIN_SLOT
        /\ current_slot' = q /\ slot' = [slot EXCEPT ![q] = page]
        /\ UNCHANGED <<marked, reloc, table_init, wiped, exhausted>>
  BY DEF Sync, Programmed
<1>2. /\ table_init /\ TypeOK /\ Structure
      /\ q \in 0 .. MaxSlots - 1 /\ (q >= PXA_BEGIN_SLOT => current_slot > PXA_BEGIN_SLOT)
      /\ (q > PXA_BEGIN_SLOT => current_slot > PXA_BEGIN_SLOT)
  BY <1>1, SlotAssumption DEF Inv, Structure, TypeOK, PXA_BEGIN_SLOT
<1>3. /\ DOMAIN slot' = Slots
      /\ \A p \in Slots : IsTable(slot'[p]) => AreTables(slot'[p])
      /\ slot'[q] = page
      /\ Tables(slot') # {}
      /\ \A p \in Tables(slot') :
            q <= p /\ ((p \in Tables(slot) /\ slot'[p] = slot[p]) \/ slot'[p] = reloc)
      /\ Stored(slot') = IF page = reloc /\ q >= PXA_BEGIN_SLOT THEN reloc ELSE Stored(slot)
  BY <1>1, <1>2, PageWritten
<1>4. IF page = reloc /\ q >= PXA_BEGIN_SLOT
        THEN owed' = owed \ since /\ since' = {}
        ELSE UNCHANGED <<owed, since>>
  BY <1>1, <1>3 DEF Sync
<1> HIDE DEF q
<1>5. TypeOK'
  BY <1>1, <1>2, <1>3, <1>4 DEF TypeOK
<1>6. Structure'
  BY <1>1, <1>2, <1>3 DEF Structure
<1>7. ASSUME Clean PROVE Clean'
  <2>1. \A p \in Tables(slot') : Sound(slot'[p])
    BY <1>3, <1>7 DEF Clean
  <2>2. Tables(slot) # {} /\ Owes(Stored(slot)) /\ Owes(reloc) /\ Extends(reloc, Stored(slot))
    BY <1>1, <1>2, <1>7 DEF Clean, Structure
  <2>3. CASE page = reloc /\ q >= PXA_BEGIN_SLOT
    <3>1. \A b \in since : Search(reloc, b) \notin marked
      BY <1>1, <1>2, <1>7, <2>3 DEF Clean
    <3>2. Owes(reloc)' /\ Stored(slot') = reloc' /\ since' = {}
      BY <1>1, <1>3, <1>4, <2>2, <2>3, <3>1 DEF Owes
    <3> QED
      BY <1>1, <1>7, <2>1, <3>2, ExtendsItself DEF Clean, Owes
  <2>4. CASE ~(page = reloc /\ q >= PXA_BEGIN_SLOT)
    BY <1>1, <1>2, <1>3, <1>4, <1>7, <2>1, <2>2, <2>4 DEF Clean, Owes
  <2> QED
    BY <2>3, <2>4
<1> QED
  BY <1>1, <1>5, <1>6, <1>7 DEF Inv

\* A failed write leaves the stored table what it was, ...
LEMMA SyncFailsKeeps == Inv /\ SyncFails => Inv'
<1> SUFFICES ASSUME Inv, SyncFails PROVE Inv'
  OBVIOUS
<1> DEFINE q == current_slot - 1
<1>1. /\ pc = "sync" /\ pc' = "idle" /\ block' = 0 /\ current_slot >= PXA_BEGIN_SLOT
      /\ current_slot' = q /\ slot' \in {slot, [slot EXCEPT ![q] = Torn]}
      /\ UNCHANGED <<marked, reloc, table_init, since, owed, wiped, exhausted>>
  BY DEF SyncFails
<1>2. /\ table_init /\ TypeOK /\ Structure
      /\ q \in 0 .. MaxSlots - 1 /\ q <= current_slot
      /\ (q > PXA_BEGIN_SLOT => current_slot > PXA_BEGIN_SLOT)
  BY <1>1, SlotAssumption DEF Inv, Structure, TypeOK, PXA_BEGIN_SLOT
<1>3. Torn # reloc
  BY TableType, <1>2 DEF Structure, IsTable
<1>4. /\ DOMAIN slot' = Slots
      /\ \A p \in Slots : IsTable(slot'[p]) => AreTables(slot'[p])
      /\ Tables(slot') # {}
      /\ \A p \in Tables(slot') :
            q <= p /\ ((p \in Tables(slot) /\ slot'[p] = slot[p]) \/ slot'[p] = reloc)
      /\ Stored(slot') = Stored(slot)
  <2>1. CASE slot' = slot
    <3>1. \A p \in Tables(slot) : current_slot <= p /\ p \in Slots
      BY <1>2 DEF Structure, Tables
    <3>2. \A p \in Tables(slot) : q <= p
      BY <3>1, <1>2, SlotAssumption DEF Slots, TypeOK
    <3> QED
      BY <1>2, <2>1, <3>2 DEF Structure, TypeOK
  <2>2. CASE slot' = [slot EXCEPT ![q] = Torn]
    BY <1>1, <1>2, <1>3, <2>2, PageWritten
  <2> QED
    BY <1>1, <2>1, <2>2
<1> HIDE DEF q
<1>5. TypeOK'
  BY <1>1, <1>2, <1>4 DEF TypeOK
<1>6. Structure'
  BY <1>1, <1>2, <1>4 DEF Structure
<1>7. ASSUME Clean PROVE Clean'
  <2>1. \A p \in Tables(slot') : Sound(slot'[p])
    BY <1>4, <1>7 DEF Clean
  <2>2. Tables(slot) # {}
    BY <1>1, <1>2 DEF Structure
  <2> QED
    BY <1>1, <1>2, <1>4, <1>7, <2>1, <2>2 DEF Clean, Owes
<1> QED
  BY <1>1, <1>5, <1>6, <1>7 DEF Inv

\* ... and so does none.
LEMMA SyncNoRoomKeeps == Inv /\ SyncNoRoom => Inv'
<1> SUFFICES ASSUME Inv, SyncNoRoom PROVE Inv'
  OBVIOUS
<1>1. /\ pc = "sync" /\ pc' = "idle" /\ block' = 0
      /\ UNCHANGED <<slot, marked, reloc, table_init, current_slot, since, owed, wiped, exhausted>>
  BY DEF SyncNoRoom, flash, bbm
<1>2. TypeOK' /\ Structure'
  BY <1>1 DEF Inv, TypeOK, Structure
<1>3. ASSUME Clean PROVE Clean'
  BY <1>1, <1>3 DEF Clean, Owes
<1> QED
  BY <1>1, <1>2, <1>3 DEF Inv

\* What a power failure finds and leaves on the flash.
LEMMA InterruptedIs ==
  ASSUME Inv, Interrupted, pc # "off"
  PROVE  /\ DOMAIN slot' = Slots /\ marked' = marked
         /\ \A p \in Slots : IsTable(slot'[p]) => AreTables(slot'[p])
         /\ Tables(slot') = {} <=> Tables(slot) = {}
         /\ \A p \in Tables(slot') :
              (p \in Tables(slot) /\ slot'[p] = slot[p]) \/ slot'[p] = reloc
         /\ Stored(slot') = Stored(slot) \/ (table_init /\ Stored(slot') = reloc)
         /\ wiped' \subseteq Data /\ (exhausted \/ wiped' = {})
<1>1. CASE UNCHANGED <<flash, wiped>>
  BY <1>1 DEF Inv, TypeOK, Clean, flash
<1>2. CASE pc = "erase" /\ ~BlockBad(RelocBlock(reloc))
           /\ wiped' = wiped \cup Victims(Physical(Search(reloc, RelocBlock(reloc))))
           /\ UNCHANGED flash
  <2>1. wiped' \subseteq Data
    BY <1>2 DEF Inv, TypeOK, Victims
  <2>2. exhausted \/ wiped' = {}
    BY <1>2, NoVictims DEF Inv, Structure, Clean
  <2> QED
    BY <1>2, <2>1, <2>2 DEF Inv, TypeOK, flash
<1>3. CASE /\ pc = "sync" /\ current_slot >= PXA_BEGIN_SLOT
           /\ \E page \in {reloc, Torn} : slot' = [slot EXCEPT ![current_slot - 1] = page]
           /\ UNCHANGED <<marked, wiped>>
  <2> DEFINE q == current_slot - 1
  <2>1. PICK page \in {reloc, Torn} : slot' = [slot EXCEPT ![q] = page]
    BY <1>3
  <2>2. TypeOK /\ Structure /\ table_init /\ Tables(slot) # {}
    BY <1>3 DEF Inv, Structure
  <2>3. /\ DOMAIN slot' = Slots
        /\ \A p \in Slots : IsTable(slot'[p]) => AreTables(slot'[p])
        /\ Tables(slot') # {}
        /\ \A p \in Tables(slot') :
              q <= p /\ ((p \in Tables(slot) /\ slot'[p] = slot[p]) \/ slot'[p] = reloc)
        /\ Stored(slot') = IF page = reloc /\ q >= PXA_BEGIN_SLOT THEN reloc ELSE Stored(slot)
    BY <1>3, <2>1, <2>2, PageWritten
  <2> HIDE DEF q
  <2> QED
    BY <1>3, <2>2, <2>3 DEF Inv, TypeOK, Clean
<1> QED
  BY <1>1, <1>2, <1>3 DEF Interrupted

\* A power failure loses the table in RAM.
LEMMA PowerFailKeeps == Inv /\ PowerFail => Inv'
<1> SUFFICES ASSUME Inv, PowerFail PROVE Inv'
  OBVIOUS
<1>1. /\ pc # "off" /\ Interrupted
      /\ pc' = "off" /\ block' = 0 /\ reloc' = <<>> /\ table_init' = FALSE /\ current_slot' = 0
      /\ since' = {}
      /\ UNCHANGED <<owed, exhausted>>
  BY DEF PowerFail
<1>2. /\ DOMAIN slot' = Slots /\ marked' = marked
      /\ \A p \in Slots : IsTable(slot'[p]) => AreTables(slot'[p])
      /\ Tables(slot') = {} <=> Tables(slot) = {}
      /\ \A p \in Tables(slot') :
           (p \in Tables(slot) /\ slot'[p] = slot[p]) \/ slot'[p] = reloc
      /\ Stored(slot') = Stored(slot) \/ (table_init /\ Stored(slot') = reloc)
      /\ wiped' \subseteq Data /\ (exhausted \/ wiped' = {})
  BY <1>1, InterruptedIs
<1>3. TypeOK'
  <2>1. AreTables(reloc') /\ current_slot' \in 0 .. MaxSlots - 1
    BY <1>1, EmptySound, TableType, SlotAssumption DEF PXA_BEGIN_SLOT
  <2>2. exhausted \in BOOLEAN /\ marked \subseteq Blocks /\ owed \subseteq Data
    BY DEF Inv, TypeOK
  <2> QED
    BY <1>1, <1>2, <2>1, <2>2 DEF TypeOK
<1>4. Structure'
  BY <1>1, <1>2, EmptySound DEF Inv, Structure
<1>5. ASSUME ~exhausted PROVE Clean'
  <2>1. Clean
    BY <1>5 DEF Inv
  <2>2. \A p \in Tables(slot') : Sound(slot'[p])
    BY <1>2, <2>1 DEF Clean
  <2>3. Tables(slot') # {} => Owes(Stored(slot'))
    BY <1>2, <2>1 DEF Clean
  <2> QED
    BY <1>1, <1>2, <1>5, <2>1, <2>2, <2>3, EmptySound DEF Clean, Owes
<1> QED
  BY <1>1, <1>3, <1>4, <1>5 DEF Inv

\* The flash as prepared, with an empty table or none.
LEMMA InitInv == Init => Inv
<1> SUFFICES ASSUME Init PROVE Inv
  OBVIOUS
<1>1. PICK last \in {<<>>, Erased} :
        slot = [p \in Slots |-> IF p < PXA_BEGIN_SLOT THEN Torn
                                ELSE IF p = MaxSlots - 1 THEN last ELSE Erased]
  BY DEF Init
<1>2. \A p \in Tables(slot) : slot[p] = <<>>
  BY <1>1 DEF Tables, IsTable
<1>3. \A p \in Slots : IsTable(slot[p]) => slot[p] = <<>>
  BY <1>1 DEF IsTable
<1>4. TypeOK
  <2>1. AreTables(<<>>)
    BY EmptySound, TableType
  <2>2. 0 \in 0 .. MaxSlots - 1
    BY SlotAssumption DEF PXA_BEGIN_SLOT
  <2>3. DOMAIN slot = Slots
    BY <1>1
  <2> QED
    BY <1>3, <2>1, <2>2, <2>3 DEF Init, TypeOK
<1>5. Structure
  BY <1>2, EmptySound DEF Init, Structure
<1>6. Clean
  BY <1>2, EmptySound DEF Init, Clean, Owes
<1> QED
  BY <1>4, <1>5, <1>6 DEF Inv

\* Nothing else changes the invariant.
LEMMA StutterKeeps == Inv /\ UNCHANGED vars => Inv'
<1> SUFFICES ASSUME Inv, UNCHANGED vars PROVE Inv'
  OBVIOUS
<1>1. UNCHANGED <<slot, marked, reloc, table_init, current_slot, pc, block, since, owed, wiped,
                  exhausted>>
  BY DEF vars, flash, bbm
<1>2. TypeOK' /\ Structure' /\ (Clean => Clean')
  BY <1>1 DEF Inv, TypeOK, Structure, Clean, Owes
<1> QED
  BY <1>1, <1>2 DEF Inv

\* Every step keeps the invariant.
LEMMA Inductive == Inv /\ [Next]_vars => Inv'
  BY ScanKeeps, MarkKeeps, EraseKeeps, EraseFailsKeeps, EraseRefusedKeeps, SyncKeeps,
     SyncFailsKeeps, SyncNoRoomKeeps, PowerFailKeeps, StutterKeeps DEF Next

-----------------------------------------------------------------------------
(* The theorems. *)

\* The state of the relocation code is always as the invariant says.
THEOREM Invariance == Spec => []Inv
  BY InitInv, Inductive, PTL DEF Spec

(* No bad mark is written outside the flash, and no table in RAM or on the     *)
(* flash outgrows its page -- but for the step to "overrun", which writes past *)
(* the table's buffer --, however often the erase of the last choice fails.    *)
THEOREM TypeCorrect == Spec => []TypeOK
<1>1. Inv => TypeOK
  BY DEF Inv
<1> QED
  BY <1>1, Invariance, PTL

(* Until the reserved area is used up, update_reloc_tb never erases a block    *)
(* that holds the data of another.                                             *)
THEOREM OthersAreKept == Spec => []OthersKept
<1>1. Inv => OthersKept
  BY DEF Inv, Clean, OthersKept, NothingWiped
<1> QED
  BY <1>1, Invariance, PTL

(* Until then no table outgrows its limit, though update_reloc_tb checks the   *)
(* limit only before the loop that adds an entry for every failed erase.       *)
THEOREM LimitIsKept == Spec => []LimitKept
<1>1. Inv => LimitKept
  BY SoundLen DEF Inv, Clean, LimitKept
<1> QED
  BY <1>1, Invariance, PTL

(* Until then, a data block that block_bad lets its users have lies in a place *)
(* marked bad only if its relocation was cut short or not stored.              *)
THEOREM UsableBlocks == Spec => []UsableIsGood
<1>1. Inv => UsableIsGood
  <2> SUFFICES ASSUME Inv, pc = "idle", ~exhausted,
                      NEW b \in Data, ~BlockBad(b), Where(b) \in marked
               PROVE  b \in owed
    BY DEF UsableIsGood
  <2>1. Clean
    BY DEF Inv
  <2>2. CASE table_init
    BY <2>1, <2>2 DEF Clean, Owes, Where
  <2>3. CASE ~table_init
    BY <2>3 DEF BlockBad, Where
  <2> QED
    BY <2>2, <2>3
<1> QED
  BY <1>1, Invariance, PTL

(* Refinement. *)

\* A step finds the next boot the same table, or one that extends it.
LEMMA StoredStep ==
  ASSUME Inv, [Next]_vars, ~exhausted'
  PROVE  /\ ~exhausted
         /\ \/ Stored(slot') = Stored(slot)
            \/ Stored(slot') = reloc /\ Sound(reloc) /\ Extends(reloc, Stored(slot))
<1>1. CASE Scan \/ Erase \/ EraseFails \/ EraseRefused \/ SyncNoRoom
           \/ (\E b \in Data : MarkBad(b)) \/ UNCHANGED vars
  <2>1. slot' = slot /\ (exhausted => exhausted')
    <3>1. CASE Scan \/ Erase \/ EraseRefused \/ SyncNoRoom \/ UNCHANGED vars
      BY <3>1 DEF Scan, Erase, EraseRefused, SyncNoRoom, vars, flash
    <3>2. CASE EraseFails
      BY <3>2 DEF EraseFails, flash
    <3>3. ASSUME NEW b \in Data, MarkBad(b) PROVE slot' = slot /\ (exhausted => exhausted')
      BY <3>3 DEF MarkBad
    <3> QED
      BY <1>1, <3>1, <3>2, <3>3
  <2> QED
    BY <2>1
<1>2. ASSUME ~exhausted, Stored(slot') = Stored(slot) \/ (table_init /\ Stored(slot') = reloc)
      PROVE  \/ Stored(slot') = Stored(slot)
             \/ Stored(slot') = reloc /\ Sound(reloc) /\ Extends(reloc, Stored(slot))
  BY <1>2 DEF Inv, Clean
<1>3. CASE Sync \/ SyncFails
  <2> DEFINE q == current_slot - 1
  <2>1. /\ pc = "sync" /\ current_slot >= PXA_BEGIN_SLOT /\ exhausted' = exhausted
        /\ \/ slot' = slot
           \/ \E page \in {reloc, Torn} : slot' = [slot EXCEPT ![q] = page]
    BY <1>3 DEF Sync, SyncFails, Programmed
  <2>2. table_init /\ TypeOK /\ Structure
    BY <2>1 DEF Inv, Structure
  <2>3. Stored(slot') = Stored(slot) \/ Stored(slot') = reloc
    BY <2>1, <2>2, PageWritten
  <2> QED
    BY <1>2, <2>1, <2>2, <2>3
<1>4. CASE PowerFail
  BY <1>2, <1>4, InterruptedIs DEF PowerFail
<1> QED
  BY <1>1, <1>3, <1>4 DEF Next

\* While the area lasts the next boot finds a sound table.
LEMMA StoredSound ==
  ASSUME Inv, ~exhausted
  PROVE  Sound(Stored(slot))
  BY NewestIs, EmptySound DEF Inv, Clean, Stored

\* What the store's variables are, read off a table.
MapOf(t) == [b \in Data |-> Search(t, b)]

\* A table that extends another relocates blocks as the store may.
LEMMA RelocateStep ==
  ASSUME NEW old, NEW t, Sound(old), Sound(t), Extends(t, old)
  PROVE  /\ MapOf(t) \in [Data -> Data \cup Reserved]
         /\ Retired(old) \subseteq Retired(t)
         /\ Retired(t) \cap {MapOf(t)[b] : b \in Data} = {}
         /\ \A b \in Data : MapOf(t)[b] # MapOf(old)[b] =>
              /\ MapOf(old)[b] \in Retired(t)
              /\ MapOf(t)[b] \in Reserved \ (Retired(old) \cup {MapOf(old)[c] : c \in Data})
         /\ \A b, c \in Data : b # c => MapOf(t)[b] # MapOf(t)[c]
<1>1. \A b \in Data : MapOf(t)[b] = Search(t, b) /\ MapOf(old)[b] = Search(old, b)
  BY DEF MapOf
<1>2. MapOf(t) \in [Data -> Data \cup Reserved]
  BY Place DEF MapOf
<1>3. Retired(t) \cap {MapOf(t)[b] : b \in Data} = {}
  BY <1>1, PlaceNotRetired
<1>4. ASSUME NEW r \in Reserved \ Used(old)
      PROVE  r \notin Retired(old) /\ \A c \in Data : Search(old, c) # r
  <2>1. r \in Free(old)
    BY DEF Free
  <2>2. r \notin Retired(old)
    BY <2>1, FreeNotRetired
  <2> QED
    BY <2>2, Place, AreasApart
<1>5. ASSUME NEW b \in Data, MapOf(t)[b] # MapOf(old)[b]
      PROVE  /\ MapOf(old)[b] \in Retired(t)
             /\ MapOf(t)[b] \in Reserved \ (Retired(old) \cup {MapOf(old)[c] : c \in Data})
  <2>1. Search(old, b) \in Retired(t) /\ Search(t, b) \in Reserved \ Used(old)
    BY <1>1, <1>5 DEF Extends
  <2> QED
    BY <1>1, <1>4, <2>1
<1>6. \A b, c \in Data : b # c => MapOf(t)[b] # MapOf(t)[c]
  BY <1>1, PlaceOwn
<1> QED
  BY <1>2, <1>3, <1>5, <1>6 DEF Extends

(* The table that the next boot finds implements the store: power failures and *)
(* failed writes are stutters, a table stored is a relocation.                 *)
THEOREM Refinement == Spec => ImplementsRelocStore
<1>1. Init => Store!Init
  <2> SUFFICES ASSUME Init PROVE Store!Init
    OBVIOUS
  <2>1. PICK last \in {<<>>, Erased} :
          slot = [p \in Slots |-> IF p < PXA_BEGIN_SLOT THEN Torn
                                  ELSE IF p = MaxSlots - 1 THEN last ELSE Erased]
    BY DEF Init
  <2>2. \A p \in Tables(slot) : slot[p] = <<>>
    BY <2>1 DEF Tables, IsTable
  <2>3. Stored(slot) = <<>>
    BY <2>2, NewestIs DEF Stored
  <2>4. \A b \in Data : Search(Stored(slot), b) = b
    BY <2>3, EmptySound
  <2>5. {Stored(slot)[i].from : i \in DOMAIN Stored(slot)} = {}
    BY <2>3, EmptySound DEF Retired
  <2> QED
    BY <2>4, <2>5 DEF Init, Store!Init
<1>2. Inv /\ Inv' /\ [Next]_vars => [Store!Next]_(Store!vars)
  <2> SUFFICES ASSUME Inv, Inv', [Next]_vars PROVE [Store!Next]_(Store!vars)
    OBVIOUS
  <2>1. CASE exhausted'
    BY <2>1 DEF Store!Next
  <2>2. CASE ~exhausted'
    <3>1. /\ ~exhausted
          /\ \/ Stored(slot') = Stored(slot)
             \/ Stored(slot') = reloc /\ Sound(reloc) /\ Extends(reloc, Stored(slot))
      BY <2>2, StoredStep
    <3>2. CASE Stored(slot') = Stored(slot)
      <4>1. exhausted' = exhausted
        BY <2>2, <3>1 DEF Inv, TypeOK
      <4> QED
        BY <3>2, <4>1 DEF Store!vars
    <3>3. CASE Stored(slot') = reloc /\ Sound(reloc) /\ Extends(reloc, Stored(slot))
      <4>1. Sound(Stored(slot))
        BY <3>1, StoredSound
      <4>2. PICK old, t : old = Stored(slot) /\ t = Stored(slot')
        OBVIOUS
      <4>3. Sound(old) /\ Sound(t) /\ Extends(t, old)
        BY <3>3, <4>1, <4>2
      <4>4. Store!Relocate
        BY <4>2, <4>3, RelocateStep DEF Store!Relocate, Store!InUse, MapOf, Retired
      <4> QED
        BY <2>2, <3>1, <4>4 DEF Store!Next
    <3> QED
      BY <3>1, <3>2, <3>3
  <2> QED
    BY <2>1, <2>2
<1> QED
  BY <1>1, <1>2, Invariance, PTL DEF Spec, ImplementsRelocStore, Store!Spec
=============================================================================
