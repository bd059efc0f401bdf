---------------------------------- MODULE Bbm ----------------------------------
(* The bad block relocation table of the PXA168, drivers/mtd/pxa3xx_bbm.c, and *)
(* the two places in which drivers/mtd/nand/pxa3xx_nand.c consults it.         *)
(*                                                                             *)
(* Blocks RelocBegin and up are reserved for replacements. A table of entries  *)
(* {from, to} in RAM says where a data block went; each change of it is        *)
(* written to the next page of block 0, from the last page downwards, and the  *)
(* next boot takes the lowest page that holds a table.                         *)
(*                                                                             *)
(* One flash operation is one step, and the power may fail in any of them.     *)
(* Whether erasing a block or writing a page works is the hardware's choice.   *)
EXTENDS Naturals, Sequences

CONSTANTS
  RelocBegin,     \* first block of the reserved area
  MaxRelocEntry,  \* bbm->max_reloc_entry: blocks in the reserved area
  MaxSlots,       \* bbm->max_slots: pages in block 0
  PageEntries,    \* entries that fit the page a table is written to
  Erased, Torn    \* a page without a table: blank, or unreadable

PXA_BEGIN_SLOT == 2
GivenUp == 65535

ASSUME RelocAssumption == RelocBegin \in Nat /\ RelocBegin > 1 /\ MaxRelocEntry \in Nat \ {0}
                          /\ RelocBegin + MaxRelocEntry < GivenUp
\* At most 100 blocks are reserved; a page of 2048 bytes takes 511 entries, one of
\* 512 bytes takes 127.
ASSUME PageEntriesAssumption == PageEntries \in Nat /\ PageEntries > MaxRelocEntry + 1
ASSUME SlotAssumption == MaxSlots \in Nat /\ MaxSlots > PXA_BEGIN_SLOT

\* Block 0 holds the tables. Data blocks are numbered as their users see them.
Data == 1 .. RelocBegin - 1
Reserved == RelocBegin .. RelocBegin + MaxRelocEntry - 1
Blocks == Data \cup Reserved
Slots == 1 .. MaxSlots - 1

Entries == [from : Blocks, to : Reserved \cup {RelocBegin - 1, GivenUp}]

\* A page that holds a table is told from one that does not, by its header.
ASSUME PageAssumption == Erased \notin Seq(Entries) /\ Torn \notin Seq(Entries)

VARIABLES
  slot,          \* the pages of block 0; page 1 is the last page of the boot image
  marked,        \* the physical blocks with the bad mark in their spare bytes
  reloc,         \* the entries of the table in RAM; bbm->table->total is their number
  table_init,
  current_slot,
  pc,            \* "off", "idle", the next flash operation of markbad, or "overrun"
  block,         \* the block being marked, 0 if none
  since,         \* history: the blocks marked since the boot or the last table stored
  owed,          \* history: blocks whose relocation did not reach a table
  wiped,         \* history: blocks erased although they were not the one being marked
  exhausted      \* history: a relocation was tried with no reserved block left

flash == <<slot, marked>>
bbm == <<reloc, table_init, current_slot>>
vars == <<flash, bbm, pc, block, since, owed, wiped, exhausted>>

-----------------------------------------------------------------------------
(* The table. *)

\* pxa3xx_search_reloc_tb: where table t puts block b.
Search(t, b) ==
  LET hits == {i \in DOMAIN t : t[i].from = b}
  IN  IF b >= RelocBegin \/ hits = {} THEN b
      ELSE t[CHOOSE i \in hits : \A j \in hits : j <= i].to

(* The block that the flash finds under number p: it has no such block as       *)
(* 65535, and ignores the bits of the address beyond its last one.             *)
Physical(p) == IF p = GivenUp THEN RelocBegin + MaxRelocEntry - 1 ELSE p

\* Where data block b is looked up: a table not recognised is not searched.
Where(b) == IF table_init THEN Search(reloc, b) ELSE b

\* Slip: blocks given up are not counted as used.
Used_Live(t) == {t[i].to : i \in DOMAIN t}

\* Slip: the two cases of an entry are swapped.
Used_Swapped(t) == {IF t[i].to = GivenUp THEN t[i].to ELSE t[i].from : i \in DOMAIN t}

\* The reserved blocks in use or given up, rel_dist.
Used(t) == {IF t[i].to # GivenUp THEN t[i].to ELSE t[i].from : i \in DOMAIN t}

\* The limit of update_reloc_tb, one more than there are reserved blocks.
TableFull(t) == Len(t) > MaxRelocEntry

\* "find the available block with the largest number in reservered area"; the
\* search ends at the block before the area when there is none.
Free(t) == Reserved \ Used(t)
RelocBlock(t) ==
  IF Free(t) = {} THEN RelocBegin - 1 ELSE CHOOSE r \in Free(t) : \A s \in Free(t) : s <= r

\* The entries once block b is replaced by block r. Its entry was looked up before
\* any replacement, which may have been b itself, was given up.
Replaced(t, b, r) ==
  LET hits == {i \in DOMAIN t : t[i].from = b /\ t[i].to # GivenUp} IN
  IF hits = {} THEN Append(t, [from |-> b, to |-> r])
  ELSE LET n == CHOOSE i \in hits : \A j \in hits : i <= j
       IN  Append([t EXCEPT ![n].to = r], [from |-> t[n].to, to |-> GivenUp])

IsTable(p) == p \notin {Erased, Torn}

\* The pages that pxa3xx_scan_reloc_tb can take.
Tables(s) == {p \in Slots : p >= PXA_BEGIN_SLOT /\ IsTable(s[p])}

\* Slip: the scan goes downwards.
Newest_Oldest(s) == CHOOSE p \in Tables(s) : \A q \in Tables(s) : q <= p

Newest(s) == CHOOSE p \in Tables(s) : \A q \in Tables(s) : p <= q

\* The table that the next boot finds.
Stored(s) == IF Tables(s) = {} THEN <<>> ELSE s[Newest(s)]

\* pxa3xx_block_bad: the bad mark is only looked at when relocation has ended.
BlockBad(b) ==
  /\ current_slot <= PXA_BEGIN_SLOT \/ Len(reloc) >= MaxRelocEntry \/ ~table_init
  /\ Where(b) = b
  /\ b \in marked

-----------------------------------------------------------------------------
(* Operations. *)

\* A page that is not blank when it is programmed may become unreadable.
Programmed(p) == IF slot[p] = Erased THEN {reloc} ELSE {reloc, Torn}

\* Boot: pxa3xx_scan_reloc_tb.
Scan ==
  /\ pc = "off"
  /\ pc' = "idle"
  /\ IF Tables(slot) = {}
       THEN reloc' = <<>> /\ table_init' = FALSE /\ UNCHANGED current_slot
       ELSE reloc' = slot[Newest(slot)] /\ table_init' = TRUE /\ current_slot' = Newest(slot)
  /\ UNCHANGED <<flash, block, since, owed, wiped, exhausted>>

\* Slip: a block given up is marked, too.
Markable_Any(b) == TRUE

\* "if (_ofs < 0 || _ofs > mtd->size) return 0".
Markable(b) == Where(b) # GivenUp

(* nand_block_markbad and pxa3xx_mark_reloc_tb up to the first erase: the bad  *)
(* mark goes where the block is now. A table over its limit is left alone.     *)
MarkBad(b) ==
  /\ pc = "idle" /\ ~BlockBad(b) /\ Markable(b)
  /\ marked' = marked \cup {Where(b)}
  /\ IF table_init /\ ~TableFull(reloc)
       THEN /\ pc' = "erase" /\ block' = b
            /\ since' = since \cup {b}
            /\ owed' = owed \cup {b}
            /\ exhausted' = (exhausted \/ Free(reloc) = {})
       ELSE UNCHANGED <<pc, block, since, owed, exhausted>>
  /\ UNCHANGED <<slot, bbm, wiped>>

\* The data blocks that are lost when block p is erased.
Victims(p) == {b \in Data \ {block} : Physical(Where(b)) = p}

(* An entry more for the table in RAM. Beyond the page the code writes on past *)
(* its buffer, which is where this model ends.                                 *)
Enter(table, next) ==
  IF Len(reloc) < PageEntries THEN reloc' = table /\ pc' = next
  ELSE pc' = "overrun" /\ UNCHANGED reloc

\* update_reloc_tb: the replacement is erased, bad mark and all, ...
Erase ==
  LET r == RelocBlock(reloc)
      p == Physical(Search(reloc, r))
  IN
  /\ pc = "erase" /\ ~BlockBad(r)
  /\ marked' = marked \ {p}
  /\ wiped' = wiped \cup Victims(p)
  /\ Enter(Replaced(reloc, block, r), "sync")
  /\ UNCHANGED <<slot, table_init, current_slot, block, since, owed, exhausted>>

\* Slip: a second entry of the kind is written over the first.
GivenUpToo_Overwrites(t, r) ==
  LET n == Len(t)
  IN  IF n > 0 /\ t[n].to = GivenUp THEN [t EXCEPT ![n].from = r]
      ELSE Append(t, [from |-> r, to |-> GivenUp])

\* The entries once replacement r could not be erased.
GivenUpToo(t, r) == Append(t, [from |-> r, to |-> GivenUp])

(* ... or cannot be erased, is given up and the next one tried. The block      *)
(* before the reserved area is found again by every search that finds none,    *)
(* and entered again whenever it cannot be erased.                             *)
EraseFails ==
  LET r == RelocBlock(reloc) IN
  /\ pc = "erase" /\ ~BlockBad(r)
  /\ Enter(GivenUpToo(reloc, r), "erase")
  /\ exhausted' = (exhausted \/ Free(reloc') = {})
  /\ UNCHANGED <<flash, table_init, current_slot, block, since, owed, wiped>>

\* ... or is refused by the erase for its bad mark: -EINVAL, nothing is stored.
EraseRefused ==
  /\ pc = "erase" /\ BlockBad(RelocBlock(reloc))
  /\ pc' = "idle" /\ block' = 0
  /\ UNCHANGED <<flash, bbm, since, owed, wiped, exhausted>>

\* sync_reloc_tb: the page is counted down and written, ...
Sync ==
  /\ pc = "sync" /\ current_slot >= PXA_BEGIN_SLOT
  /\ current_slot' = current_slot - 1
  /\ \E page \in Programmed(current_slot') : slot' = [slot EXCEPT ![current_slot'] = page]
  /\ IF slot'[current_slot'] = reloc /\ current_slot' >= PXA_BEGIN_SLOT
       THEN owed' = owed \ since /\ since' = {}
       ELSE UNCHANGED <<owed, since>>
  /\ pc' = "idle" /\ block' = 0
  /\ UNCHANGED <<marked, reloc, table_init, wiped, exhausted>>

\* ... which may fail unnoticed, ...
SyncFails ==
  /\ pc = "sync" /\ current_slot >= PXA_BEGIN_SLOT
  /\ current_slot' = current_slot - 1
  /\ slot' \in {slot, [slot EXCEPT ![current_slot'] = Torn]}
  /\ pc' = "idle" /\ block' = 0
  /\ UNCHANGED <<marked, reloc, table_init, since, owed, wiped, exhausted>>

\* ... or there is no page left, which goes unnoticed too.
SyncNoRoom ==
  /\ pc = "sync" /\ current_slot < PXA_BEGIN_SLOT
  /\ pc' = "idle" /\ block' = 0
  /\ UNCHANGED <<flash, bbm, since, owed, wiped, exhausted>>

\* What a power failure leaves of the erase or the write it interrupts.
Interrupted ==
  \/ UNCHANGED <<flash, wiped>>
  \/ /\ pc = "erase" /\ ~BlockBad(RelocBlock(reloc))
     /\ wiped' = wiped \cup Victims(Physical(Search(reloc, RelocBlock(reloc))))
     /\ UNCHANGED flash
  \/ /\ pc = "sync" /\ current_slot >= PXA_BEGIN_SLOT
     /\ \E page \in {reloc, Torn} : slot' = [slot EXCEPT ![current_slot - 1] = page]
     /\ UNCHANGED <<marked, wiped>>

PowerFail ==
  /\ pc # "off"
  /\ Interrupted
  /\ pc' = "off" /\ block' = 0 /\ reloc' = <<>> /\ table_init' = FALSE /\ current_slot' = 0
  /\ since' = {}
  /\ UNCHANGED <<owed, exhausted>>

(* The tool that prepares the flash leaves an empty table in the last page, or *)
(* none; the boot image is in the pages before PXA_BEGIN_SLOT.                 *)
Init ==
  /\ slot \in {[p \in Slots |-> IF p < PXA_BEGIN_SLOT THEN Torn
                                ELSE IF p = MaxSlots - 1 THEN last ELSE Erased]
                 : last \in {<<>>, Erased}}
  /\ marked = {}
  /\ reloc = <<>> /\ table_init = FALSE /\ current_slot = 0
  /\ pc = "off" /\ block = 0
  /\ since = {} /\ owed = {} /\ wiped = {} /\ exhausted = FALSE

Next ==
  \/ Scan
  \/ \E b \in Data : MarkBad(b)
  \/ Erase \/ EraseFails \/ EraseRefused
  \/ Sync \/ SyncFails \/ SyncNoRoom
  \/ PowerFail

\* Flash operations end.
Fairness ==
  WF_vars(Erase \/ EraseFails \/ EraseRefused) /\ WF_vars(Sync \/ SyncFails \/ SyncNoRoom)

Spec == Init /\ [][Next]_vars /\ Fairness

-----------------------------------------------------------------------------
(* Properties. *)

AreTables(t) == t \in Seq(Entries) /\ Len(t) <= PageEntries

\* Type invariant of the flash, the table and the operation in progress.
TypeOK ==
  /\ DOMAIN slot = Slots
  /\ \A p \in Slots : IsTable(slot[p]) => AreTables(slot[p])
  /\ marked \subseteq Blocks
  /\ AreTables(reloc)
  /\ table_init \in BOOLEAN /\ current_slot \in 0 .. MaxSlots - 1
  /\ pc \in {"off", "idle", "erase", "sync", "overrun"}
  /\ block \in Data \cup {0}
  /\ since \subseteq Data /\ owed \subseteq Data /\ wiped \subseteq Data
  /\ exhausted \in BOOLEAN

(* A block that block_bad lets its users have is not one that was marked bad,  *)
(* neither now nor after any boots -- except a data block whose relocation was *)
(* cut short or whose table was not stored, until it is marked once more.      *)
UsableIsGood ==
  (pc = "idle" /\ ~exhausted) =>
    \A b \in Data : (~BlockBad(b) /\ Where(b) \in marked) => b \in owed

(* "find the available block ... in reservered area", "Make sure that          *)
(* reloc_block is pointing to a valid block" (update_reloc_tb): marking one    *)
(* block bad never erases another one that is in use.                          *)
NothingWiped == wiped = {}

(* "Relocation table exceed max num" (update_reloc_tb): the limit is checked    *)
(* before the loop that adds an entry for every replacement that cannot be     *)
(* erased. Until the reserved area is used up the table keeps within it all    *)
(* the same, because each entry uses a reserved block. After that it does not. *)
LimitKept == exhausted \/ Len(reloc) <= MaxRelocEntry

\* Until the reserved area is used up no other block is erased.
OthersKept == exhausted \/ NothingWiped

(* However many replacements fail to erase, markbad returns -- until the       *)
(* reserved area is used up.                                                   *)
MarkReturns == []<>(pc \in {"off", "idle"} \/ exhausted)

Store == INSTANCE RelocStore WITH
  map     <- [b \in Data |-> Search(Stored(slot), b)],
  retired <- {Stored(slot)[i].from : i \in DOMAIN Stored(slot)}

(* The table on the flash, as the next boot will find it, implements the store *)
(* whatever erases and writes fail and wherever the power does.                *)
ImplementsRelocStore == Store!Spec
=============================================================================
