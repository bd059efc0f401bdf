----------------------------- MODULE RelocStore -----------------------------
(* What bad block management by relocation promises to the users of the        *)
(* flash, as every boot finds it: each data block is stored in a block of its  *)
(* own, a replacement comes from the reserved area and was in no one's use,    *)
(* and a block that was given up stays given up. Power failures change none of *)
(* this. Module Bbm is shown to implement it.                                  *)
CONSTANTS
  Data,     \* the data blocks, as their users number them
  Reserved  \* the blocks of the reserved area

VARIABLES
  map,       \* the block that holds each data block
  retired,   \* the blocks given up as bad
  exhausted  \* a relocation was tried with no reserved block left

vars == <<map, retired, exhausted>>

InUse(m) == {m[b] : b \in Data}

Init ==
  /\ map = [b \in Data |-> b]
  /\ retired = {}
  /\ exhausted = FALSE

\* One relocation, or several that reach the flash together.
Relocate ==
  /\ map' \in [Data -> Data \cup Reserved]
  /\ retired \subseteq retired'
  /\ retired' \cap InUse(map') = {}
  /\ \A b \in Data :
       map'[b] # map[b] => /\ map[b] \in retired'
                           /\ map'[b] \in Reserved \ (retired \cup InUse(map))
  /\ \A b, c \in Data : b # c => map'[b] # map'[c]

Next == exhausted' \/ (~exhausted /\ ~exhausted' /\ Relocate)

Spec == Init /\ [][Next]_vars
=============================================================================
