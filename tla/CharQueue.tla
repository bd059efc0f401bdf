------------------------------ MODULE CharQueue ------------------------------
(* What the network console promises about its input: the characters typed at  *)
(* the other end come out in order, each at most once; those that find no room *)
(* are lost, but nothing else is. Module NetConsole is shown to implement it.  *)
EXTENDS Naturals, Sequences

CONSTANT Capacity \* characters the queue can hold

VARIABLES
  queue, \* the characters that wait, each known by its number
  typed, \* how many characters have been typed
  taken  \* the character taken last

vars == <<queue, typed, taken>>

Init == queue = <<>> /\ typed = 0 /\ taken = 0

\* A packet with the next characters comes; those that fit are queued.
Arrive ==
  /\ typed' > typed
  /\ LET room == Capacity - Len(queue)
         len == IF typed' - typed < room THEN typed' - typed ELSE room
     IN  queue' = queue \o [i \in 1 .. len |-> typed + i]
  /\ UNCHANGED taken

Take ==
  /\ queue # <<>>
  /\ taken' = Head(queue)
  /\ queue' = Tail(queue)
  /\ UNCHANGED typed

Next == Arrive \/ Take

Spec == Init /\ [][Next]_vars
=============================================================================
