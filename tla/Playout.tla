------------------------------ MODULE Playout ------------------------------
(***************************************************************************)
(* What the player and the device "snd" promise about the blocks of the    *)
(* pool: each block is free, in the player's hands or queued; the queue is *)
(* played in the order it was written, and a close frees what is left.     *)
(***************************************************************************)
EXTENDS Naturals, Sequences, Functions

CONSTANTS Block, NoBlock

VARIABLES free, held, queue

Init == free = Block /\ held = NoBlock /\ queue = <<>>

Take ==
  /\ held = NoBlock
  /\ \E b \in free : held' = b /\ free' = free \ {b}
  /\ UNCHANGED queue

Drop ==
  /\ held # NoBlock
  /\ free' = free \cup {held}
  /\ held' = NoBlock
  /\ UNCHANGED queue

Write ==
  /\ held # NoBlock
  /\ queue' = Append(queue, held)
  /\ held' = NoBlock
  /\ UNCHANGED free

Played ==
  /\ queue # <<>>
  /\ free' = free \cup {Head(queue)}
  /\ queue' = Tail(queue)
  /\ UNCHANGED held

Close ==
  /\ held = NoBlock
  /\ free' = free \cup Range(queue)
  /\ queue' = <<>>
  /\ UNCHANGED held

Next == Take \/ Drop \/ Write \/ Played \/ Close

Spec == Init /\ [][Next]_<<free, held, queue>>
=============================================================================
