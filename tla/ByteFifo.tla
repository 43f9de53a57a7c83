------------------------------ MODULE ByteFifo ------------------------------
(***************************************************************************)
(* What a net buffer promises while a job is live: the bytes that were     *)
(* fetched come out once, in the order they went in, and never more than   *)
(* Capacity of them are kept.  Nothing is kept from one job to the next.   *)
(***************************************************************************)
EXTENDS Naturals, Sequences

CONSTANTS Capacity, Blocks

VARIABLES live,     \* a job is being performed
          pending,  \* the block fetched and not yet stored
          queue     \* the bytes stored and not yet read

Init == live = FALSE /\ pending = <<>> /\ queue = <<>>

Open ==
  /\ ~ live
  /\ live' = TRUE
  /\ UNCHANGED <<pending, queue>>

Fetch ==
  /\ live /\ pending = <<>>
  /\ pending' \in Blocks
  /\ UNCHANGED <<live, queue>>

Put ==
  /\ live /\ pending # <<>>
  /\ Len(queue) + Len(pending) <= Capacity
  /\ queue' = queue \o pending
  /\ pending' = <<>>
  /\ UNCHANGED live

Get ==
  /\ live
  /\ \E n \in 1 .. Len(queue) : queue' = SubSeq(queue, n + 1, Len(queue))
  /\ UNCHANGED <<live, pending>>

Close ==
  /\ live
  /\ live' = FALSE /\ pending' = <<>> /\ queue' = <<>>

Next == Open \/ Fetch \/ Put \/ Get \/ Close

Spec == Init /\ [][Next]_<<live, pending, queue>>
=============================================================================
