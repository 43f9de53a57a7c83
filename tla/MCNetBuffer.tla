---------------------------- MODULE MCNetBuffer ----------------------------
(* NetBuffer for TLC, under the timing assumption of the proofs.           *)
EXTENDS NetBufferProps

ASSUME MCShortBursts == ShortBursts
=============================================================================
