------------------------------ MODULE MCCodec ------------------------------
(* Codec for TLC: the pool is smaller than the ring (netbuffer.c:8).       *)
EXTENDS CodecProps, FiniteSets

ASSUME PoolFits == Cardinality(Block) < DATA_NODE_MAX
=============================================================================
