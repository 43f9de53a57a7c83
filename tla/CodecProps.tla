----------------------------- MODULE CodecProps -----------------------------
(* What the samples' path must do: the properties checked of Codec.        *)
EXTENDS Codec, Functions

Closing == {"send stop", "remove"}

\* The blocks written and not yet given back, in order.
Nodes ==
  [i \in 1 .. (put_index + DATA_NODE_MAX - read_index) % DATA_NODE_MAX |->
     data_list[(read_index + i - 1) % DATA_NODE_MAX]]

(* Every variable has its type.                                            *)
TypeOK ==
  /\ data_list \in [Index -> Block \cup {NoBlock}]
  /\ read_index \in Index /\ put_index \in Index
  /\ MS \in BOOLEAN /\ chip \in BOOLEAN /\ I2SE \in BOOLEAN
  /\ r06_MS \in BOOLEAN /\ queued \in BOOLEAN /\ halted \in BOOLEAN
  /\ dma \in Block \cup {NoBlock} /\ buffer \in Block \cup {NoBlock}
  /\ block_list \in Seq(Block \cup {NoBlock})
  /\ player \in {"idle", "run", "alloc", "decode", "rate", "send rate",
                 "write", "store", "stopping", "send stop", "remove"}
  /\ owner \in {"none", "player", "other"}

(* A block is in exactly one place - the pool's list, the player's hands,  *)
(* a node - over any sequence of decoding errors, writes, interrupts and   *)
(* closes: none is given back twice and none is lost.  (mp3.c:179-271,     *)
(* codec.c:421-438, 475-526, 577-637)                                      *)
OneHolder ==
  LET held == block_list \o Nodes
                \o (IF buffer = NoBlock THEN <<>> ELSE <<buffer>>)
  IN ~ halted => /\ Range(held) = Block
                 /\ \A i, j \in DOMAIN held : held[i] = held[j] => i = j

(* The DMA channel reads only the block at the head of the ring, never one *)
(* that was given back.  (codec.c:413, 510-512, 599-603, 619)              *)
PlaysHead ==
  dma # NoBlock => read_index # put_index /\ dma = data_list[read_index]

(* While the ring has a block it is being played: the channel is on, the   *)
(* port enabled and the codec is the master, so an interrupt will come.    *)
(* Writer and interrupt both start and stop the three.  (codec.c:509-522,  *)
(* 599-627)                                                                *)
NoStall ==
  read_index # put_index /\ player \notin Closing =>
    dma = data_list[read_index] /\ I2SE /\ MS /\ chip

(* The player that waits for a block gets one.  (codec.c:632-636,          *)
(* netbuffer.c:25-39)                                                      *)
BufferComes == (player = "alloc") ~> (player # "alloc")

\* The same for the abstract queue.  The interrupt that halts the machine
\* has moved read_index on and not yet given the block back.
Written ==
  IF halted
  THEN <<data_list[(read_index + DATA_NODE_MAX - 1) % DATA_NODE_MAX]>> \o Nodes
  ELSE Nodes

Queue == INSTANCE Playout WITH
  free <- Range(block_list), held <- buffer, queue <- Written

(* Blocks are played in the order they are written and only then reused,   *)
(* up to the halt if there is one.  (codec.c:475-526, 577-637)             *)
ImplementsPlayout == Queue!Spec

-----------------------------------------------------------------------------
(* The inductive invariant behind NoStall, where no block ends inside      *)
(* sample_rate's window or the machine halts there.                        *)

\* An empty ring, and one being emptied, is silent.
Silent ==
  read_index = put_index \/ player \in Closing =>
    dma = NoBlock /\ ~ I2SE /\ ~ MS

\* The bit that sample_rate will store is still the right one, and what it
\* sends does not stop a clock that runs.
RateKept ==
  ~ halted => /\ player = "rate" => r06_MS = MS
              /\ player = "send rate" /\ MS => r06_MS

\* The room that codec_write has seen is still there.
RoomKept == player = "store" => ~ Full

IInv == TypeOK /\ NoStall /\ Silent /\ RateKept /\ RoomKept

(* A player that waits for a block is owed one: the channel sends a block  *)
(* and the clock runs, so that its end will come.  This is what            *)
(* BufferComes needs of the states.  (netbuffer.c:25-39, codec.c:632-636)  *)
WaiterPlayed ==
  player = "alloc" /\ block_list = <<>> /\ ~ halted =>
    dma \in Block /\ I2SE /\ MS /\ chip

(* The one behind PlaysHead, which no window disturbs.                     *)

\* The port is enabled only with the bit MS, and sample_rate puts back no
\* other bit while it is.
PortMaster == I2SE => MS /\ (player = "rate" => r06_MS)

\* A close that goes on has silenced the path.
ClosingQuiet == player \in Closing => dma = NoBlock /\ ~ MS

\* The bit outlives the last block only while the next one is on its way.
MasterSpare ==
  MS /\ read_index = put_index => player \in {"send rate", "write", "store"}

HeadInv == PlaysHead /\ RoomKept /\ PortMaster /\ ClosingQuiet /\ MasterSpare

-----------------------------------------------------------------------------
(* What a comment of the code says and the code does not do.               *)

(* "this function must not be used in interrupt even if time = 0"          *)
(* (rt-thread/src/ipc.c:608): no interrupt takes the lock of the bus.      *)
NoMutexInInterrupt == ~ halted
=============================================================================
