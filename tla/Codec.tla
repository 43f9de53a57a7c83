------------------------------- MODULE Codec -------------------------------
(***************************************************************************)
(* The path of the samples: the player thread takes a block of the pool    *)
(* "mp3" (netbuffer.c), decodes into it and writes it to the device "snd"  *)
(* (codec.c), whose ring of nodes the DMA interrupt plays and gives back.  *)
(* The codec is the clock master (CODEC_MASTER_MODE): samples move only    *)
(* while its register 6 has MS set and the I2S port is enabled.  Register  *)
(* writes go over the SPI bus, which the touch screen and the flash share. *)
(*                                                                         *)
(* Atomicity.  The player's code between two accesses of what the          *)
(* interrupt changes is one step, a section with interrupts off too.       *)
(***************************************************************************)
EXTENDS Naturals, Sequences, SequencesExt

CONSTANTS
  DATA_NODE_MAX,  \* nodes in the device's ring
  Block,          \* the blocks of the pool
  NoBlock,
  ContextCheck,   \* the kernel is built with RT_DEBUG, as rtconfig.h:19 says:
                  \* taking a mutex in an interrupt halts the machine
  Windows         \* the pairs of instructions between which a block may end:
                  \* "rate" in sample_rate, "close" in codec_close

ASSUME NodeAssumption == DATA_NODE_MAX \in Nat /\ DATA_NODE_MAX >= 2
ASSUME BlockAssumption == NoBlock \notin Block /\ IsFiniteSet(Block)
ASSUME SwitchAssumption == ContextCheck \in BOOLEAN
ASSUME WindowAssumption == Windows \subseteq {"rate", "close"}

Index == 0 .. DATA_NODE_MAX - 1

VARIABLES
  data_list, read_index, put_index,  \* struct codec_device
  MS,          \* the bit MS of r06, the copy of register 6
  chip,        \* the bit as the codec has it
  I2SE,        \* the I2S port is enabled
  dma,         \* the block the enabled DMA channel sends, or NoBlock
  block_list,  \* the free blocks of the pool
  buffer,      \* the block in the player's hands
  r06_MS,      \* r06 & MS as sample_rate has read it
  player,      \* where the player is
  owner,       \* who holds the lock of the SPI bus
  queued,      \* the player is in the suspend list of that lock
  halted       \* RT_ASSERT has stopped the machine

ring == <<data_list, read_index, put_index>>
clock == <<MS, chip, I2SE, dma>>
bus == <<owner, queued>>
vars == <<data_list, read_index, put_index, MS, chip, I2SE, dma, block_list,
          buffer, r06_MS, player, owner, queued, halted>>

-----------------------------------------------------------------------------
(* Plausible faults, each in the place of the definition of its idea.      *)

FaultNextIndex(i) ==     \* > for >=
  IF i + 1 > DATA_NODE_MAX THEN 0 ELSE i + 1
FaultFull ==             \* an empty ring is taken for a full one
  put_index = read_index
FaultFirst ==            \* the DMA is started for every block
  TRUE
FaultEnable ==           \* the codec is made master, the port forgotten
  UNCHANGED I2SE
FaultDone(next) ==       \* the block that comes next is given back
  data_list[next]
FaultGiveBack ==      \* the block of a frame in error is kept
  UNCHANGED block_list

NextIndex(i) == IF i + 1 >= DATA_NODE_MAX THEN 0 ELSE i + 1

Init ==
  /\ data_list = [i \in Index |-> NoBlock]
  /\ read_index = 0 /\ put_index = 0
  /\ MS = FALSE /\ chip = FALSE /\ I2SE = FALSE /\ dma = NoBlock
  /\ block_list \in SetToSeqs(Block)
  /\ buffer = NoBlock /\ r06_MS = FALSE /\ player = "idle"
  /\ owner = "none" /\ queued = FALSE /\ halted = FALSE

-----------------------------------------------------------------------------
(* The lock of the SPI bus.                                                *)

\* rt_mutex_take in a thread: the player has the lock already or gets it.
PlayerMayTake == owner \in {"none", "player"} /\ ~ queued

\* Another thread, of lower priority than the player, uses the bus.
OtherTakes ==
  /\ ~ halted /\ owner = "none"
  /\ owner' = "other"
  /\ UNCHANGED <<ring, clock, block_list, buffer, r06_MS, player, queued, halted>>

\* rt_mutex_release hands the lock to the first thread of the suspend list.
OtherReleases ==
  /\ ~ halted /\ owner = "other"
  /\ owner' = IF queued THEN "player" ELSE "none"
  /\ queued' = FALSE
  /\ UNCHANGED <<ring, clock, block_list, buffer, r06_MS, player, halted>>

-----------------------------------------------------------------------------
(* The player thread.                                                      *)

At(from) == player = from /\ ~ queued /\ ~ halted

\* mp3_decoder_create opens the device; wav does the same.
Open ==
  /\ At("idle")
  /\ player' = "run"
  /\ UNCHANGED <<ring, clock, block_list, buffer, r06_MS, bus, halted>>

TakeBlock ==
  /\ buffer' = Head(block_list)
  /\ block_list' = Tail(block_list)
  /\ player' = "decode"
  /\ UNCHANGED <<ring, clock, r06_MS, bus, halted>>

\* sbuf_alloc, waiting for ever when no block is free.
sbuf_alloc == At("run") /\ block_list # <<>> /\ TakeBlock

WaitForBlock ==
  /\ At("run") /\ block_list = <<>>
  /\ player' = "alloc"
  /\ UNCHANGED <<ring, clock, block_list, buffer, r06_MS, bus, halted>>

WokenWithBlock == At("alloc") /\ block_list # <<>> /\ TakeBlock

GiveBack == block_list' = <<buffer>> \o block_list

\* A frame in error, or one without output, or no more data in the file.
DecodeNothing ==
  /\ At("decode")
  /\ GiveBack
  /\ buffer' = NoBlock
  /\ player' = "run"
  /\ UNCHANGED <<ring, clock, r06_MS, bus, halted>>

\* The frame's rate is a new one: sample_rate reads r06 & MS ...
sample_rate ==
  /\ At("decode")
  /\ r06_MS' = MS
  /\ player' = "rate"
  /\ UNCHANGED <<ring, clock, block_list, buffer, bus, halted>>

\* ... stores r06 with that bit ...
StoreRate ==
  /\ At("rate")
  /\ MS' = r06_MS
  /\ player' = "send rate"
  /\ UNCHANGED <<ring, chip, I2SE, dma, block_list, buffer, r06_MS, bus, halted>>

\* ... and sends it: r06 is read before the bus is free, and the last block
\* may end in between.
SendRate ==
  /\ At("send rate") /\ PlayerMayTake
  /\ chip' \in {r06_MS, MS}
  /\ player' = "write"
  /\ UNCHANGED <<ring, MS, I2SE, dma, block_list, buffer, r06_MS, bus, halted>>

Full == NextIndex(put_index) = read_index

\* codec_write, "check data_list full": the result 0 is ignored.
codec_write ==
  /\ At("decode") \/ At("write")
  /\ IF Full THEN player' = "run" /\ buffer' = NoBlock
             ELSE player' = "store" /\ UNCHANGED buffer
  /\ UNCHANGED <<ring, clock, block_list, r06_MS, bus, halted>>

\* After the block is stored: it is the only one.
First == NextIndex(read_index) = NextIndex(put_index)

Enable == I2SE' = TRUE

\* codec_write with interrupts off.  The thread cannot be switched here: if
\* the bus is taken, rt_mutex_take puts the player into the suspend list and
\* returns all the same, and codec_send goes on.
StoreBlock ==
  /\ At("store")
  /\ data_list' = [data_list EXCEPT ![put_index] = buffer]
  /\ put_index' = NextIndex(put_index)
  /\ buffer' = NoBlock
  /\ player' = "run"
  /\ dma' = IF First THEN buffer ELSE dma
  /\ \/ /\ First /\ ~ MS
        /\ Enable
        /\ MS' = TRUE /\ chip' = TRUE
        /\ queued' = (owner = "other")
     \/ /\ ~ (First /\ ~ MS)
        /\ UNCHANGED <<MS, chip, I2SE, queued>>
  /\ UNCHANGED <<read_index, block_list, r06_MS, owner, halted>>

\* The decoder ends and codec_close tests r06 & MS.
codec_close ==
  /\ At("run")
  /\ player' = IF MS THEN "stopping" ELSE "idle"
  /\ UNCHANGED <<ring, clock, block_list, buffer, r06_MS, bus, halted>>

StopTransfer ==
  /\ At("stopping")
  /\ dma' = NoBlock /\ I2SE' = FALSE /\ MS' = FALSE
  /\ player' = "send stop"
  /\ UNCHANGED <<ring, chip, block_list, buffer, r06_MS, bus, halted>>

SendStop ==
  /\ At("send stop") /\ PlayerMayTake
  /\ chip' = MS
  /\ player' = "remove"
  /\ UNCHANGED <<ring, MS, I2SE, dma, block_list, buffer, r06_MS, bus, halted>>

\* The blocks of do { tx_complete(node); } while (read_index != put_index).
ToRemove ==
  LET count == IF read_index = put_index THEN DATA_NODE_MAX
               ELSE (put_index + DATA_NODE_MAX - read_index) % DATA_NODE_MAX
  IN [i \in 1 .. count |-> data_list[(read_index + i - 1) % DATA_NODE_MAX]]

\* "remove all data node", with interrupts off.
RemoveNodes ==
  /\ At("remove")
  /\ block_list' = Reverse(ToRemove) \o block_list
  /\ read_index' = put_index
  /\ player' = "idle"
  /\ UNCHANGED <<data_list, put_index, clock, buffer, r06_MS, bus, halted>>

Player ==
  \/ Open \/ sbuf_alloc \/ WaitForBlock \/ WokenWithBlock \/ DecodeNothing
  \/ sample_rate \/ StoreRate \/ SendRate \/ codec_write \/ StoreBlock
  \/ codec_close \/ StopTransfer \/ SendStop \/ RemoveNodes

-----------------------------------------------------------------------------
(* The interrupt at the end of a block.                                    *)

IsLast(next) == next = put_index
Done(next) == data_list[read_index]

\* codec_dma_isr goes to the next node, or stops the transfer after the last
\* one, and gives the block back.  Where that changes MS it writes register 6,
\* and the kernel's check finds the mutex taken in an interrupt.  Without the
\* check the interrupt is modelled only while the bus is free.
codec_dma_isr ==
  LET next == NextIndex(read_index)
      goes == ~ IsLast(next)
      sends == MS # goes
      halts == sends /\ ContextCheck
  IN /\ ~ halted
     /\ dma # NoBlock /\ I2SE /\ chip
     /\ player = "rate" => "rate" \in Windows
     /\ player = "stopping" => "close" \in Windows
     /\ sends /\ ~ ContextCheck => owner = "none"
     /\ read_index' = next
     /\ dma' = IF goes THEN data_list[next] ELSE IF MS THEN NoBlock ELSE dma
     /\ MS' = goes
     /\ I2SE' = IF sends THEN goes ELSE I2SE
     /\ chip' = IF sends /\ ~ halts THEN goes ELSE chip
     /\ halted' = halts
     /\ block_list' = IF halts THEN block_list
                      ELSE <<Done(next)>> \o block_list
     /\ UNCHANGED <<data_list, put_index, buffer, r06_MS, player, bus>>

Next == Player \/ codec_dma_isr \/ OtherTakes \/ OtherReleases

Spec == Init /\ [][Next]_vars

\* A block that is played ends - strongly fair because the bus, which others
\* take again and again, has to be free for it in the model; the woken player
\* runs; nobody keeps the bus.
Fairness ==
  /\ SF_vars(codec_dma_isr)
  /\ WF_vars(WokenWithBlock)
  /\ WF_vars(OtherReleases)

FairSpec == Spec /\ Fairness
=============================================================================
