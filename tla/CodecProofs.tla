---------------------------- MODULE CodecProofs ----------------------------
(* Type correctness of the samples' path, that it never stalls, that each  *)
(* block has one holder and that the path implements Playout, for every    *)
(* size of the ring and every pool.                                        *)
EXTENDS CodecProps, SequenceTheorems, FiniteSetTheorems, TLAPS

\* The successor is one to one on the ring's indices.
LEMMA NextIndexFacts ==
  /\ \A i \in Index : NextIndex(i) \in Index /\ NextIndex(i) # i
  /\ \A i, j \in Index : NextIndex(i) = NextIndex(j) => i = j
BY NodeAssumption DEF NextIndex, Index

LEMMA InsideRing ==
  ASSUME TypeOK
  PROVE  /\ read_index \in Nat /\ read_index < DATA_NODE_MAX
         /\ put_index \in Nat /\ put_index < DATA_NODE_MAX
<1>1. read_index \in Index /\ put_index \in Index
  BY DEF TypeOK
<1>2. QED
  BY <1>1, NodeAssumption DEF Index

LEMMA ModInside ==
  ASSUME NEW n \in Nat
  PROVE  n % DATA_NODE_MAX \in Index
<1>1. DATA_NODE_MAX \in Nat /\ DATA_NODE_MAX > 0
  BY NodeAssumption
<1>2. n % DATA_NODE_MAX \in 0 .. DATA_NODE_MAX - 1
  BY <1>1
<1>3. QED
  BY <1>2 DEF Index

\* What a close gives back are blocks of nodes.
LEMMA RemovedBlocks ==
  ASSUME TypeOK
  PROVE  Reverse(ToRemove) \in Seq(Block \cup {NoBlock})
<1> DEFINE count == IF read_index = put_index THEN DATA_NODE_MAX
                    ELSE (put_index + DATA_NODE_MAX - read_index)
                           % DATA_NODE_MAX
           B == Block \cup {NoBlock}
<1>1. count \in Nat
  <2>1. put_index + DATA_NODE_MAX - read_index \in Nat
    BY InsideRing, NodeAssumption
  <2>2. (put_index + DATA_NODE_MAX - read_index) % DATA_NODE_MAX \in Nat
    BY <2>1, ModInside, NodeAssumption DEF Index
  <2>3. QED
    BY <2>2, NodeAssumption
<1> HIDE DEF count
<1>2. ASSUME NEW i \in 1 .. count
      PROVE  data_list[(read_index + i - 1) % DATA_NODE_MAX] \in B
  <2>1. (read_index + i - 1) % DATA_NODE_MAX \in Index
    <3>1. read_index + i - 1 \in Nat
      BY <1>1, InsideRing
    <3>2. QED
      BY <3>1, ModInside
  <2>2. QED
    BY <2>1 DEF TypeOK
<1> HIDE DEF B
<1>3. ToRemove = [i \in 1 .. count |->
                    data_list[(read_index + i - 1) % DATA_NODE_MAX]]
  BY DEF ToRemove, count
<1>4. ToRemove \in [1 .. count -> B]
  BY <1>2, <1>3
<1>5. ToRemove \in Seq(B) /\ Len(ToRemove) = count
  BY <1>1, <1>4, SeqDef, LenProperties
<1>6. Reverse(ToRemove) \in [1 .. count -> B]
  BY <1>1, <1>4, <1>5 DEF Reverse
<1>7. QED
  BY <1>1, <1>6, SeqDef DEF B

LEMMA TypeInit == Init => TypeOK
<1> SUFFICES ASSUME Init PROVE TypeOK
  OBVIOUS
<1>1. block_list \in Seq(Block)
  BY BlockAssumption, FS_CardinalityType, SeqDef DEF Init, SetToSeqs
<1>2. QED
  BY <1>1, NodeAssumption DEF Init, TypeOK, Index

LEMMA TypeStep == TypeOK /\ [Next]_vars => TypeOK'
<1> SUFFICES ASSUME TypeOK, [Next]_vars PROVE TypeOK'
  OBVIOUS
<1> USE DEF At, ring, clock, bus
<1>1. CASE Open \/ WaitForBlock \/ codec_close
  BY <1>1 DEF TypeOK, Open, WaitForBlock, codec_close
<1>2. CASE sbuf_alloc \/ WokenWithBlock
  <2>1. /\ Head(block_list) \in Block \cup {NoBlock}
        /\ Tail(block_list) \in Seq(Block \cup {NoBlock})
    BY <1>2, HeadTailProperties DEF TypeOK, sbuf_alloc, WokenWithBlock
  <2>2. QED
    BY <1>2, <2>1 DEF TypeOK, sbuf_alloc, WokenWithBlock, TakeBlock
<1>3. CASE DecodeNothing
  BY <1>3 DEF TypeOK, DecodeNothing, GiveBack
<1>4. CASE sample_rate \/ StoreRate
  BY <1>4 DEF TypeOK, sample_rate, StoreRate
<1>5. CASE SendRate \/ StopTransfer \/ SendStop
  BY <1>5 DEF TypeOK, SendRate, StopTransfer, SendStop
<1>6. CASE codec_write
  BY <1>6 DEF TypeOK, codec_write
<1>7. CASE StoreBlock
  BY <1>7, NextIndexFacts DEF TypeOK, StoreBlock, Enable
<1>8. CASE RemoveNodes
  BY <1>8, RemovedBlocks DEF TypeOK, RemoveNodes
<1>9. CASE codec_dma_isr
  <2>1. NextIndex(read_index) \in Index
    BY NextIndexFacts DEF TypeOK
  <2>2. /\ data_list[read_index] \in Block \cup {NoBlock}
        /\ data_list[NextIndex(read_index)] \in Block \cup {NoBlock}
    BY <2>1 DEF TypeOK
  <2>3. /\ read_index' \in Index
        /\ dma' \in Block \cup {NoBlock}
    BY <1>9, <2>1, <2>2 DEF TypeOK, codec_dma_isr, IsLast
  <2>4. MS' \in BOOLEAN /\ I2SE' \in BOOLEAN
    BY <1>9 DEF TypeOK, codec_dma_isr, IsLast
  <2>5. chip' \in BOOLEAN /\ halted' \in BOOLEAN
    BY <1>9, SwitchAssumption DEF TypeOK, codec_dma_isr, IsLast
  <2>6. block_list' \in Seq(Block \cup {NoBlock})
    <3>1. <<Done(0)>> \o block_list \in Seq(Block \cup {NoBlock})
      <4>1. Done(0) \in Block \cup {NoBlock}
        BY <2>2 DEF Done
      <4>2. <<Done(0)>> \in Seq(Block \cup {NoBlock})
        BY <4>1
      <4>3. QED
        BY <4>2, ConcatProperties DEF TypeOK
    <3>2. \/ block_list' = block_list
          \/ block_list' = <<Done(0)>> \o block_list
      BY <1>9 DEF codec_dma_isr, Done
    <3>3. QED
      BY <3>1, <3>2 DEF TypeOK
  <2>7. QED
    BY <1>9, <2>3, <2>4, <2>5, <2>6 DEF TypeOK, codec_dma_isr
<1>10. CASE OtherTakes \/ OtherReleases
  <2>1. owner' \in {"none", "player", "other"} /\ queued' \in BOOLEAN
    BY <1>10 DEF TypeOK, OtherTakes, OtherReleases
  <2>2. QED
    BY <1>10, <2>1 DEF TypeOK, OtherTakes, OtherReleases
<1>11. CASE UNCHANGED vars
  <2>1. /\ UNCHANGED <<ring, block_list, buffer, player, owner, dma>>
        /\ MS' = MS /\ chip' = chip /\ I2SE' = I2SE /\ r06_MS' = r06_MS
        /\ queued' = queued /\ halted' = halted
    BY <1>11 DEF vars
  <2>2. /\ MS' \in BOOLEAN /\ chip' \in BOOLEAN /\ I2SE' \in BOOLEAN
        /\ r06_MS' \in BOOLEAN /\ queued' \in BOOLEAN
        /\ halted' \in BOOLEAN
    BY <2>1 DEF TypeOK
  <2>3. QED
    BY <2>1, <2>2 DEF TypeOK
<1>12. QED
  BY <1>1, <1>2, <1>3, <1>4, <1>5, <1>6, <1>7, <1>8, <1>9, <1>10, <1>11
     DEF Next, Player

(* Type correctness of the samples' path (codec.c, netbuffer.c:25-39):     *)
(* both indices stay inside the ring.                                      *)
THEOREM TypeCorrect == Spec => []TypeOK
<1>1. QED
  BY TypeInit, TypeStep, PTL DEF Spec

-----------------------------------------------------------------------------
(* Only the head of the ring is played, wherever the blocks end.           *)

LEMMA HeadInit == Init => HeadInv
BY DEF Init, HeadInv, PlaysHead, RoomKept, PortMaster, ClosingQuiet,
   MasterSpare, Closing

LEMMA HeadStep == TypeOK /\ HeadInv /\ [Next]_vars => HeadInv'
<1> SUFFICES ASSUME TypeOK, HeadInv, [Next]_vars PROVE HeadInv'
  OBVIOUS
<1> USE DEF At, ring, clock, bus, Closing, HeadInv, PlaysHead, RoomKept,
            PortMaster, ClosingQuiet, MasterSpare, Full
<1>0. ASSUME UNCHANGED <<ring, clock, r06_MS>>,
             player' \in Closing \cup {"store", "rate"} => player' = player,
             player \in {"send rate", "write", "store"} => player' = player
      PROVE  HeadInv'
  BY <1>0
<1>1. CASE Open \/ WaitForBlock \/ codec_close
  BY <1>0, <1>1 DEF Open, WaitForBlock, codec_close
<1>2. CASE sbuf_alloc \/ WokenWithBlock
  BY <1>0, <1>2 DEF sbuf_alloc, WokenWithBlock, TakeBlock
<1>3. CASE DecodeNothing
  BY <1>3 DEF DecodeNothing
<1>4. CASE sample_rate
  BY <1>4 DEF sample_rate
<1>5. CASE StoreRate
  <2>1. /\ MS' = r06_MS /\ player = "rate" /\ player' = "send rate"
        /\ UNCHANGED <<ring, I2SE, dma>>
    BY <1>5 DEF StoreRate
  <2>2. QED
    BY <2>1
<1>6. CASE SendRate
  BY <1>6 DEF SendRate
<1>7. CASE codec_write
  <2>1. UNCHANGED <<ring, clock, r06_MS>>
    BY <1>7 DEF codec_write
  <2>0. (Full /\ player' = "run") \/ (~ Full /\ player' = "store")
    BY <1>7 DEF codec_write
  <2>2. Full => read_index # put_index
    BY NextIndexFacts DEF TypeOK
  <2>3. QED
    BY <2>0, <2>1, <2>2
<1>8. CASE StoreBlock
  <2>1. /\ read_index \in Index /\ put_index \in Index
        /\ NextIndex(put_index) # read_index
        /\ First <=> read_index = put_index
        /\ put_index' = NextIndex(put_index) /\ read_index' = read_index
        /\ player' = "run"
    BY <1>8, NextIndexFacts DEF TypeOK, StoreBlock, First
  <2>2. /\ data_list'[put_index] = buffer
        /\ read_index # put_index
             => data_list'[read_index] = data_list[read_index]
    BY <1>8, <2>1 DEF TypeOK, StoreBlock
  <2>3. CASE read_index = put_index
    <3>1. dma' = buffer /\ (I2SE' => MS')
      BY <1>8, <2>1, <2>3 DEF StoreBlock, Enable
    <3>2. QED
      BY <2>1, <2>2, <2>3, <3>1
  <2>4. CASE read_index # put_index
    <3>1. dma' = dma /\ I2SE' = I2SE /\ MS' = MS
      BY <1>8, <2>1, <2>4 DEF StoreBlock
    <3>2. QED
      BY <2>1, <2>2, <2>4, <3>1
  <2>5. QED
    BY <2>3, <2>4
<1>9. CASE StopTransfer
  BY <1>9 DEF StopTransfer
<1>10. CASE SendStop
  BY <1>10 DEF SendStop
<1>11. CASE RemoveNodes
  BY <1>11 DEF RemoveNodes
<1>12. CASE codec_dma_isr
  <2>1. /\ dma # NoBlock /\ I2SE /\ MS /\ read_index # put_index
        /\ player \notin Closing /\ player' = player /\ r06_MS' = r06_MS
        /\ read_index' = NextIndex(read_index)
        /\ UNCHANGED <<data_list, put_index>>
    BY <1>12 DEF codec_dma_isr
  <2>2. /\ read_index \in Index /\ put_index \in Index
        /\ NextIndex(put_index) # NextIndex(read_index)
    BY <2>1, NextIndexFacts DEF TypeOK
  <2>3. CASE NextIndex(read_index) = put_index
    <3>1. dma' = NoBlock /\ ~ MS' /\ ~ I2SE'
      BY <1>12, <2>1, <2>3 DEF codec_dma_isr, IsLast
    <3>2. QED
      BY <2>1, <2>2, <2>3, <3>1
  <2>4. CASE NextIndex(read_index) # put_index
    <3>1. dma' = data_list[read_index'] /\ MS' /\ I2SE'
      BY <1>12, <2>1, <2>4 DEF codec_dma_isr, IsLast
    <3>2. QED
      BY <2>1, <2>2, <2>4, <3>1
  <2>5. QED
    BY <2>3, <2>4
<1>13. CASE OtherTakes \/ OtherReleases \/ UNCHANGED vars
  BY <1>0, <1>13 DEF OtherTakes, OtherReleases, vars
<1>14. QED
  BY <1>1, <1>2, <1>3, <1>4, <1>5, <1>6, <1>7, <1>8, <1>9, <1>10, <1>11,
     <1>12, <1>13 DEF Next, Player

(* The DMA channel reads nothing but the block at the head of the ring:    *)
(* not the one it has just given back and none of an empty ring, wherever  *)
(* in the code of the player a block may end, with the kernel's check and  *)
(* without.  (codec.c:413, 510-512, 599-603, 619)                          *)
THEOREM PlaysHeadTheorem == Spec => []PlaysHead
<1>1. HeadInv => PlaysHead
  BY DEF HeadInv
<1>2. QED
  BY TypeCorrect, HeadInit, HeadStep, <1>1, PTL DEF Spec

-----------------------------------------------------------------------------
(* While the ring has a block it is played.                                *)

PlayInv == NoStall /\ Silent /\ RateKept /\ RoomKept

LEMMA PlayInit == Init => PlayInv
BY DEF Init, PlayInv, NoStall, Silent, RateKept, RoomKept, Closing

LEMMA PlayStep ==
  ASSUME ContextCheck \/ "rate" \notin Windows
  PROVE  TypeOK /\ PlayInv /\ [Next]_vars => PlayInv'
<1> SUFFICES ASSUME TypeOK, PlayInv, [Next]_vars PROVE PlayInv'
  OBVIOUS
<1> USE DEF At, ring, clock, bus, Closing, PlayInv, NoStall, Silent,
            RateKept, RoomKept, Full
<1>1. CASE Open
  BY <1>1 DEF Open
<1>2. CASE WaitForBlock
  BY <1>2 DEF WaitForBlock
<1>3. CASE codec_close
  BY <1>3 DEF codec_close
<1>4. CASE sbuf_alloc
  BY <1>4 DEF sbuf_alloc, TakeBlock
<1>5. CASE WokenWithBlock
  BY <1>5 DEF WokenWithBlock, TakeBlock
<1>6. CASE DecodeNothing
  BY <1>6 DEF DecodeNothing
<1>7. CASE sample_rate
  BY <1>7 DEF sample_rate
<1>8. CASE StoreRate
  <2>1. MS' = MS /\ player = "rate" /\ player' = "send rate"
    BY <1>8 DEF StoreRate
  <2>2. UNCHANGED <<ring, chip, I2SE, dma>> /\ (MS' => r06_MS')
    BY <1>8 DEF StoreRate
  <2>3. QED
    BY <2>1, <2>2
<1>9. CASE SendRate
  <2>1. /\ player = "send rate" /\ player' = "write" /\ ~ halted
        /\ UNCHANGED <<ring, MS, I2SE, dma, r06_MS, halted>>
    BY <1>9 DEF SendRate
  <2>2. chip' = r06_MS \/ chip' = MS
    BY <1>9, Zenon DEF SendRate
  <2>3. MS => chip'
    BY <2>1, <2>2, Zenon DEF RateKept, PlayInv
  <2>4. QED
    BY <2>1, <2>3
<1>10. CASE codec_write
  BY <1>10 DEF codec_write
<1>11. CASE StoreBlock
  <2>1. /\ read_index \in Index /\ put_index \in Index
        /\ NextIndex(put_index) # read_index
        /\ First <=> read_index = put_index
    BY <1>11, NextIndexFacts DEF TypeOK, StoreBlock, First
  <2>2. /\ data_list'[put_index] = buffer
        /\ read_index # put_index
             => data_list'[read_index] = data_list[read_index]
    BY <1>11, <2>1 DEF TypeOK, StoreBlock
  <2>3. CASE read_index = put_index
    BY <1>11, <2>1, <2>2, <2>3 DEF StoreBlock, Enable
  <2>4. CASE read_index # put_index
    BY <1>11, <2>1, <2>2, <2>4 DEF StoreBlock
  <2>5. QED
    BY <2>3, <2>4
<1>12. CASE StopTransfer
  BY <1>12 DEF StopTransfer
<1>13. CASE SendStop
  BY <1>13 DEF SendStop
<1>14. CASE RemoveNodes
  BY <1>14 DEF RemoveNodes
<1>15. CASE codec_dma_isr
  <2>1. /\ read_index # put_index /\ player \notin Closing
        /\ player = "rate" => ContextCheck
        /\ MS /\ I2SE /\ chip
    BY <1>15 DEF codec_dma_isr
  <2>2. /\ read_index \in Index /\ put_index \in Index
        /\ NextIndex(put_index) # NextIndex(read_index)
    BY <2>1, NextIndexFacts DEF TypeOK
  <2>3. CASE NextIndex(read_index) = put_index
    BY <1>15, <2>1, <2>2, <2>3 DEF codec_dma_isr, IsLast, vars
  <2>4. CASE NextIndex(read_index) # put_index
    BY <1>15, <2>1, <2>2, <2>4 DEF codec_dma_isr, IsLast
  <2>5. QED
    BY <2>3, <2>4
<1>16. CASE OtherTakes
  BY <1>16 DEF OtherTakes
<1>17. CASE OtherReleases
  BY <1>17 DEF OtherReleases
<1>18. CASE UNCHANGED vars
  BY <1>18 DEF vars
<1>19. QED
  BY <1>1, <1>2, <1>3, <1>4, <1>5, <1>6, <1>7, <1>8, <1>9, <1>10, <1>11,
     <1>12, <1>13, <1>14, <1>15, <1>16, <1>17, <1>18 DEF Next, Player

(* Where no block ends inside the window of sample_rate, or the kernel's   *)
(* check halts the machine when the last one ends, a written block is      *)
(* being played until it is given back.  (codec.c:475-526, 577-637)        *)
THEOREM NoStallTheorem ==
  ASSUME ContextCheck \/ "rate" \notin Windows
  PROVE  Spec => []NoStall
<1>1. PlayInv => NoStall
  BY DEF PlayInv
<1>2. QED
  BY TypeCorrect, PlayInit, PlayStep, <1>1, PTL DEF Spec

-----------------------------------------------------------------------------
(* Sequences whose elements occur once.                                    *)

\* No element occurs twice.
Once(s) == \A i, j \in DOMAIN s : s[i] = s[j] => i = j

\* A sequence followed by another that shares nothing with it.
LEMMA ConcatOnce ==
  ASSUME NEW S, NEW s \in Seq(S), NEW t \in Seq(S)
  PROVE  /\ Range(s \o t) = Range(s) \cup Range(t)
         /\ Once(s) /\ Once(t) /\ Range(s) \cap Range(t) = {} => Once(s \o t)
<1>1. /\ Len(s) \in Nat /\ Len(t) \in Nat
      /\ DOMAIN s = 1 .. Len(s) /\ DOMAIN t = 1 .. Len(t)
      /\ s \o t \in Seq(S) /\ Len(s \o t) = Len(s) + Len(t)
      /\ DOMAIN (s \o t) = 1 .. Len(s) + Len(t)
  BY LenProperties, ConcatProperties
<1>2. \A i \in 1 .. Len(s) + Len(t) :
        (s \o t)[i] = IF i <= Len(s) THEN s[i] ELSE t[i - Len(s)]
  BY ConcatProperties
<1>3. Range(s \o t) = Range(s) \cup Range(t)
  BY RangeConcatenation
<1>4. ASSUME Once(s), Once(t), Range(s) \cap Range(t) = {},
             NEW i \in 1 .. Len(s) + Len(t), NEW j \in 1 .. Len(s) + Len(t),
             (s \o t)[i] = (s \o t)[j]
      PROVE  i = j
  <2>1. \A a \in 1 .. Len(s), b \in 1 .. Len(t) : s[a] # t[b]
    BY <1>1, <1>4 DEF Range
  <2>2. CASE i <= Len(s) /\ j <= Len(s)
    BY <1>1, <1>2, <1>4, <2>2 DEF Once
  <2>3. CASE i > Len(s) /\ j > Len(s)
    <3>1. i - Len(s) \in DOMAIN t /\ j - Len(s) \in DOMAIN t
      BY <1>1, <2>3
    <3>2. t[i - Len(s)] = t[j - Len(s)]
      BY <1>1, <1>2, <1>4, <2>3
    <3>3. i - Len(s) = j - Len(s)
      BY <1>4, <3>1, <3>2 DEF Once
    <3>4. QED
      BY <1>1, <3>3
  <2>4. CASE i <= Len(s) /\ j > Len(s)
    BY <1>1, <1>2, <1>4, <2>1, <2>4
  <2>5. CASE i > Len(s) /\ j <= Len(s)
    BY <1>1, <1>2, <1>4, <2>1, <2>5
  <2>6. QED
    BY <1>1, <2>2, <2>3, <2>4, <2>5
<1>5. QED
  BY <1>1, <1>3, <1>4 DEF Once

\* A sequence of one element.
LEMMA SingleOnce ==
  ASSUME NEW S, NEW x \in S
  PROVE  <<x>> \in Seq(S) /\ Range(<<x>>) = {x} /\ Once(<<x>>)
<1>1. <<x>> \in Seq(S) /\ Len(<<x>>) = 1 /\ <<x>>[1] = x
  OBVIOUS
<1>2. DOMAIN <<x>> = 1 .. 1
  BY <1>1, LenProperties
<1>3. QED
  BY <1>1, <1>2 DEF Range, Once

\* A block put in front of a list.
LEMMA ConsOnce ==
  ASSUME NEW S, NEW s \in Seq(S), NEW x \in S
  PROVE  /\ Range(<<x>> \o s) = {x} \cup Range(s)
         /\ Once(s) /\ x \notin Range(s) => Once(<<x>> \o s)
<1>1. <<x>> \in Seq(S) /\ Range(<<x>>) = {x} /\ Once(<<x>>)
  BY SingleOnce
<1> DEFINE u == <<x>>
<1> HIDE DEF u
<1>2. /\ Range(u \o s) = Range(u) \cup Range(s)
      /\ Once(u) /\ Once(s) /\ Range(u) \cap Range(s) = {}
           => Once(u \o s)
  BY <1>1, ConcatOnce DEF u
<1>3. QED
  BY <1>1, <1>2 DEF u

\* A block taken from the front of a list.
LEMMA HeadOnce ==
  ASSUME NEW S, NEW s \in Seq(S), s # <<>>, Once(s)
  PROVE  /\ Range(s) = {Head(s)} \cup Range(Tail(s))
         /\ Head(s) \notin Range(Tail(s)) /\ Once(Tail(s))
<1>1. /\ Len(s) \in Nat \ {0} /\ DOMAIN s = 1 .. Len(s)
      /\ Tail(s) \in Seq(S) /\ Len(Tail(s)) = Len(s) - 1
      /\ DOMAIN Tail(s) = 1 .. Len(s) - 1
      /\ Head(s) = s[1]
  BY EmptySeq, LenProperties, HeadTailProperties
<1>2. \A i \in 1 .. Len(s) - 1 : Tail(s)[i] = s[i + 1]
  BY <1>1, HeadTailProperties
<1>3. \A i \in 1 .. Len(s) - 1 : i + 1 \in 1 .. Len(s) /\ i + 1 # 1
  BY <1>1
<1>4. \A i \in 2 .. Len(s) : i - 1 \in 1 .. Len(s) - 1 /\ Tail(s)[i - 1] = s[i]
  BY <1>1, <1>2
<1>5. Range(s) = {Head(s)} \cup Range(Tail(s))
  <2>1. Range(s) \subseteq {Head(s)} \cup Range(Tail(s))
    <3> SUFFICES ASSUME NEW i \in 1 .. Len(s)
                 PROVE  s[i] \in {Head(s)} \cup Range(Tail(s))
      BY <1>1 DEF Range
    <3>1. CASE i = 1
      BY <1>1, <3>1
    <3>2. CASE i # 1
      <4>1. i \in 2 .. Len(s)
        BY <1>1, <3>2
      <4>2. QED
        BY <1>1, <1>4, <4>1 DEF Range
    <3>3. QED
      BY <3>1, <3>2
  <2>2. {Head(s)} \cup Range(Tail(s)) \subseteq Range(s)
    BY <1>1, <1>2, <1>3 DEF Range
  <2>3. QED
    BY <2>1, <2>2
<1>6. Head(s) \notin Range(Tail(s))
  BY <1>1, <1>2, <1>3 DEF Range, Once
<1>7. Once(Tail(s))
  BY <1>1, <1>2, <1>3 DEF Once
<1>8. QED
  BY <1>5, <1>6, <1>7

\* A list turned round.
LEMMA ReverseOnce ==
  ASSUME NEW S, NEW s \in Seq(S)
  PROVE  /\ Reverse(s) \in Seq(S) /\ Range(Reverse(s)) = Range(s)
         /\ Once(s) => Once(Reverse(s))
<1> DEFINE n == Len(s)
<1>1. n \in Nat /\ s \in [1 .. n -> S]
  BY LenProperties
<1>2. /\ Reverse(s) \in [1 .. n -> S]
      /\ \A i \in 1 .. n : Reverse(s)[i] = s[n - i + 1]
  BY <1>1 DEF Reverse
<1>3. \A i \in 1 .. n : n - i + 1 \in 1 .. n /\ n - (n - i + 1) + 1 = i
  BY <1>1
<1>4. Reverse(s) \in Seq(S)
  BY <1>1, <1>2, SeqDef
<1> HIDE DEF n
<1>5. Range(Reverse(s)) = Range(s)
  BY <1>1, <1>2, <1>3 DEF Range
<1>6. ASSUME Once(s) PROVE Once(Reverse(s))
  BY <1>1, <1>2, <1>3, <1>6 DEF Once
<1>7. QED
  BY <1>4, <1>5, <1>6

-----------------------------------------------------------------------------
(* The nodes in use.                                                       *)

\* The nodes from read index r up to put index p, round the ring.
Between(r, p) ==
  {i \in Index : IF r <= p THEN r <= i /\ i < p ELSE r <= i \/ i < p}

\* The nodes in use as either index moves on.
LEMMA BetweenFacts ==
  ASSUME NEW r \in Index, NEW p \in Index
  PROVE  /\ r = p => Between(r, p) = {}
         /\ p \notin Between(r, p)
         /\ NextIndex(p) # r
              => Between(r, NextIndex(p)) = Between(r, p) \cup {p}
         /\ NextIndex(p) = r => Between(r, p) = Index \ {p}
         /\ r # p => /\ r \in Between(r, p)
                     /\ Between(NextIndex(r), p) = Between(r, p) \ {r}
BY NodeAssumption DEF Between, NextIndex, Index

\* A remainder of what has gone round at most once.
LEMMA OnceRound ==
  ASSUME NEW x \in 0 .. 2 * DATA_NODE_MAX - 1
  PROVE  x % DATA_NODE_MAX
           = IF x < DATA_NODE_MAX THEN x ELSE x - DATA_NODE_MAX
<1> DEFINE N == DATA_NODE_MAX
           q == x \div N
           m == x % N
<1>1. N \in Nat \ {0} /\ x \in Nat
  BY NodeAssumption
<1>2. q \in Int /\ m \in 0 .. N - 1 /\ x = N * q + m
  BY <1>1
<1>3. N * q \in Int /\ (q >= 2 => N * q >= 2 * N) /\ (q <= -1 => N * q <= -N)
  <2>1. /\ N * q \in Int
        /\ \A k \in Nat : N * k >= 0
        /\ q - 2 \in Int /\ -1 - q \in Int
    BY <1>1, <1>2
  <2>2. q >= 2 => N * q = N * (q - 2) + 2 * N
    BY <1>1, <1>2
  <2>3. q <= -1 => N * q = -N - N * (-1 - q)
    BY <1>1, <1>2
  <2>4. CASE q >= 2
    <3>1. q - 2 \in Nat
      BY <1>2, <2>4
    <3> DEFINE k == q - 2
    <3>2. N * k \in Int /\ N * k >= 0 /\ N * q = N * k + 2 * N
      BY <1>1, <2>1, <2>2, <2>4, <3>1
    <3> HIDE DEF k
    <3>3. QED
      BY <1>1, <2>1, <2>4, <3>2
  <2>5. CASE q <= -1
    <3>1. -1 - q \in Nat
      BY <1>2, <2>5
    <3> DEFINE k == -1 - q
    <3>2. N * k \in Int /\ N * k >= 0 /\ N * q = -N - N * k
      BY <1>1, <2>1, <2>3, <2>5, <3>1
    <3> HIDE DEF k
    <3>3. QED
      BY <1>1, <2>1, <2>5, <3>2
  <2>6. QED
    BY <1>2, <2>1, <2>4, <2>5
<1>4. (q = 0 => N * q = 0) /\ (q = 1 => N * q = N)
  BY <1>1, <1>2
<1> HIDE DEF q, m
<1>5. q \in {0, 1}
  BY <1>1, <1>2, <1>3
<1>6. m = IF x < N THEN x ELSE x - N
  BY <1>1, <1>2, <1>4, <1>5
<1>7. QED
  BY <1>6 DEF m

\* The same, in order: how many there are, where the i-th is, and its block.
Count(r, p) == IF r <= p THEN p - r ELSE p + DATA_NODE_MAX - r

Place(r, i) == IF r + i - 1 < DATA_NODE_MAX THEN r + i - 1
                                            ELSE r + i - 1 - DATA_NODE_MAX

NodesOf(dl, r, p) == [i \in 1 .. Count(r, p) |-> dl[Place(r, i)]]

\* Places run through the nodes in use, once each.
LEMMA PlaceFacts ==
  ASSUME NEW r \in Index, NEW p \in Index
  PROVE  /\ Count(r, p) \in 0 .. DATA_NODE_MAX - 1
         /\ \A i \in 1 .. Count(r, p) : Place(r, i) \in Between(r, p)
         /\ \A i, j \in 1 .. Count(r, p) : Place(r, i) = Place(r, j) => i = j
         /\ \A k \in Between(r, p) :
              \E i \in 1 .. Count(r, p) : Place(r, i) = k
<1>1. /\ DATA_NODE_MAX \in Nat /\ DATA_NODE_MAX >= 2
      /\ r \in 0 .. DATA_NODE_MAX - 1 /\ p \in 0 .. DATA_NODE_MAX - 1
  BY NodeAssumption DEF Index
<1>2. /\ Count(r, p) \in 0 .. DATA_NODE_MAX - 1
      /\ \A i \in 1 .. Count(r, p) : Place(r, i) \in Between(r, p)
      /\ \A i, j \in 1 .. Count(r, p) : Place(r, i) = Place(r, j) => i = j
  BY <1>1 DEF Count, Place, Between, Index
<1>3. ASSUME NEW k \in Between(r, p)
      PROVE  \E i \in 1 .. Count(r, p) : Place(r, i) = k
  <2> DEFINE i == IF r <= k THEN k - r + 1 ELSE k + DATA_NODE_MAX - r + 1
  <2>1. i \in 1 .. Count(r, p) /\ Place(r, i) = k
    BY <1>1 DEF Count, Place, Between, Index
  <2>2. QED
    BY <2>1
<1>4. QED
  BY <1>2, <1>3

\* The remainders in Nodes, resolved.
LEMMA NodesResolved ==
  ASSUME NEW dl, NEW r \in Index, NEW p \in Index
  PROVE  [i \in 1 .. (p + DATA_NODE_MAX - r) % DATA_NODE_MAX |->
            dl[(r + i - 1) % DATA_NODE_MAX]] = NodesOf(dl, r, p)
<1> DEFINE N == DATA_NODE_MAX
           n == (p + N - r) % N
           at(i) == (r + i - 1) % N
           back(x) == IF x < N THEN x ELSE x - N
<1>1. N \in Nat /\ N >= 2 /\ r \in 0 .. N - 1 /\ p \in 0 .. N - 1
  BY NodeAssumption DEF Index
<1>2. n = Count(r, p)
  <2>1. p + N - r \in 0 .. 2 * N - 1
    BY <1>1
  <2>2. QED
    BY <1>1, <2>1, OnceRound DEF Count
<1>3. \A i \in 1 .. n : at(i) = back(r + i - 1)
  <2>1. \A x \in 0 .. 2 * N - 1 : x % N = back(x)
    BY OnceRound
  <2> HIDE DEF n, back
  <2>2. \A i \in 1 .. n : r + i - 1 \in 0 .. 2 * N - 1
    BY <1>1, <1>2 DEF Count
  <2>3. QED
    BY <2>1, <2>2, Zenon DEF at
<1>4. \A i \in 1 .. n : at(i) = Place(r, i)
  <2>1. n \in Nat
    BY <1>2, PlaceFacts
  <2> HIDE DEF n, at
  <2>2. \A i \in 1 .. n : Place(r, i) = back(r + i - 1)
    BY <1>1, <2>1 DEF Place
  <2> HIDE DEF back
  <2>3. QED
    BY <1>3, <2>2
<1> HIDE DEF n, at
<1>5. [i \in 1 .. n |-> dl[at(i)]] = NodesOf(dl, r, p)
  BY <1>2, <1>4 DEF NodesOf
<1>6. QED
  BY <1>5, Zenon DEF n, at

\* Nodes are the blocks of the nodes in use, in this state and in the next.
LEMMA NodesAre ==
  /\ TypeOK => Nodes = NodesOf(data_list, read_index, put_index)
  /\ TypeOK' => Nodes' = NodesOf(data_list', read_index', put_index')
<1>1. ASSUME TypeOK
      PROVE  Nodes = NodesOf(data_list, read_index, put_index)
  <2>1. read_index \in Index /\ put_index \in Index
    BY <1>1 DEF TypeOK
  <2>2. QED
    BY <2>1, NodesResolved DEF Nodes
<1>2. ASSUME TypeOK'
      PROVE  Nodes' = NodesOf(data_list', read_index', put_index')
  <2>1. read_index' \in Index /\ put_index' \in Index
    BY <1>2 DEF TypeOK
  <2>2. QED
    BY <2>1, NodesResolved DEF Nodes
<1>3. QED
  BY <1>1, <1>2

\* The sequence of blocks in use has the blocks of the nodes in use.
LEMMA NodesOnce ==
  ASSUME TypeOK,
         \A i, j \in Between(read_index, put_index) :
           data_list[i] = data_list[j] => i = j
  PROVE  /\ Nodes \in Seq(Block \cup {NoBlock})
         /\ Range(Nodes)
              = {data_list[i] : i \in Between(read_index, put_index)}
         /\ Once(Nodes)
         /\ read_index # put_index => ToRemove = Nodes
<1> DEFINE r == read_index
           p == put_index
           n == Count(r, p)
<1>1. /\ r \in Index /\ p \in Index
      /\ data_list \in [Index -> Block \cup {NoBlock}]
  BY DEF TypeOK
<1>2. /\ n \in Nat
      /\ \A i \in 1 .. n : Place(r, i) \in Between(r, p)
      /\ \A i, j \in 1 .. n : Place(r, i) = Place(r, j) => i = j
      /\ \A k \in Between(r, p) : \E i \in 1 .. n : Place(r, i) = k
  BY <1>1, PlaceFacts
<1> HIDE DEF n
<1>3. Nodes = [i \in 1 .. n |-> data_list[Place(r, i)]]
  BY NodesAre DEF NodesOf, n
<1>4. /\ Nodes \in [1 .. n -> Block \cup {NoBlock}]
      /\ DOMAIN Nodes = 1 .. n
      /\ \A i \in 1 .. n : Nodes[i] = data_list[Place(r, i)]
  BY <1>1, <1>2, <1>3 DEF Between
<1>5. Nodes \in Seq(Block \cup {NoBlock})
  BY <1>2, <1>4, SeqDef
<1>6. Range(Nodes) = {data_list[i] : i \in Between(r, p)}
  BY <1>2, <1>4 DEF Range
<1>7. Once(Nodes)
  BY <1>2, <1>4 DEF Once
<1>8. r # p => ToRemove = Nodes
  BY DEF ToRemove, Nodes
<1>9. QED
  BY <1>5, <1>6, <1>7, <1>8

-----------------------------------------------------------------------------
(* One holder of each block, where the pool is smaller than the ring.      *)

InHand == {"decode", "rate", "send rate", "write", "store"}

\* The blocks written and not yet given back.
NodeBlocks == {data_list[i] : i \in Between(read_index, put_index)}

\* A block is free, in a node of its own, or in the player's hands; a close
\* that goes on removes at least one node.
HoldInv ==
  ~ halted =>
    /\ Once(block_list)
    /\ Range(block_list) \subseteq Block
    /\ \A i, j \in Between(read_index, put_index) :
         data_list[i] = data_list[j] => i = j
    /\ NodeBlocks \subseteq Block \ Range(block_list)
    /\ buffer \notin Range(block_list) \cup NodeBlocks
    /\ IF player \in InHand THEN buffer \in Block ELSE buffer = NoBlock
    /\ Block \subseteq Range(block_list) \cup NodeBlocks \cup {buffer}
    /\ player \in {"stopping"} \cup Closing => read_index # put_index

\* At the start every block is free.
LEMMA HoldInit == Init => HoldInv
<1> SUFFICES ASSUME Init PROVE HoldInv
  OBVIOUS
<1> DEFINE D == 1 .. Cardinality(Block)
<1>1. Cardinality(Block) \in Nat
  BY BlockAssumption, FS_CardinalityType
<1>2. /\ block_list \in [D -> Block]
      /\ \A i, j \in D : i # j => block_list[i] # block_list[j]
  BY DEF Init, SetToSeqs
<1>3. IsFiniteSet(D) /\ Cardinality(D) = Cardinality(Block)
  BY <1>1, FS_Interval
<1>4. block_list \in Injection(D, Block)
  BY <1>2 DEF Injection, IsInjective
<1>5. block_list \in Surjection(D, Block)
  BY <1>3, <1>4, BlockAssumption, FS_Injection
<1>6. Range(block_list) = Block
  BY <1>2, <1>5 DEF Surjection, Range
<1>7. Once(block_list)
  BY <1>2 DEF Once
<1>8. read_index \in Index /\ put_index \in Index /\ read_index = put_index
  BY TypeInit DEF Init, TypeOK
<1>9. Between(read_index, put_index) = {}
  BY <1>8, BetweenFacts
<1>10. buffer = NoBlock /\ player = "idle"
  BY DEF Init
<1>11. QED
  BY <1>6, <1>7, <1>9, <1>10, BlockAssumption
     DEF HoldInv, NodeBlocks, InHand, Closing

\* A full ring and a block in hand are more blocks than a smaller pool has.
LEMMA NeverFull ==
  ASSUME Cardinality(Block) < DATA_NODE_MAX,
         TypeOK, HoldInv, ~ halted, player \in InHand
  PROVE  ~ Full
<1> SUFFICES ASSUME Full PROVE FALSE
  OBVIOUS
<1>1. /\ read_index \in Index /\ put_index \in Index
      /\ data_list \in [Index -> Block \cup {NoBlock}]
  BY DEF TypeOK
<1>2. Between(read_index, put_index) = Index \ {put_index}
  BY <1>1, BetweenFacts DEF Full
<1> DEFINE f == [i \in Index |-> IF i = put_index THEN buffer
                                                  ELSE data_list[i]]
<1>3. f \in [Index -> Block]
  BY <1>1, <1>2 DEF HoldInv, NodeBlocks
<1>4. IsFiniteSet(Index) /\ Cardinality(Index) = DATA_NODE_MAX
  BY NodeAssumption, FS_Interval DEF Index
<1>5. \A i, j \in Index : i # j => f[i] # f[j]
  BY <1>1, <1>2 DEF HoldInv, NodeBlocks
<1> HIDE DEF f
<1>6. \E i, j \in Index : i # j /\ f[i] = f[j]
  BY <1>3, <1>4, BlockAssumption, FS_PigeonHole
<1>7. QED
  BY <1>5, <1>6

\* Every step moves a block from one place to another.
LEMMA HoldStep ==
  ASSUME ContextCheck \/ "close" \notin Windows,
         Cardinality(Block) < DATA_NODE_MAX
  PROVE  TypeOK /\ HeadInv /\ HoldInv /\ [Next]_vars => HoldInv'
<1> SUFFICES ASSUME TypeOK, HeadInv, HoldInv, [Next]_vars, ~ halted'
             PROVE  HoldInv'
  BY DEF HoldInv
<1> DEFINE B == Block \cup {NoBlock}
<1>1. /\ read_index \in Index /\ put_index \in Index
      /\ data_list \in [Index -> B] /\ block_list \in Seq(B)
      /\ buffer \in B /\ NoBlock \notin Block
  BY BlockAssumption DEF TypeOK
<1>2. ~ halted
  BY DEF Next, Player, At, vars, Open, WaitForBlock, codec_close, sbuf_alloc,
         WokenWithBlock, TakeBlock, DecodeNothing, sample_rate, StoreRate,
         SendRate, codec_write, StoreBlock, StopTransfer, SendStop,
         RemoveNodes, codec_dma_isr, OtherTakes, OtherReleases
<1> USE DEF At, ring, clock, bus
<1>3. ASSUME UNCHANGED <<ring, block_list, buffer, halted>>,
             player' \in InHand <=> player \in InHand,
             player' \in {"stopping"} \cup Closing
               => player \in {"stopping"} \cup Closing \/ (MS /\ player = "run")
      PROVE  HoldInv'
  <2>1. MS /\ player = "run" => read_index # put_index
    BY <1>1 DEF HeadInv, MasterSpare
  <2>2. QED
    BY <1>2, <1>3, <2>1 DEF HoldInv, NodeBlocks
<1>4. CASE Open \/ WaitForBlock \/ codec_close
  BY <1>3, <1>4 DEF Open, WaitForBlock, codec_close, InHand, Closing
<1>5. CASE sample_rate \/ StoreRate \/ SendRate
  BY <1>3, <1>5 DEF sample_rate, StoreRate, SendRate, InHand, Closing
<1>6. CASE StopTransfer \/ SendStop
  BY <1>3, <1>6 DEF StopTransfer, SendStop, InHand, Closing
<1>7. CASE OtherTakes \/ OtherReleases \/ UNCHANGED vars
  BY <1>3, <1>7 DEF OtherTakes, OtherReleases, vars
<1>8. CASE sbuf_alloc \/ WokenWithBlock
  <2>1. /\ block_list # <<>> /\ player \notin InHand
        /\ buffer' = Head(block_list) /\ block_list' = Tail(block_list)
        /\ player' = "decode" /\ UNCHANGED ring
    BY <1>8 DEF sbuf_alloc, WokenWithBlock, TakeBlock, InHand
  <2>2. /\ Range(block_list) = {buffer'} \cup Range(block_list')
        /\ buffer' \notin Range(block_list') /\ Once(block_list')
    BY <1>1, <1>2, <2>1, HeadOnce DEF HoldInv
  <2>3. NodeBlocks' = NodeBlocks /\ buffer = NoBlock /\ Once(block_list')
    BY <1>2, <2>1, <2>2 DEF HoldInv, NodeBlocks
  <2>4. \A i, j \in Between(read_index', put_index') :
          data_list'[i] = data_list'[j] => i = j
    BY <1>2, <2>1 DEF HoldInv
  <2>5. /\ Range(block_list') \subseteq Block /\ buffer' \in Block
        /\ NodeBlocks' \subseteq Block \ Range(block_list')
        /\ buffer' \notin Range(block_list') \cup NodeBlocks'
        /\ Block \subseteq Range(block_list') \cup NodeBlocks' \cup {buffer'}
    BY <1>1, <1>2, <2>2, <2>3 DEF HoldInv
  <2>6. QED
    BY <2>1, <2>3, <2>4, <2>5 DEF HoldInv, InHand, Closing
<1>9. CASE DecodeNothing
  <2>1. /\ player = "decode" /\ block_list' = <<buffer>> \o block_list
        /\ buffer' = NoBlock /\ player' = "run" /\ UNCHANGED ring
    BY <1>9 DEF DecodeNothing, GiveBack
  <2>2. /\ Range(block_list') = {buffer} \cup Range(block_list)
        /\ Once(block_list')
    BY <1>1, <1>2, <2>1, ConsOnce DEF HoldInv
  <2>3. QED
    BY <1>1, <1>2, <2>1, <2>2 DEF HoldInv, NodeBlocks, InHand, Closing
<1>10. CASE codec_write
  <2>1. player \in InHand /\ ~ Full
    BY <1>2, <1>10, NeverFull DEF codec_write, InHand
  <2>2. /\ player' = "store"
        /\ UNCHANGED <<ring, block_list, buffer, halted>>
    BY <1>10, <2>1 DEF codec_write
  <2>3. QED
    BY <1>3, <2>1, <2>2 DEF InHand, Closing
<1>11. CASE StoreBlock
  <2>1. /\ player = "store" /\ player' = "run" /\ buffer' = NoBlock
        /\ data_list' = [data_list EXCEPT ![put_index] = buffer]
        /\ put_index' = NextIndex(put_index)
        /\ UNCHANGED <<read_index, block_list>>
    BY <1>11 DEF StoreBlock
  <2>2. NextIndex(put_index) # read_index
    BY <2>1 DEF HeadInv, RoomKept, Full
  <2>3. /\ put_index \notin Between(read_index, put_index)
        /\ Between(read_index, put_index')
             = Between(read_index, put_index) \cup {put_index}
    BY <1>1, <2>1, <2>2, BetweenFacts
  <2>4. /\ data_list'[put_index] = buffer
        /\ \A i \in Between(read_index, put_index) :
             data_list'[i] = data_list[i]
    BY <1>1, <2>1, <2>3 DEF Between
  <2>5. NodeBlocks' = NodeBlocks \cup {buffer}
    BY <2>1, <2>3, <2>4 DEF NodeBlocks
  <2>6. \A i, j \in Between(read_index, put_index') :
          data_list'[i] = data_list'[j] => i = j
    BY <1>2, <2>3, <2>4 DEF HoldInv, NodeBlocks
  <2>7. buffer \in Block
    BY <1>2, <2>1 DEF HoldInv, InHand
  <2>8. QED
    BY <1>1, <1>2, <2>1, <2>5, <2>6, <2>7 DEF HoldInv, InHand, Closing
<1>12. CASE RemoveNodes
  <2>1. /\ player = "remove" /\ player' = "idle"
        /\ block_list' = Reverse(ToRemove) \o block_list
        /\ read_index' = put_index
        /\ UNCHANGED <<data_list, put_index, buffer>>
    BY <1>12 DEF RemoveNodes
  <2>2. read_index # put_index
    BY <1>2, <2>1 DEF HoldInv, Closing
  <2>3. /\ ToRemove \in Seq(B) /\ Range(ToRemove) = NodeBlocks
        /\ Once(ToRemove)
    BY <1>2, <2>2, NodesOnce DEF HoldInv, NodeBlocks
  <2> DEFINE back == Reverse(ToRemove)
  <2>4. back \in Seq(B) /\ Range(back) = NodeBlocks /\ Once(back)
    BY <2>3, ReverseOnce
  <2> HIDE DEF back
  <2>5. /\ Range(back \o block_list) = NodeBlocks \cup Range(block_list)
        /\ Once(back \o block_list)
    <3>1. NodeBlocks \cap Range(block_list) = {} /\ Once(block_list)
      BY <1>2 DEF HoldInv
    <3>2. QED
      BY <1>1, <2>4, <3>1, ConcatOnce
  <2>6. Between(read_index', put_index') = {}
    BY <1>1, <2>1, BetweenFacts
  <2>7. block_list' = back \o block_list
    BY <2>1 DEF back
  <2>8. NodeBlocks' = {}
    BY <2>6 DEF NodeBlocks
  <2>9. QED
    BY <1>1, <1>2, <2>1, <2>5, <2>6, <2>7, <2>8 DEF HoldInv, InHand, Closing
<1>13. CASE codec_dma_isr
  <2>1. player \notin Closing /\ read_index # put_index /\ MS
    BY <1>13 DEF codec_dma_isr, HeadInv, PlaysHead, ClosingQuiet, PortMaster
  <2>2. /\ read_index' = NextIndex(read_index)
        /\ block_list' = <<data_list[read_index]>> \o block_list
        /\ UNCHANGED <<data_list, put_index, buffer, player>>
    BY <1>13 DEF codec_dma_isr, Done
  <2> DEFINE b == data_list[read_index]
  <2>3. /\ read_index \in Between(read_index, put_index)
        /\ Between(read_index', put_index')
             = Between(read_index, put_index) \ {read_index}
    BY <1>1, <2>1, <2>2, BetweenFacts
  <2>4. /\ b \in NodeBlocks /\ b \in Block /\ b \notin Range(block_list)
        /\ NodeBlocks' = NodeBlocks \ {b}
    BY <1>2, <2>2, <2>3 DEF HoldInv, NodeBlocks
  <2> HIDE DEF b
  <2>5. /\ Range(<<b>> \o block_list) = {b} \cup Range(block_list)
        /\ Once(<<b>> \o block_list)
    BY <1>1, <1>2, <2>4, ConsOnce DEF HoldInv
  <2>6. block_list' = <<b>> \o block_list
    BY <2>2 DEF b
  <2>7. \A i, j \in Between(read_index', put_index') :
          data_list'[i] = data_list'[j] => i = j
    BY <1>2, <2>2, <2>3 DEF HoldInv
  <2>8. player = "stopping" => read_index' # put_index'
    BY <1>2, <1>13, <2>1, <2>2 DEF codec_dma_isr, IsLast
  <2>9. QED
    BY <1>1, <1>2, <2>1, <2>2, <2>4, <2>5, <2>6, <2>7, <2>8
       DEF HoldInv, InHand, Closing
<1>14. QED
  BY <1>4, <1>5, <1>6, <1>7, <1>8, <1>9, <1>10, <1>11, <1>12, <1>13
     DEF Next, Player

\* The places, said as one sequence.
LEMMA HoldOnce == TypeOK /\ HoldInv => OneHolder
<1> SUFFICES ASSUME TypeOK, HoldInv, ~ halted PROVE OneHolder
  BY DEF OneHolder
<1> DEFINE B == Block \cup {NoBlock}
           hand == IF buffer = NoBlock THEN <<>> ELSE <<buffer>>
           front == block_list \o Nodes
           held == front \o hand
<1>1. block_list \in Seq(B) /\ buffer \in B /\ NoBlock \notin Block
  BY BlockAssumption DEF TypeOK
<1>2. Nodes \in Seq(B) /\ Range(Nodes) = NodeBlocks /\ Once(Nodes)
  BY NodesOnce DEF HoldInv, NodeBlocks
<1>3. /\ hand \in Seq(B) /\ Once(hand)
      /\ Range(hand) = IF buffer = NoBlock THEN {} ELSE {buffer}
  <2>1. CASE buffer = NoBlock
    <3>1. hand = <<>> /\ <<>> \in Seq(B) /\ DOMAIN <<>> = 1 .. 0
      BY <2>1, EmptySeq, LenProperties
    <3>2. QED
      BY <2>1, <3>1 DEF Once, Range
  <2>2. CASE buffer # NoBlock
    BY <1>1, <2>2, SingleOnce
  <2>3. QED
    BY <2>1, <2>2
<1> HIDE DEF hand
<1>4. /\ Once(block_list) /\ Range(block_list) \subseteq Block
      /\ NodeBlocks \subseteq Block \ Range(block_list)
      /\ buffer \notin Range(block_list) \cup NodeBlocks
      /\ buffer \in Block \/ buffer = NoBlock
      /\ Block \subseteq Range(block_list) \cup NodeBlocks \cup {buffer}
  BY DEF HoldInv
<1>5. /\ front \in Seq(B) /\ Once(front)
      /\ Range(front) = Range(block_list) \cup NodeBlocks
  BY <1>1, <1>2, <1>4, ConcatOnce, ConcatProperties
<1> HIDE DEF front
<1>6. /\ Once(held)
      /\ Range(held) = Range(block_list) \cup NodeBlocks \cup Range(hand)
  BY <1>3, <1>4, <1>5, ConcatOnce
<1>7. Range(held) = Block
  BY <1>1, <1>3, <1>4, <1>6
<1>8. QED
  BY <1>6, <1>7 DEF OneHolder, Once, hand, front

(* Where no block ends inside the window of codec_close, or the kernel's   *)
(* check halts the machine when the last one ends, and the pool is smaller *)
(* than the ring, every block is free, queued or in the player's hands,    *)
(* and in one of these only.  (mp3.c:179-271, codec.c:421-438, 475-526,    *)
(* 577-637)                                                                *)
THEOREM OneHolderTheorem ==
  ASSUME ContextCheck \/ "close" \notin Windows,
         Cardinality(Block) < DATA_NODE_MAX
  PROVE  Spec => []OneHolder
<1>1. TypeOK /\ HeadInv /\ HoldInv /\ [Next]_vars => HoldInv'
  BY HoldStep
<1>2. QED
  BY TypeCorrect, HeadInit, HeadStep, HoldInit, <1>1, HoldOnce, PTL DEF Spec

\* With no block free and none in hand, one is in a node.
LEMMA WaiterHead ==
  ASSUME TypeOK, HoldInv, NoStall, Block # {}
  PROVE  WaiterPlayed
<1>1. SUFFICES ASSUME player = "alloc", block_list = <<>>, ~ halted
               PROVE  dma \in Block /\ I2SE /\ MS /\ chip
  BY DEF WaiterPlayed
<1>2. /\ buffer = NoBlock /\ NodeBlocks \subseteq Block
      /\ Block \subseteq Range(block_list) \cup NodeBlocks \cup {buffer}
  BY <1>1 DEF HoldInv, InHand
<1>3. Range(block_list) = {}
  BY <1>1, EmptySeq, LenProperties DEF Range
<1>4. PICK b \in Block : b \in NodeBlocks
  BY <1>2, <1>3, BlockAssumption
<1>5. read_index # put_index /\ read_index \in Between(read_index, put_index)
  <2>1. read_index \in Index /\ put_index \in Index
    BY DEF TypeOK
  <2>2. PICK i \in Between(read_index, put_index) : TRUE
    BY <1>4 DEF NodeBlocks
  <2>3. read_index # put_index
    BY <2>1, <2>2 DEF Between, Index
  <2>4. read_index \in Between(read_index, put_index)
    BY <2>1, <2>3 DEF Between, Index
  <2>5. QED
    BY <2>3, <2>4
<1>6. data_list[read_index] \in Block
  BY <1>2, <1>5 DEF NodeBlocks
<1>7. dma = data_list[read_index] /\ I2SE /\ MS /\ chip
  BY <1>1, <1>5 DEF NoStall, Closing
<1>8. QED
  BY <1>6, <1>7

(* Outside both windows, or with the kernel's check, and with a pool that  *)
(* is not empty and smaller than the ring, the decoder never waits for a   *)
(* block while the path is silent: a block is being sent and the clock     *)
(* runs.  (netbuffer.c:25-39, codec.c:475-526, 577-637)                    *)
THEOREM WaiterPlayedTheorem ==
  ASSUME ContextCheck \/ "rate" \notin Windows,
         ContextCheck \/ "close" \notin Windows,
         Block # {}, Cardinality(Block) < DATA_NODE_MAX
  PROVE  Spec => []WaiterPlayed
<1>1. TypeOK /\ HeadInv /\ HoldInv /\ [Next]_vars => HoldInv'
  BY HoldStep
<1>2. Spec => []HoldInv
  BY TypeCorrect, HeadInit, HeadStep, HoldInit, <1>1, PTL DEF Spec
<1>3. TypeOK /\ HoldInv /\ NoStall => WaiterPlayed
  BY WaiterHead
<1>4. Spec => []NoStall
  BY NoStallTheorem
<1>5. QED
  BY TypeCorrect, <1>2, <1>3, <1>4, PTL

-----------------------------------------------------------------------------
(* Blocks are played in the order they are written.                        *)

\* A block written is the last one.
LEMMA NodesAppend ==
  ASSUME NEW S, NEW dl \in [Index -> S], NEW r \in Index, NEW p \in Index,
         NEW x \in S, NextIndex(p) # r
  PROVE  NodesOf([dl EXCEPT ![p] = x], r, NextIndex(p))
           = Append(NodesOf(dl, r, p), x)
<1> DEFINE n == Count(r, p)
           s == NodesOf(dl, r, p)
           t == NodesOf([dl EXCEPT ![p] = x], r, NextIndex(p))
<1>1. /\ n \in Nat /\ Count(r, NextIndex(p)) = n + 1
      /\ Place(r, n + 1) = p
      /\ \A i \in 1 .. n : Place(r, i) \in Index /\ Place(r, i) # p
  BY NodeAssumption DEF Count, Place, NextIndex, Index
<1> HIDE DEF n
<1>2. s \in [1 .. n -> S] /\ \A i \in 1 .. n : s[i] = dl[Place(r, i)]
  BY <1>1 DEF NodesOf, n
<1>3. s \in Seq(S) /\ Len(s) = n
  BY <1>1, <1>2, SeqDef, LenProperties
<1>4. /\ t \in [1 .. n + 1 -> S] /\ t[n + 1] = x
      /\ \A i \in 1 .. n : t[i] = dl[Place(r, i)]
  <2> DEFINE e == [dl EXCEPT ![p] = x]
  <2>1. e[p] = x /\ \A i \in 1 .. n : e[Place(r, i)] = dl[Place(r, i)]
    BY <1>1
  <2>2. \A i \in 1 .. n + 1 : i \in 1 .. n \/ i = n + 1
    BY <1>1
  <2>3. \A i \in 1 .. n + 1 : e[Place(r, i)] \in S
    BY <1>1, <2>1, <2>2
  <2> HIDE DEF e
  <2>4. t = [i \in 1 .. n + 1 |-> e[Place(r, i)]]
    BY <1>1 DEF NodesOf, e
  <2>5. n + 1 \in 1 .. n + 1 /\ \A i \in 1 .. n : i \in 1 .. n + 1
    BY <1>1
  <2>6. QED
    BY <1>1, <2>1, <2>3, <2>4, <2>5
<1> HIDE DEF s, t
<1>5. t \in Seq(S) /\ Len(t) = n + 1
  <2>1. n + 1 \in Nat
    BY <1>1
  <2>2. QED
    BY <1>4, <2>1, SeqDef, LenProperties
<1>6. /\ Append(s, x) \in Seq(S) /\ Len(Append(s, x)) = n + 1
      /\ Append(s, x)[n + 1] = x
      /\ \A i \in 1 .. n : Append(s, x)[i] = s[i]
  BY <1>3, AppendProperties
<1>7. \A i \in 1 .. Len(t) : t[i] = Append(s, x)[i]
  BY <1>1, <1>2, <1>4, <1>5, <1>6
<1>8. t = Append(s, x)
  BY <1>5, <1>6, <1>7, SeqEqual
<1>9. QED
  BY <1>8 DEF s, t

\* A block played is the first one.
LEMMA NodesTail ==
  ASSUME NEW S, NEW dl \in [Index -> S], NEW r \in Index, NEW p \in Index,
         r # p
  PROVE  /\ NodesOf(dl, r, p) # <<>>
         /\ Head(NodesOf(dl, r, p)) = dl[r]
         /\ NodesOf(dl, NextIndex(r), p) = Tail(NodesOf(dl, r, p))
         /\ NodesOf(dl, r, p) = <<dl[r]>> \o NodesOf(dl, NextIndex(r), p)
<1> DEFINE n == Count(r, p)
           s == NodesOf(dl, r, p)
           t == NodesOf(dl, NextIndex(r), p)
<1>1. /\ n \in Nat \ {0} /\ Count(NextIndex(r), p) = n - 1
      /\ Place(r, 1) = r
      /\ \A i \in 1 .. n : Place(r, i) \in Index
      /\ \A i \in 1 .. n - 1 : Place(NextIndex(r), i) = Place(r, i + 1)
  BY NodeAssumption DEF Count, Place, NextIndex, Index
<1> HIDE DEF n
<1>2. s \in [1 .. n -> S] /\ \A i \in 1 .. n : s[i] = dl[Place(r, i)]
  BY <1>1 DEF NodesOf, n
<1>3. s \in Seq(S) /\ Len(s) = n
  BY <1>1, <1>2, SeqDef, LenProperties
<1>4. \A i \in 1 .. n - 1 : i + 1 \in 1 .. n
  BY <1>1
<1>5. t = [i \in 1 .. n - 1 |-> dl[Place(r, i + 1)]]
  BY <1>1 DEF NodesOf
<1>6. /\ t \in [1 .. n - 1 -> S]
      /\ \A i \in 1 .. n - 1 : t[i] = s[i + 1]
  BY <1>1, <1>2, <1>4, <1>5
<1>7. t \in Seq(S) /\ Len(t) = n - 1
  BY <1>1, <1>6, SeqDef, LenProperties
<1> HIDE DEF s, t
<1>8. s # <<>>
  BY <1>1, <1>3, EmptySeq
<1>9. /\ Head(s) = s[1] /\ Tail(s) \in Seq(S) /\ Len(Tail(s)) = n - 1
      /\ \A i \in 1 .. n - 1 : Tail(s)[i] = s[i + 1]
  BY <1>1, <1>3, <1>8, HeadTailProperties
<1>10. \A i \in 1 .. Len(t) : t[i] = Tail(s)[i]
  BY <1>6, <1>7, <1>9
<1>11. t = Tail(s)
  BY <1>7, <1>9, <1>10, SeqEqual
<1>12. Head(s) = dl[r]
  BY <1>1, <1>2, <1>9
<1>13. s = <<dl[r]>> \o t
  <2>1. s = <<Head(s)>> \o Tail(s)
    BY <1>3, <1>8
  <2>2. QED
    BY <1>11, <1>12, <2>1
<1>14. QED
  BY <1>8, <1>11, <1>12, <1>13 DEF s, t

\* A halted machine does nothing.
LEMMA HaltedStays == halted /\ [Next]_vars => UNCHANGED vars
BY DEF Next, Player, At, Open, WaitForBlock, codec_close, sbuf_alloc,
       WokenWithBlock, TakeBlock, DecodeNothing, sample_rate, StoreRate,
       SendRate, codec_write, StoreBlock, StopTransfer, SendStop,
       RemoveNodes, codec_dma_isr, OtherTakes, OtherReleases

\* The path starts with every block free.
LEMMA PlayoutInit == Init => Queue!Init
<1> SUFFICES ASSUME Init PROVE Queue!Init
  OBVIOUS
<1>1. TypeOK /\ HoldInv /\ ~ halted
  BY TypeInit, HoldInit DEF Init
<1>2. read_index = put_index /\ read_index \in Index
  BY <1>1 DEF Init, TypeOK
<1>3. Between(read_index, put_index) = {} /\ Count(read_index, put_index) = 0
  BY <1>2, BetweenFacts, NodeAssumption DEF Count, Index
<1>4. Nodes = <<>>
  <2>1. Nodes = NodesOf(data_list, read_index, put_index)
    BY <1>1, NodesAre
  <2>2. DOMAIN Nodes = {} /\ Nodes \in Seq(Block \cup {NoBlock})
    BY <1>1, <1>3, <2>1, NodesOnce DEF NodesOf
  <2>3. QED
    BY <2>2, EmptySeq, LenProperties
<1>5. Range(block_list) = Block /\ buffer = NoBlock
  <2>1. player = "idle"
    BY DEF Init
  <2>2. QED
    BY <1>1, <1>3, <2>1, BlockAssumption DEF HoldInv, NodeBlocks, InHand
<1>6. Written = <<>>
  BY <1>1, <1>4 DEF Written
<1>7. QED
  BY <1>5, <1>6 DEF Queue!Init

\* The block that StoreBlock stores is the last one.
LEMMA StoreNodes ==
  ASSUME TypeOK, NextIndex(put_index) # read_index
  PROVE  NodesOf([data_list EXCEPT ![put_index] = buffer], read_index,
                 NextIndex(put_index))
           = Append(NodesOf(data_list, read_index, put_index), buffer)
<1> DEFINE B == Block \cup {NoBlock}
<1>1. /\ data_list \in [Index -> B] /\ buffer \in B
      /\ read_index \in Index /\ put_index \in Index
  BY DEF TypeOK
<1> HIDE DEF B
<1>2. QED
  BY <1>1, NodesAppend, ZenonT(40)

\* The interrupt that halts the machine has moved read_index past the last
\* block.
LEMMA HaltStep ==
  ASSUME TypeOK, TypeOK', HeadInv, ~ halted, halted', [Next]_vars
  PROVE  UNCHANGED <<Range(block_list), buffer, Written>>
<1> DEFINE B == Block \cup {NoBlock}
           N == DATA_NODE_MAX
           last == data_list[read_index]
<1>1. codec_dma_isr
  BY DEF Next, Player, At, vars, Open, WaitForBlock, codec_close, sbuf_alloc,
         WokenWithBlock, TakeBlock, DecodeNothing, sample_rate, StoreRate,
         SendRate, codec_write, StoreBlock, StopTransfer, SendStop,
         RemoveNodes, OtherTakes, OtherReleases
<1>2. MS /\ read_index # put_index
  BY <1>1 DEF codec_dma_isr, HeadInv, PortMaster, PlaysHead
<1>3. /\ read_index' = NextIndex(read_index) /\ read_index' = put_index
      /\ UNCHANGED <<data_list, put_index, buffer, block_list>>
  BY <1>1, <1>2 DEF codec_dma_isr, IsLast
<1>4. /\ read_index \in Index /\ put_index \in Index
      /\ data_list \in [Index -> B]
  BY DEF TypeOK
<1>5. (read_index' + N - 1) % N = read_index
  <2>1. /\ N \in Nat /\ N >= 2 /\ read_index \in 0 .. N - 1
        /\ read_index' = IF read_index + 1 >= N THEN 0 ELSE read_index + 1
    BY <1>3, <1>4, NodeAssumption DEF NextIndex, Index
  <2> DEFINE x == read_index' + N - 1
  <2>2. /\ x \in 0 .. 2 * N - 1
        /\ (IF x < N THEN x ELSE x - N) = read_index
    BY <2>1
  <2> HIDE DEF x
  <2>3. x % N = read_index
    BY <2>2, OnceRound
  <2>4. QED
    BY <2>3 DEF x
<1>6. Nodes = <<last>> \o Nodes'
  <2>1. /\ Nodes = NodesOf(data_list, read_index, put_index)
        /\ Nodes' = NodesOf(data_list, NextIndex(read_index), put_index)
    BY <1>3, NodesAre
  <2>2. QED
    BY <1>2, <1>4, <2>1, NodesTail
<1>7. Written = Nodes /\ Written' = <<last>> \o Nodes'
  BY <1>3, <1>5 DEF Written
<1>8. QED
  BY <1>3, <1>6, <1>7

\* Every other step is one of the abstract queue, or changes none of its
\* variables.
LEMMA PlayoutStep ==
  ASSUME Cardinality(Block) < DATA_NODE_MAX
  PROVE  /\ TypeOK /\ TypeOK' /\ HeadInv /\ HoldInv /\ HoldInv'
         /\ ~ halted /\ ~ halted' /\ [Next]_vars
         => [Queue!Next]_<<Range(block_list), buffer, Written>>
<1> SUFFICES ASSUME TypeOK, TypeOK', HeadInv, HoldInv, HoldInv', ~ halted,
                    ~ halted', [Next]_vars
             PROVE  [Queue!Next]_<<Range(block_list), buffer, Written>>
  OBVIOUS
<1> DEFINE B == Block \cup {NoBlock}
<1>1. /\ read_index \in Index /\ put_index \in Index
      /\ data_list \in [Index -> B] /\ block_list \in Seq(B)
      /\ buffer \in B /\ NoBlock \notin Block
      /\ Nodes = NodesOf(data_list, read_index, put_index)
      /\ Nodes' = NodesOf(data_list', read_index', put_index')
  BY BlockAssumption, NodesAre DEF TypeOK
<1>2. Written = Nodes /\ Written' = Nodes'
  BY DEF Written
<1> USE DEF At, ring, clock, bus
<1>3. ASSUME UNCHANGED <<ring, block_list, buffer>>
      PROVE  UNCHANGED <<Range(block_list), buffer, Written>>
  BY <1>1, <1>2, <1>3
<1>4. CASE Open \/ WaitForBlock \/ codec_close \/ sample_rate \/ StoreRate
           \/ SendRate \/ StopTransfer \/ SendStop \/ OtherTakes
           \/ OtherReleases \/ UNCHANGED vars
  <2>1. UNCHANGED <<ring, block_list, buffer>>
    BY <1>4 DEF Open, WaitForBlock, codec_close, sample_rate, StoreRate,
                SendRate, StopTransfer, SendStop, OtherTakes, OtherReleases,
                vars
  <2>2. QED
    BY <1>3, <2>1
<1>5. CASE codec_write
  <2>1. ~ Full
    BY <1>5, NeverFull DEF codec_write, InHand
  <2>2. UNCHANGED <<ring, block_list, buffer>>
    BY <1>5, <2>1 DEF codec_write
  <2>3. QED
    BY <1>3, <2>2
<1>6. CASE sbuf_alloc \/ WokenWithBlock
  <2>1. /\ block_list # <<>> /\ player \notin InHand
        /\ buffer' = Head(block_list) /\ block_list' = Tail(block_list)
        /\ UNCHANGED ring
    BY <1>6 DEF sbuf_alloc, WokenWithBlock, TakeBlock, InHand
  <2>2. /\ Range(block_list) = {buffer'} \cup Range(block_list')
        /\ buffer' \notin Range(block_list')
    BY <1>1, <2>1, HeadOnce DEF HoldInv
  <2>3. buffer = NoBlock /\ Nodes' = Nodes
    BY <1>1, <2>1 DEF HoldInv
  <2>4. Queue!Take
    BY <1>2, <2>2, <2>3 DEF Queue!Take
  <2>5. QED
    BY <2>4 DEF Queue!Next
<1>7. CASE DecodeNothing
  <2>1. /\ player = "decode" /\ block_list' = <<buffer>> \o block_list
        /\ buffer' = NoBlock /\ UNCHANGED ring
    BY <1>7 DEF DecodeNothing, GiveBack
  <2>2. Range(block_list') = {buffer} \cup Range(block_list)
    BY <1>1, <2>1, ConsOnce
  <2>3. buffer # NoBlock
    <3>1. buffer \in Block
      BY <2>1 DEF HoldInv, InHand
    <3>2. QED
      BY <3>1, BlockAssumption
  <2>4. Nodes' = Nodes
    BY <1>1, <2>1
  <2>5. Queue!Drop
    BY <1>2, <2>1, <2>2, <2>3, <2>4 DEF Queue!Drop
  <2>6. QED
    BY <2>5 DEF Queue!Next
<1>8. CASE StoreBlock
  <2>1. /\ player = "store" /\ buffer' = NoBlock
        /\ data_list' = [data_list EXCEPT ![put_index] = buffer]
        /\ put_index' = NextIndex(put_index)
        /\ UNCHANGED <<read_index, block_list>>
    BY <1>8 DEF StoreBlock
  <2>2. NextIndex(put_index) # read_index
    BY <2>1 DEF HeadInv, RoomKept, Full
  <2>3. Nodes' = Append(Nodes, buffer)
    <3>1. NodesOf([data_list EXCEPT ![put_index] = buffer], read_index,
                  NextIndex(put_index))
            = Append(NodesOf(data_list, read_index, put_index), buffer)
      BY <2>2, StoreNodes
    <3>2. Nodes' = NodesOf([data_list EXCEPT ![put_index] = buffer],
                           read_index, NextIndex(put_index))
      <4>1. Nodes' = NodesOf(data_list', read_index', put_index')
        BY <1>1
      <4>2. QED
        BY <2>1, <4>1, Zenon
    <3>3. Nodes = NodesOf(data_list, read_index, put_index)
      BY <1>1
    <3>4. QED
      BY <3>1, <3>2, <3>3, Zenon
  <2>4. buffer # NoBlock
    <3>1. buffer \in Block
      BY <2>1 DEF HoldInv, InHand
    <3>2. QED
      BY <3>1, BlockAssumption
  <2>5. Queue!Write
    BY <1>2, <2>1, <2>3, <2>4 DEF Queue!Write
  <2>6. QED
    BY <2>5 DEF Queue!Next
<1>9. CASE codec_dma_isr
  <2>1. read_index # put_index
    BY <1>9 DEF codec_dma_isr, HeadInv, PlaysHead
  <2>2. /\ read_index' = NextIndex(read_index)
        /\ block_list' = <<data_list[read_index]>> \o block_list
        /\ UNCHANGED <<data_list, put_index, buffer>>
    BY <1>9 DEF codec_dma_isr, Done
  <2>3. /\ Nodes # <<>> /\ Head(Nodes) = data_list[read_index]
        /\ Nodes' = Tail(Nodes)
    BY <1>1, <2>1, <2>2, NodesTail
  <2>4. Range(block_list') = {data_list[read_index]} \cup Range(block_list)
    BY <1>1, <2>2, ConsOnce
  <2>5. Queue!Played
    BY <1>2, <2>2, <2>3, <2>4 DEF Queue!Played
  <2>6. QED
    BY <2>5 DEF Queue!Next
<1>10. CASE RemoveNodes
  <2>1. /\ player = "remove"
        /\ block_list' = Reverse(ToRemove) \o block_list
        /\ read_index' = put_index
        /\ UNCHANGED <<data_list, put_index, buffer>>
    BY <1>10 DEF RemoveNodes
  <2>2. read_index # put_index /\ buffer = NoBlock
    BY <2>1 DEF HoldInv, Closing, InHand
  <2>3. Nodes \in Seq(B) /\ ToRemove = Nodes
    BY <2>2, NodesOnce DEF HoldInv
  <2>4. Range(block_list') = Range(Nodes) \cup Range(block_list)
    BY <1>1, <2>1, <2>3, ReverseOnce, ConcatOnce
  <2>5. Nodes' = <<>>
    <3>1. read_index' = put_index /\ put_index' = put_index
      BY <2>1
    <3>2. Count(read_index', put_index') = 0
      <4>1. put_index \in Nat
        BY <1>1, NodeAssumption DEF Index
      <4>2. Count(put_index, put_index) = 0
        BY <4>1 DEF Count
      <4>3. QED
        BY <3>1, <4>2
    <3>3. DOMAIN Nodes' = {} /\ Nodes' \in Seq(B)
      <4>1. Nodes' = [i \in 1 .. 0 |-> data_list'[Place(read_index', i)]]
        BY <1>1, <3>2 DEF NodesOf
      <4>2. Nodes' \in [1 .. 0 -> B]
        BY <4>1
      <4>3. QED
        BY <4>2, SeqDef
    <3>4. QED
      BY <3>3, EmptySeq, LenProperties
  <2>6. Queue!Close
    BY <1>2, <2>1, <2>2, <2>4, <2>5 DEF Queue!Close, Queue!Range, Range
  <2>7. QED
    BY <2>6 DEF Queue!Next
<1>11. QED
  BY <1>4, <1>5, <1>6, <1>7, <1>8, <1>9, <1>10 DEF Next, Player


(* Where no block ends inside the window of codec_close, or the kernel's   *)
(* check halts the machine when the last one ends, and the pool is smaller *)
(* than the ring, the path of the samples is the abstract queue, up to the *)
(* halt: blocks are played in the order they are written and only then     *)
(* reused.  (codec.c:421-438, 475-526, 577-637)                            *)
THEOREM PlayoutTheorem ==
  ASSUME ContextCheck \/ "close" \notin Windows,
         Cardinality(Block) < DATA_NODE_MAX
  PROVE  Spec => ImplementsPlayout
<1>1. TypeOK /\ HeadInv /\ HoldInv /\ [Next]_vars => HoldInv'
  BY HoldStep
<1>2. /\ TypeOK /\ TypeOK' /\ HeadInv /\ HoldInv /\ HoldInv' /\ [Next]_vars
      => [Queue!Next]_<<Range(block_list), buffer, Written>>
  <2> SUFFICES ASSUME TypeOK, TypeOK', HeadInv, HoldInv, HoldInv',
                      [Next]_vars
               PROVE  [Queue!Next]_<<Range(block_list), buffer, Written>>
    OBVIOUS
  <2>1. CASE halted
    <3>1. UNCHANGED vars
      BY <2>1, HaltedStays
    <3>2. UNCHANGED <<Range(block_list), buffer, Written>>
      BY <3>1 DEF vars, Written, Nodes
    <3>3. QED
      BY <3>2
  <2>2. CASE ~ halted /\ halted'
    BY <2>2, HaltStep
  <2>3. CASE ~ halted /\ ~ halted'
    BY <2>3, PlayoutStep
  <2>4. QED
    BY <2>1, <2>2, <2>3
<1>3. QED
  BY TypeCorrect, HeadInit, HeadStep, HoldInit, <1>1, PlayoutInit, <1>2, PTL
     DEF Spec, ImplementsPlayout, Queue!Spec
=============================================================================
