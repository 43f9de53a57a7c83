-------------------------- MODULE NetBufferProofs --------------------------
(* The net buffer for every size of ring, block and read that              *)
(* SizeAssumption admits: types, wake-ups, room, the ring's indices, the   *)
(* clean start of a job, the owners of the sessions, and that the ring     *)
(* implements ByteFifo.                                                    *)
EXTENDS NetBufferProps, SequenceTheorems, TLAPS

\* The marks are positive, in order, and inside the ring.
LEMMA Marks ==
  /\ ready_wm \in Nat /\ resume_wm \in Nat
  /\ 1 <= resume_wm /\ resume_wm <= ready_wm
  /\ Block <= Size /\ resume_wm + Block <= Size + 1
BY SizeAssumption DEF ready_wm, resume_wm

\* A fetched block is a sequence of one to Block bytes.
LEMMA BlockSeq ==
  ASSUME NEW b \in Blocks \cup {<<>>}
  PROVE  /\ b \in Seq(Byte) /\ Len(b) \in 0 .. Block
         /\ b \in Blocks => Len(b) >= 1
<1>1. CASE b = <<>>
  <2>1. <<>> \notin Blocks
    <3>1. ASSUME NEW n \in 1 .. Block, <<>> \in [1 .. n -> Byte]
          PROVE  FALSE
      <4>1. DOMAIN <<>> = 1 .. n
        BY <3>1
      <4>2. DOMAIN <<>> = 1 .. 0
        BY EmptySeq, LenProperties
      <4>3. QED
        BY <4>1, <4>2, SizeAssumption
    <3>2. QED
      BY <3>1 DEF Blocks
  <2>2. QED
    BY <1>1, <2>1, EmptySeq, SizeAssumption
<1>2. CASE b \in Blocks
  <2>1. PICK n \in 1 .. Block : b \in [1 .. n -> Byte]
    BY <1>2 DEF Blocks
  <2>2. b \in Seq(Byte) /\ n \in Nat
    BY <2>1, SizeAssumption, SeqDef
  <2>3. Len(b) = n
    BY <2>1, <2>2, LenProperties
  <2>4. QED
    BY <2>1, <2>2, <2>3, SizeAssumption
<1>3. QED
  BY <1>1, <1>2

\* read_index stays inside the ring.
LEMMA AdvanceReadInside ==
  ASSUME read_index \in Index, NEW n \in 0 .. Size
  PROVE  AdvanceRead(n) \in Index
BY SizeAssumption DEF AdvanceRead, Index

\* save_index stays inside the ring.
LEMMA AdvanceSaveInside ==
  ASSUME save_index \in Index, NEW n \in 0 .. Size
  PROVE  AdvanceSave(n) \in Index
BY SizeAssumption DEF AdvanceSave, Index

-----------------------------------------------------------------------------
(* Types.                                                                  *)

LEMMA TypeInit == Init => TypeOK
<1> SUFFICES ASSUME Init PROVE TypeOK
  OBVIOUS
<1>1. mq \in Seq(Session) /\ ptr \in Blocks \cup {<<>>}
  BY EmptySeq DEF Init
<1>2. is_wait_ready \in BOOLEAN /\ buffer_data \in [Index -> Byte]
  BY DEF Init
<1>3. opened \in SUBSET Session
  BY DEF Init
<1>4. QED
  BY <1>1, <1>2, <1>3, SizeAssumption DEF Init, TypeOK, Index, Stat, InJob

LEMMA TypeStep == TypeOK /\ [Next]_vars => TypeOK'
<1> SUFFICES ASSUME TypeOK, [Next]_vars PROVE TypeOK'
  OBVIOUS
<1> USE DEF ring, sems, local, Stat, InJob
<1>1. CASE Request
  BY <1>1 DEF TypeOK, Request
<1>2. CASE ConnectFailed
  BY <1>2 DEF TypeOK, ConnectFailed
<1>3. CASE CloseRefused
  BY <1>3 DEF TypeOK, CloseRefused
<1>4. CASE WaitReady
  BY <1>4 DEF TypeOK, WaitReady
<1>5. CASE DecoderEnds
  BY <1>5 DEF TypeOK, DecoderEnds
<1>6. CASE net_buf_stop_job
  BY <1>6 DEF TypeOK, net_buf_stop_job, StopResumes
<1>7. ASSUME NEW s \in Session, net_buf_start_job(s)
      PROVE  TypeOK'
  BY <1>7 DEF TypeOK, net_buf_start_job, Refuse, MayStart
<1>8. ASSUME NEW length \in 1 .. MaxRead, net_buf_read(length)
      PROVE  TypeOK'
  <2> DEFINE n == IF length > data_length THEN data_length ELSE length
  <2>1. n \in 0 .. Size /\ n <= data_length
    BY SizeAssumption DEF TypeOK
  <2>2. AdvanceRead(n) \in Index
    BY <2>1, AdvanceReadInside DEF TypeOK
  <2>3. read_index' \in Index
    BY <1>8, <2>2 DEF TypeOK, net_buf_read, CopyOut
  <2>4. data_length' \in Nat
    BY <1>8, <2>1 DEF TypeOK, net_buf_read, CopyOut
  <2>5. burst' \in 0 .. Burst
    BY <1>8, <2>1, SizeAssumption DEF TypeOK, net_buf_read, CopyOut
  <2>6. /\ stat' \in Stat /\ wait_resume' \in Nat
        /\ player' \in {"play", "ended"}
    BY <1>8 DEF TypeOK, net_buf_read, CopyOut
  <2>7. QED
    BY <1>8, <2>3, <2>4, <2>5, <2>6 DEF TypeOK, net_buf_read, CopyOut
<1>9. CASE ReceiveJob
  BY <1>9, SizeAssumption DEF TypeOK, ReceiveJob, Goto, Index
<1>10. CASE TestStopping
  BY <1>10, SizeAssumption DEF TypeOK, TestStopping, Goto
<1>11. CASE FetchBlock \/ FetchNothing
  BY <1>11, SizeAssumption DEF TypeOK, FetchBlock, FetchNothing, Goto
<1>12. CASE TestRoom
  BY <1>12, SizeAssumption DEF TypeOK, TestRoom, Goto
<1>13. CASE Suspend
  BY <1>13, SizeAssumption DEF TypeOK, Suspend, Goto
<1>14. CASE TakeResume
  BY <1>14, SizeAssumption DEF TypeOK, TakeResume, Goto
<1>15. CASE CopyIn
  <2>1. ptr \in Seq(Byte) /\ Len(ptr) \in 0 .. Size
    BY BlockSeq, Marks, SizeAssumption DEF TypeOK
  <2>2. AdvanceSave(Len(ptr)) \in Index
    BY <2>1, AdvanceSaveInside DEF TypeOK
  <2>3. ASSUME NEW i \in Index, BlockCell(i) < Len(ptr)
        PROVE  ptr[BlockCell(i) + 1] \in Byte
    <3>1. i + Size - save_index \in Nat
      BY <2>3, SizeAssumption DEF TypeOK, Index
    <3>2. BlockCell(i) \in Nat
      BY <3>1, SizeAssumption DEF BlockCell
    <3>3. QED
      BY <2>1, <2>3, <3>2, ElementOfSeq
  <2>4. buffer_data' \in [Index -> Byte]
    BY <1>15, <2>3 DEF TypeOK, CopyIn
  <2>5. QED
    BY <1>15, <2>2, <2>4, SizeAssumption DEF TypeOK, CopyIn, Goto
<1>16. CASE AddLength
  <2>1. Len(ptr) \in Nat
    BY BlockSeq, SizeAssumption DEF TypeOK
  <2>2. QED
    BY <1>16, <2>1, SizeAssumption DEF TypeOK, AddLength, Goto
<1>17. CASE NotifyReady
  <2>1. is_wait_ready' \in BOOLEAN
    BY <1>17 DEF TypeOK, NotifyReady
  <2>2. /\ player' \in {player, "woken"}
        /\ wait_ready' \in {wait_ready, wait_ready + 1}
    BY <1>17 DEF NotifyReady, ReleaseReady
  <2>3. /\ worker' \in {"top", "reset"} /\ burst' = 0
        /\ UNCHANGED <<ring, wait_resume, local, stat, mq, session, opened>>
    BY <1>17 DEF NotifyReady, Goto
  <2>4. QED
    BY <2>1, <2>2, <2>3, SizeAssumption DEF TypeOK
<1>18. CASE CloseJob
  BY <1>18, SizeAssumption DEF TypeOK, CloseJob, Goto
<1>19. CASE SetStopped
  BY <1>19, SizeAssumption DEF TypeOK, SetStopped, Goto
<1>20. CASE WakeReader
  <2>1. is_wait_ready' \in BOOLEAN
    BY <1>20 DEF TypeOK, WakeReader
  <2>2. /\ player' \in {player, "woken"}
        /\ wait_ready' \in {wait_ready, wait_ready + 1}
    BY <1>20 DEF WakeReader, ReleaseReady
  <2>3. /\ worker' \in {"top", "reset"} /\ burst' = 0
        /\ UNCHANGED <<ring, wait_resume, local, stat, mq, session, opened>>
    BY <1>20 DEF WakeReader, Goto
  <2>4. QED
    BY <2>1, <2>2, <2>3, SizeAssumption DEF TypeOK
<1>21. CASE ResetRing
  BY <1>21, SizeAssumption DEF TypeOK, ResetRing, Reset, Goto, Index
<1>22. CASE UNCHANGED vars
  BY <1>22 DEF TypeOK, vars
<1>23. QED
  BY <1>1, <1>2, <1>3, <1>4, <1>5, <1>6, <1>7, <1>8, <1>9, <1>10, <1>11,
     <1>12, <1>13, <1>14, <1>15, <1>16, <1>17, <1>18, <1>19, <1>20, <1>21,
     <1>22 DEF Next, Player, Worker

(* Every variable of the net buffer has its type in every reachable state; *)
(* the indices never leave the ring.                                       *)
THEOREM TypeCorrect == Spec => []TypeOK
<1>1. QED
  BY TypeInit, TypeStep, PTL DEF Spec

-----------------------------------------------------------------------------
(* The two semaphores.                                                     *)

WakeInv == NoLostReady /\ NoLostResume   \* NoLostWakeup

LEMMA WakeInit == Init => WakeInv
BY DEF Init, WakeInv, NoLostReady, NoLostResume

LEMMA WakeStep == TypeOK /\ WakeInv /\ [Next]_vars => WakeInv'
<1> SUFFICES ASSUME TypeOK, WakeInv, [Next]_vars PROVE WakeInv'
  OBVIOUS
<1> USE DEF sems, TypeOK, WakeInv, NoLostReady, NoLostResume
<1>1. CASE Request
  BY <1>1 DEF Request
<1>2. CASE ConnectFailed
  BY <1>2 DEF ConnectFailed
<1>3. CASE CloseRefused
  BY <1>3 DEF CloseRefused
<1>4. CASE WaitReady
  BY <1>4 DEF WaitReady
<1>5. CASE DecoderEnds
  BY <1>5 DEF DecoderEnds
<1>6. CASE net_buf_stop_job
  BY <1>6 DEF net_buf_stop_job, StopResumes
<1>7. ASSUME NEW s \in Session, net_buf_start_job(s)
      PROVE  WakeInv'
  BY <1>7 DEF net_buf_start_job, Refuse, MayStart
<1>8. ASSUME NEW length \in 1 .. MaxRead, net_buf_read(length)
      PROVE  WakeInv'
  BY <1>8 DEF net_buf_read, CopyOut, Resumes
<1>9. CASE ReceiveJob
  BY <1>9 DEF ReceiveJob, At, Goto
<1>10. CASE TestStopping
  BY <1>10 DEF TestStopping, At, Goto
<1>11. CASE FetchBlock
  BY <1>11 DEF FetchBlock, At, Goto
<1>12. CASE FetchNothing
  BY <1>12 DEF FetchNothing, At, Goto
<1>13. CASE TestRoom
  BY <1>13 DEF TestRoom, NoRoom, At, Goto
<1>14. CASE Suspend
  BY <1>14 DEF Suspend, At, Goto
<1>15. CASE TakeResume
  BY <1>15 DEF TakeResume, At, Goto
<1>16. CASE CopyIn
  BY <1>16 DEF CopyIn, At, Goto
<1>17. CASE AddLength
  BY <1>17 DEF AddLength, At, Goto
<1>18. CASE NotifyReady
  BY <1>18 DEF NotifyReady, Reached, Waits, ReleaseReady, At, Goto
<1>19. CASE CloseJob
  BY <1>19 DEF CloseJob, At, Goto
<1>20. CASE SetStopped
  BY <1>20 DEF SetStopped, At, Goto
<1>21. CASE WakeReader
  BY <1>21 DEF WakeReader, StopWakes, ReleaseReady, At, Goto
<1>22. CASE ResetRing
  BY <1>22 DEF ResetRing, Reset, At, Goto
<1>23. CASE UNCHANGED vars
  BY <1>23 DEF vars
<1>24. QED
  BY <1>1, <1>2, <1>3, <1>4, <1>5, <1>6, <1>7, <1>8, <1>9, <1>10, <1>11,
     <1>12, <1>13, <1>14, <1>15, <1>16, <1>17, <1>18, <1>19, <1>20, <1>21,
     <1>22, <1>23 DEF Next, Player, Worker

(* No wake-up is lost and none is left over: in every reachable state the  *)
(* status seen by the player and the flag seen by the worker say exactly   *)
(* who sleeps on which semaphore.                                          *)
THEOREM NoLostWakeups == Spec => []NoLostWakeup
<1>1. WakeInv => NoLostWakeup
  BY DEF WakeInv, NoLostWakeup
<1>2. QED
  BY TypeCorrect, WakeInit, WakeStep, <1>1, PTL DEF Spec

-----------------------------------------------------------------------------
(* Room in the ring.                                                       *)

RoomInv == ActiveStat /\ ResumedRoom /\ NoOverrun

\* What a step needs to know of the constants and of the block it holds.
LEMMA BlockBounds ==
  ASSUME TypeOK
  PROVE  /\ Len(ptr) \in Nat /\ Len(ptr) <= Block
         /\ Size \in Nat /\ Block \in Nat /\ data_length \in Nat
         /\ ready_wm \in Nat /\ resume_wm \in Nat /\ 1 <= resume_wm
         /\ ready_wm + Block <= Size + 1 /\ resume_wm + Block <= Size + 1
BY BlockSeq, Marks, SizeAssumption DEF TypeOK

LEMMA RoomInit == Init => RoomInv
BY SizeAssumption DEF Init, RoomInv, ActiveStat, ResumedRoom, NoOverrun, InJob

LEMMA RoomStep == TypeOK /\ WakeInv /\ RoomInv /\ [Next]_vars => RoomInv'
<1> SUFFICES ASSUME TypeOK, WakeInv, RoomInv, [Next]_vars PROVE RoomInv'
  OBVIOUS
<1> USE BlockBounds DEF ring, sems, local, InJob, WakeInv, NoLostResume,
       RoomInv, ActiveStat, ResumedRoom, NoOverrun
<1>1. CASE Request
  BY <1>1 DEF Request
<1>2. CASE ConnectFailed
  BY <1>2 DEF ConnectFailed
<1>3. CASE CloseRefused
  BY <1>3 DEF CloseRefused
<1>4. CASE WaitReady
  BY <1>4 DEF WaitReady
<1>5. CASE DecoderEnds
  BY <1>5 DEF DecoderEnds
<1>6. CASE net_buf_stop_job
  BY <1>6 DEF net_buf_stop_job, StopResumes
<1>7. ASSUME NEW s \in Session, net_buf_start_job(s)
      PROVE  RoomInv'
  BY <1>7 DEF net_buf_start_job, Refuse, MayStart
<1>8. ASSUME NEW length \in 1 .. MaxRead, net_buf_read(length)
      PROVE  RoomInv'
  <2> DEFINE n == IF length > data_length THEN data_length ELSE length
  <2>1. n \in Nat /\ n <= data_length
    OBVIOUS
  <2>2. /\ data_length' = data_length - n /\ UNCHANGED <<worker, ptr>>
        /\ \/ UNCHANGED stat
           \/ stat = "SUSPEND" /\ stat' = "BUFFERING" /\ data_length' < resume_wm
    BY <1>8 DEF net_buf_read, CopyOut, Resumes
  <2>3. QED
    BY <2>1, <2>2, SMTT(40)
<1>9. CASE ReceiveJob
  BY <1>9 DEF ReceiveJob, At, Goto
<1>10. CASE TestStopping
  BY <1>10 DEF TestStopping, At, Goto
<1>11. CASE FetchBlock
  BY <1>11 DEF FetchBlock, At, Goto
<1>12. CASE FetchNothing
  BY <1>12 DEF FetchNothing, At, Goto
<1>13. CASE TestRoom
  BY <1>13 DEF TestRoom, NoRoom, At, Goto
<1>14. CASE Suspend
  BY <1>14 DEF Suspend, At, Goto
<1>15. CASE TakeResume
  <2>1. stat \in {"BUFFERING", "STOPPING"}
    BY <1>15 DEF TakeResume, At, TypeOK, Stat
  <2>2. QED
    BY <1>15, <2>1 DEF TakeResume, At, Goto
<1>16. CASE CopyIn
  <2>1. /\ worker = "copy" /\ worker' = "add"
        /\ UNCHANGED <<data_length, ptr, stat>>
    BY <1>16 DEF CopyIn, At, Goto
  <2>2. QED
    BY <2>1
<1>17. CASE AddLength
  BY <1>17 DEF AddLength, At, Goto
<1>18. CASE NotifyReady
  BY <1>18 DEF NotifyReady, Reached, Waits, ReleaseReady, At, Goto
<1>19. CASE CloseJob
  BY <1>19 DEF CloseJob, At, Goto
<1>20. CASE SetStopped
  BY <1>20 DEF SetStopped, At, Goto
<1>21. CASE WakeReader
  BY <1>21 DEF WakeReader, StopWakes, ReleaseReady, At, Goto
<1>22. CASE ResetRing
  BY <1>22 DEF ResetRing, Reset, At, Goto
<1>23. CASE UNCHANGED vars
  BY <1>23 DEF vars
<1>24. QED
  BY <1>1, <1>2, <1>3, <1>4, <1>5, <1>6, <1>7, <1>8, <1>9, <1>10, <1>11,
     <1>12, <1>13, <1>14, <1>15, <1>16, <1>17, <1>18, <1>19, <1>20, <1>21,
     <1>22, <1>23 DEF Next, Player, Worker

(* While a job is not being stopped the worker stores only into free       *)
(* bytes of the ring, whatever the player reads in between.                *)
THEOREM NoOverrunTheorem == Spec => []NoOverrun
<1>1. RoomInv => NoOverrun
  BY DEF RoomInv
<1>2. Spec => []WakeInv
  BY TypeCorrect, WakeInit, WakeStep, PTL DEF Spec
<1>3. QED
  BY TypeCorrect, <1>2, RoomInit, RoomStep, <1>1, PTL DEF Spec

-----------------------------------------------------------------------------
(* Nobody waits for what cannot come, as long as the player's bursts are   *)
(* short.                                                                  *)

WaitInv ==
  /\ StaleBounds /\ WaitBelowMark /\ SuspendedData /\ NoMutualWait
  /\ ReadyMeansData

LEMMA WaitInit == Init => WaitInv
BY SizeAssumption DEF Init, WaitInv, StaleBounds, WaitBelowMark,
   SuspendedData, NoMutualWait, ReadyMeansData

LEMMA WaitStep ==
  ASSUME ShortBursts
  PROVE  TypeOK /\ WakeInv /\ RoomInv /\ WaitInv /\ [Next]_vars => WaitInv'
<1> SUFFICES ASSUME TypeOK, WakeInv, RoomInv, WaitInv, [Next]_vars
             PROVE  WaitInv'
  OBVIOUS
<1> USE BlockBounds DEF ring, sems, local, InJob, ShortBursts, WakeInv,
       NoLostReady, NoLostResume, WaitInv, StaleBounds, WaitBelowMark,
       SuspendedData, NoMutualWait, ReadyMeansData
<1>0. burst \in 0 .. Burst /\ Burst \in Nat /\ w_data_length \in Nat
  BY SizeAssumption DEF TypeOK
<1>1. CASE Request
  BY <1>1, <1>0 DEF Request
<1>2. CASE ConnectFailed
  BY <1>2, <1>0 DEF ConnectFailed
<1>3. CASE CloseRefused
  BY <1>3, <1>0 DEF CloseRefused
<1>4. CASE WaitReady
  BY <1>4, <1>0 DEF WaitReady
<1>5. CASE DecoderEnds
  BY <1>5, <1>0 DEF DecoderEnds
<1>6. CASE net_buf_stop_job
  BY <1>6, <1>0 DEF net_buf_stop_job, StopResumes
<1>7. ASSUME NEW s \in Session, net_buf_start_job(s)
      PROVE  WaitInv'
  BY <1>7, <1>0 DEF net_buf_start_job, Refuse, MayStart
<1>8. ASSUME NEW length \in 1 .. MaxRead, net_buf_read(length)
      PROVE  WaitInv'
  <2> DEFINE n == IF length > data_length THEN data_length ELSE length
  <2>1. n \in Nat /\ n <= data_length
    OBVIOUS
  <2>2. /\ data_length' = data_length - n
        /\ UNCHANGED <<worker, ptr, w_data_length>>
        /\ player' \in {"play", "ended"}
        /\ stat' = "SUSPEND" =>
             stat = "SUSPEND" /\ (n = 0 \/ data_length' >= resume_wm)
    BY <1>8, <2>1 DEF net_buf_read, CopyOut, Resumes
  <2>3. worker \in {"suspend", "notify"} => burst' = burst + n
    BY <1>8 DEF net_buf_read, CopyOut, Stale
  <2> HIDE DEF n
  <2>4. SuspendedData'
    BY <2>1, <2>2
  <2>5. StaleBounds'
    BY <2>1, <2>2, <2>3, <1>0, SMTT(40)
  <2>6. QED
    BY <2>2, <2>4, <2>5
<1>9. CASE ReceiveJob
  BY <1>9, <1>0 DEF ReceiveJob, At, Goto
<1>10. CASE TestStopping
  BY <1>10, <1>0 DEF TestStopping, At, Goto
<1>11. CASE FetchBlock
  BY <1>11, <1>0 DEF FetchBlock, At, Goto
<1>12. CASE FetchNothing
  BY <1>12, <1>0 DEF FetchNothing, At, Goto
<1>13. CASE TestRoom
  BY <1>13, <1>0 DEF TestRoom, NoRoom, At, Goto
<1>14. CASE Suspend
  BY <1>14, <1>0 DEF Suspend, At, Goto
<1>15. CASE TakeResume
  BY <1>15, <1>0 DEF TakeResume, At, Goto
<1>16. CASE CopyIn
  BY <1>16, <1>0 DEF CopyIn, At, Goto
<1>17. CASE AddLength
  BY <1>17, <1>0 DEF AddLength, At, Goto
<1>18. CASE NotifyReady
  BY <1>18, <1>0 DEF NotifyReady, Reached, Waits, ReleaseReady, At, Goto
<1>19. CASE CloseJob
  BY <1>19, <1>0 DEF CloseJob, At, Goto
<1>20. CASE SetStopped
  BY <1>20, <1>0 DEF SetStopped, At, Goto
<1>21. CASE WakeReader
  BY <1>21, <1>0 DEF WakeReader, StopWakes, ReleaseReady, At, Goto
<1>22. CASE ResetRing
  BY <1>22, <1>0 DEF ResetRing, Reset, At, Goto
<1>23. CASE UNCHANGED vars
  BY <1>23, <1>0 DEF vars
<1>24. QED
  BY <1>1, <1>2, <1>3, <1>4, <1>5, <1>6, <1>7, <1>8, <1>9, <1>10, <1>11,
     <1>12, <1>13, <1>14, <1>15, <1>16, <1>17, <1>18, <1>19, <1>20, <1>21,
     <1>22, <1>23 DEF Next, Player, Worker

\* With short bursts all of it is an invariant.
LEMMA Waiting ==
  ASSUME ShortBursts
  PROVE  Spec => []WaitInv
<1>1. Spec => []WakeInv
  BY TypeCorrect, WakeInit, WakeStep, PTL DEF Spec
<1>2. Spec => []RoomInv
  BY TypeCorrect, <1>1, RoomInit, RoomStep, PTL DEF Spec
<1>3. TypeOK /\ WakeInv /\ RoomInv /\ WaitInv /\ [Next]_vars => WaitInv'
  BY WaitStep
<1>4. QED
  BY TypeCorrect, <1>1, <1>2, WaitInit, <1>3, PTL DEF Spec

(* With short bursts the player and the worker never wait for each other.  *)
(* (netbuffer.c:96 against 272)                                            *)
THEOREM NoMutualWaitTheorem ==
  ASSUME ShortBursts
  PROVE  Spec => []NoMutualWait
<1>1. WaitInv => NoMutualWait
  BY DEF WaitInv
<1>2. QED
  BY Waiting, <1>1, PTL

(* With short bursts a player woken at the ready mark finds data, so its   *)
(* read does not return the 0 that ends the stream.  (netbuffer.c:309-319) *)
THEOREM ReadyMeansDataTheorem ==
  ASSUME ShortBursts
  PROVE  Spec => []ReadyMeansData
<1>1. WaitInv => ReadyMeansData
  BY DEF WaitInv
<1>2. QED
  BY Waiting, <1>1, PTL

-----------------------------------------------------------------------------
(* Arithmetic: the remainder of a sum.                                     *)

\* Quotient and remainder.
LEMMA DivMod ==
  ASSUME NEW N \in Nat \ {0}, NEW a \in Nat
  PROVE  /\ a \div N \in Int /\ a % N \in 0 .. N - 1
         /\ a = N * (a \div N) + (a % N)
OBVIOUS

\* A multiple of N other than 0 is at least N away from it.
LEMMA AtLeast ==
  ASSUME NEW N \in Nat \ {0}, NEW k \in Int
  PROVE  /\ N * k \in Int
         /\ k >= 1 => N * k >= N
         /\ k <= -1 => N * k <= -N
OBVIOUS

\* Multiplication distributes over a difference.
LEMMA Spread ==
  ASSUME NEW N \in Nat \ {0}, NEW q \in Int, NEW p \in Int
  PROVE  N * (q - p) = N * q - N * p
OBVIOUS

\* The remainder is the only number below N with which a quotient exists.
LEMMA ModUnique ==
  ASSUME NEW N \in Nat \ {0}, NEW a \in Nat, NEW q \in Int,
         NEW r \in 0 .. N - 1,
         a = N * q + r
  PROVE  a % N = r
<1> DEFINE d == a \div N
           m == a % N
<1>1. d \in Int /\ m \in 0 .. N - 1 /\ a = N * d + m
  BY DivMod
<1>2. N * (q - d) = m - r
  <2>1. N * (q - d) = N * q - N * d
    BY <1>1, Spread
  <2>2. N * q \in Int /\ N * d \in Int
    BY <1>1
  <2> HIDE DEF d, m
  <2>3. QED
    BY <2>1, <2>2, <1>1
<1> HIDE DEF d, m
<1>3. q - d = 0
  BY <1>1, <1>2, AtLeast
<1>4. N * 0 = 0
  OBVIOUS
<1>5. m = r
  BY <1>1, <1>2, <1>3, <1>4
<1>6. QED
  BY <1>5 DEF m

\* Once round the ring is the same place.
LEMMA ModOnce ==
  ASSUME NEW N \in Nat \ {0}, NEW a \in Nat
  PROVE  (a + N) % N = a % N
<1>1. a + N = N * (a \div N + 1) + (a % N)
  BY DivMod
<1>2. a + N \in Nat /\ a \div N + 1 \in Int /\ a % N \in 0 .. N - 1
  BY DivMod
<1>3. QED
  BY <1>1, <1>2, ModUnique

\* A remainder may be taken before a sum as well as after it.
LEMMA ModPlus ==
  ASSUME NEW N \in Nat \ {0}, NEW a \in Nat, NEW b \in Nat
  PROVE  ((a % N) + b) % N = (a + b) % N
<1> DEFINE c == (a % N) + b
           p == a \div N
           q == c \div N
           r == c % N
<1>1. c \in Nat /\ p \in Int /\ q \in Int /\ r \in 0 .. N - 1
  BY DivMod
<1>2. a = N * p + (a % N) /\ c = N * q + r
  BY <1>1, DivMod
<1>3. a + b = N * (p + q) + r
  <2>1. N * (p + q) = N * p + N * q
    BY <1>1
  <2>2. N * p \in Int /\ N * q \in Int /\ a % N \in Int
    BY <1>1
  <2> HIDE DEF p, q, r
  <2>3. QED
    BY <2>1, <2>2, <1>1, <1>2
<1> HIDE DEF p, q, r, c
<1>4. a + b \in Nat /\ p + q \in Int
  BY <1>1
<1>5. (a + b) % N = r
  BY <1>1, <1>3, <1>4, ModUnique
<1>6. QED
  BY <1>5 DEF r, c

-----------------------------------------------------------------------------
(* The indices.                                                            *)

\* What separates the indices.
Between == data_length + (IF worker = "add" THEN Len(ptr) ELSE 0)

\* Modulo the size of the ring read_index has moved by n.
LEMMA ReadMoves ==
  ASSUME TypeOK, NEW n \in 0 .. Size, NEW d \in Nat
  PROVE  (AdvanceRead(n) + d) % Size = (read_index + n + d) % Size
<1>1. /\ read_index \in Nat /\ Size \in Nat \ {0}
      /\ \/ AdvanceRead(n) = read_index + n
         \/ AdvanceRead(n) = read_index + n - Size
  BY SizeAssumption DEF TypeOK, Index, AdvanceRead
<1>2. AdvanceRead(n) \in Nat
  BY AdvanceReadInside, SizeAssumption DEF TypeOK, Index
<1>3. CASE AdvanceRead(n) = read_index + n
  BY <1>3
<1>4. CASE AdvanceRead(n) = read_index + n - Size
  <2>1. AdvanceRead(n) + d \in Nat
    BY <1>2
  <2>2. read_index + n + d = (AdvanceRead(n) + d) + Size
    BY <1>1, <1>4
  <2>3. QED
    BY <1>1, <2>1, <2>2, ModOnce
<1>5. QED
  BY <1>1, <1>3, <1>4

\* Modulo the size of the ring save_index has moved by n.
LEMMA SaveMoves ==
  ASSUME TypeOK, NEW n \in 0 .. Size
  PROVE  AdvanceSave(n) = (save_index + n) % Size
<1>1. /\ save_index \in Nat /\ Size \in Nat \ {0}
      /\ AdvanceSave(n) \in 0 .. Size - 1
      /\ \/ AdvanceSave(n) = save_index + n
         \/ save_index + n = AdvanceSave(n) + Size
  BY SizeAssumption DEF TypeOK, Index, AdvanceSave
<1>2. AdvanceSave(n) % Size = AdvanceSave(n)
  BY <1>1, ModUnique
<1>3. (AdvanceSave(n) + Size) % Size = AdvanceSave(n) % Size
  BY <1>1, ModOnce
<1>4. QED
  BY <1>1, <1>2, <1>3

\* The ring is consistent at the start.
LEMMA RingInit == Init => RingConsistent
<1> SUFFICES ASSUME Init PROVE RingConsistent
  OBVIOUS
<1>1. save_index = 0 /\ read_index = 0 /\ data_length = 0 /\ worker = "recv"
  BY DEF Init
<1>2. 0 % Size = 0
  BY SizeAssumption, ModUnique
<1>3. QED
  BY <1>1, <1>2 DEF RingConsistent

\* Every step keeps the indices data_length apart.
LEMMA RingStep == TypeOK /\ RingConsistent /\ [Next]_vars => RingConsistent'
<1> SUFFICES ASSUME TypeOK, RingConsistent, [Next]_vars
             PROVE  RingConsistent'
  OBVIOUS
<1> USE DEF ring, local
<1>0. 0 % Size = 0
  BY SizeAssumption, ModUnique
<1>1. CASE \/ UNCHANGED <<read_index, save_index, data_length, ptr, worker>>
           \/ /\ UNCHANGED <<read_index, save_index, data_length>>
              /\ worker # "add" /\ worker' # "add"
  BY <1>1 DEF RingConsistent
<1>2. CASE \/ Request \/ ConnectFailed \/ CloseRefused \/ WaitReady
           \/ DecoderEnds \/ net_buf_stop_job
           \/ \E s \in Session : net_buf_start_job(s)
           \/ UNCHANGED vars
  <2>1. UNCHANGED <<read_index, save_index, data_length, ptr, worker>>
    BY <1>2 DEF Request, ConnectFailed, CloseRefused, WaitReady, DecoderEnds,
                net_buf_stop_job, net_buf_start_job, vars
  <2>2. QED
    BY <1>1, <2>1
<1>3. CASE \/ TestStopping \/ FetchBlock \/ FetchNothing \/ TestRoom \/ Suspend
           \/ TakeResume \/ NotifyReady \/ CloseJob \/ SetStopped
           \/ WakeReader
  <2>1. /\ UNCHANGED <<read_index, save_index, data_length>>
        /\ worker # "add" /\ worker' # "add"
    BY <1>3 DEF TestStopping, FetchBlock, FetchNothing, TestRoom, Suspend,
                TakeResume, NotifyReady, CloseJob, SetStopped, WakeReader,
                At, Goto
  <2>2. QED
    BY <1>1, <2>1
<1>4. ASSUME NEW length \in 1 .. MaxRead, net_buf_read(length)
      PROVE  RingConsistent'
  <2> DEFINE n == IF length > data_length THEN data_length ELSE length
             d == Between - n
  <2>1. n \in 0 .. Size /\ n <= data_length
    BY SizeAssumption DEF TypeOK
  <2>2. Len(ptr) \in Nat /\ data_length \in Nat
    BY BlockBounds
  <2>3. d \in Nat /\ Between = n + d
    BY <2>1, <2>2 DEF Between
  <2>4. /\ UNCHANGED <<save_index, ptr, worker>>
        /\ data_length' = data_length - n
    BY <1>4 DEF net_buf_read, CopyOut
  <2>5. Between' = d
    BY <2>1, <2>2, <2>4 DEF Between
  <2>6. (read_index' + d) % Size = (read_index + n + d) % Size
    <3>1. CASE n > 0
      <4>1. read_index' = AdvanceRead(n)
        BY <1>4, <3>1 DEF net_buf_read, CopyOut
      <4> HIDE DEF n, d
      <4>2. QED
        BY <4>1, <2>1, <2>3, ReadMoves
    <3>2. CASE n = 0
      <4>1. read_index' = read_index
        BY <1>4, <3>2 DEF net_buf_read, CopyOut
      <4>2. read_index + n = read_index
        BY <3>2, SizeAssumption DEF TypeOK, Index
      <4>3. QED
        BY <4>1, <4>2
    <3>3. QED
      BY <2>1, <3>1, <3>2
  <2>7. read_index + n + d = read_index + Between
    BY <2>1, <2>2, SizeAssumption DEF TypeOK, Index, Between
  <2>8. /\ save_index = (read_index + Between) % Size
        /\ RingConsistent' <=> save_index' = (read_index' + Between') % Size
    <3>1. CASE worker = "add"
      <4>1. /\ data_length \in Nat /\ data_length' \in Nat
            /\ read_index \in Nat /\ read_index' \in Nat
        BY TypeStep DEF TypeOK, Index
      <4>2. /\ read_index + data_length + Len(ptr) = read_index + Between
            /\ read_index' + data_length' + Len(ptr') = read_index' + Between'
        BY <2>2, <2>4, <3>1, <4>1 DEF Between
      <4>3. QED
        BY <2>4, <3>1, <4>2 DEF RingConsistent
    <3>2. CASE worker # "add"
      <4>1. /\ data_length \in Nat /\ data_length' \in Nat
            /\ read_index \in Nat /\ read_index' \in Nat
        BY TypeStep DEF TypeOK, Index
      <4>2. /\ read_index + data_length + 0 = read_index + Between
            /\ read_index' + data_length' + 0 = read_index' + Between'
        BY <2>2, <2>4, <3>2, <4>1 DEF Between
      <4>3. QED
        BY <2>4, <3>2, <4>2 DEF RingConsistent
    <3>3. QED
      BY <3>1, <3>2
  <2>9. save_index' = (read_index' + Between') % Size
    <3> HIDE DEF n, d
    <3>1. (read_index + Between) % Size = (read_index' + d) % Size
      BY <2>6, <2>7
    <3>2. QED
      BY <2>4, <2>5, <2>8, <3>1
  <2>10. QED
    BY <2>8, <2>9
<1>5. CASE CopyIn
  <2>1. /\ Len(ptr) \in 0 .. Size /\ data_length \in Nat
        /\ read_index \in Nat /\ Size \in Nat \ {0}
    BY BlockBounds, Marks, SizeAssumption DEF TypeOK, Index
  <2>2. /\ worker = "copy" /\ worker' = "add"
        /\ UNCHANGED <<read_index, data_length, ptr>>
        /\ save_index' = AdvanceSave(Len(ptr))
    BY <1>5 DEF CopyIn, At, Goto
  <2>3. save_index = (read_index + data_length) % Size
    BY <2>1, <2>2 DEF RingConsistent
  <2>4. save_index' = (((read_index + data_length) % Size) + Len(ptr)) % Size
    <3>1. AdvanceSave(Len(ptr)) = (save_index + Len(ptr)) % Size
      BY <2>1, SaveMoves
    <3>2. QED
      BY <2>2, <2>3, <3>1
  <2>5. save_index' = (read_index + data_length + Len(ptr)) % Size
    <3> DEFINE a == read_index + data_length
               b == Len(ptr)
    <3>1. /\ a \in Nat /\ b \in Nat /\ Size \in Nat \ {0}
          /\ save_index' = ((a % Size) + b) % Size
      BY <2>1, <2>4
    <3> HIDE DEF a, b
    <3>2. ((a % Size) + b) % Size = (a + b) % Size
      BY <3>1, ModPlus
    <3>3. QED
      BY <3>1, <3>2 DEF a, b
  <2>6. QED
    BY <2>2, <2>5 DEF RingConsistent
<1>6. CASE AddLength
  <2>1. /\ Len(ptr) \in Nat /\ data_length \in Nat /\ read_index \in Nat
    BY BlockBounds DEF TypeOK, Index
  <2>2. /\ worker = "add" /\ worker' = "notify"
        /\ UNCHANGED <<read_index, save_index>>
        /\ data_length' = data_length + Len(ptr)
    BY <1>6 DEF AddLength, At, Goto
  <2>3. read_index + data_length + Len(ptr) = read_index' + data_length' + 0
    BY <2>1, <2>2
  <2>4. QED
    BY <2>2, <2>3 DEF RingConsistent
<1>7. CASE ReceiveJob \/ ResetRing
  <2>1. CASE /\ read_index' = 0 /\ save_index' = 0 /\ data_length' = 0
             /\ worker' # "add"
    BY <2>1, <1>0 DEF RingConsistent
  <2>2. QED
    BY <1>7, <1>1, <2>1 DEF ReceiveJob, ResetRing, Reset, At, Goto
<1>8. QED
  BY <1>2, <1>3, <1>4, <1>5, <1>6, <1>7 DEF Next, Player, Worker

(* The two indices, moved under different tests for the end of the ring,   *)
(* are always data_length apart.                                           *)
THEOREM RingConsistentTheorem == Spec => []RingConsistent
<1>1. QED
  BY TypeCorrect, RingInit, RingStep, PTL DEF Spec

-----------------------------------------------------------------------------
(* The start of a job.                                                     *)

\* The worker starts on an empty ring.
LEMMA CleanInit == Init => CleanStart
BY DEF Init, CleanStart

\* The reset comes last, and an empty ring gives nothing to read.
LEMMA CleanStep == TypeOK /\ CleanStart /\ [Next]_vars => CleanStart'
<1> SUFFICES ASSUME TypeOK, CleanStart, [Next]_vars PROVE CleanStart'
  OBVIOUS
<1> USE DEF ring, local, CleanStart
<1>1. CASE \/ Request \/ ConnectFailed \/ CloseRefused \/ WaitReady
           \/ DecoderEnds \/ net_buf_stop_job
           \/ \E s \in Session : net_buf_start_job(s)
           \/ UNCHANGED vars
  BY <1>1 DEF Request, ConnectFailed, CloseRefused, WaitReady, DecoderEnds,
              net_buf_stop_job, net_buf_start_job, vars
<1>2. ASSUME NEW length \in 1 .. MaxRead, net_buf_read(length)
      PROVE  CleanStart'
  \* Nothing is read while the worker waits for a job.
  <2>1. worker = "recv"
          => (IF length > data_length THEN data_length ELSE length) = 0
    BY SizeAssumption
  <2>2. QED
    BY <1>2, <2>1 DEF net_buf_read, CopyOut
<1>3. CASE \/ TestStopping \/ FetchBlock \/ FetchNothing \/ TestRoom \/ Suspend
           \/ TakeResume \/ CopyIn \/ AddLength \/ NotifyReady \/ CloseJob
           \/ SetStopped \/ WakeReader
  BY <1>3 DEF TestStopping, FetchBlock, FetchNothing, TestRoom, Suspend,
              TakeResume, CopyIn, AddLength, NotifyReady, CloseJob,
              SetStopped, WakeReader, At, Goto
<1>4. CASE ReceiveJob \/ ResetRing
  BY <1>4 DEF ReceiveJob, ResetRing, Reset, At, Goto
<1>5. QED
  BY <1>1, <1>2, <1>3, <1>4 DEF Next, Player, Worker

(* Whatever the player reads while one job ends and the next is queued,    *)
(* the worker waits for a job, and takes it, on an empty ring with both    *)
(* indices at its start.                                                   *)
THEOREM CleanStartTheorem == Spec => []CleanStart
<1>1. QED
  BY TypeCorrect, CleanInit, CleanStep, PTL DEF Spec
-----------------------------------------------------------------------------
(* The owners of the sessions.                                             *)

\* The queue is empty or holds one job, waiting for a worker that has
\* finished.
Queued ==
  \/ mq = <<>>
  \/ /\ \E s \in opened : mq = <<s>> /\ s # session
     /\ worker \in {"wake", "reset", "recv"} /\ stat # "STOPPED"

OwnersInv ==
  /\ Queued /\ ActiveStat
  /\ job # NoSession => mq = <<>> /\ job \in opened /\ job # session
  /\ worker \in InJob <=> job # NoSession
  /\ session # NoSession => session \in opened
  /\ session # NoSession <=> player = "refused"

\* Only a dropped job leaves a session without an owner.
LossInv == ~ Stuck => \A s \in opened : s = session \/ s = job \/ mq = <<s>>

\* Two sequences of one element make one of two.
LEMMA Pair ==
  ASSUME NEW S, NEW x \in S, NEW y \in S
  PROVE  <<x>> \o <<y>> = <<x, y>>
<1> DEFINE t == <<x>> \o <<y>>
           u == <<x, y>>
<1>1. <<x>> \in Seq(S) /\ <<y>> \in Seq(S) /\ u \in Seq(S)
  OBVIOUS
<1>2. t \in Seq(S) /\ Len(t) = 2
  BY <1>1, ConcatProperties
<1>3. t[1] = x /\ t[2] = y
  BY <1>1, ConcatProperties
<1>4. Len(u) = 2 /\ u[1] = x /\ u[2] = y
  OBVIOUS
<1> HIDE DEF t, u
<1>5. \A i \in 1 .. Len(t) : t[i] = u[i]
  BY <1>2, <1>3, <1>4
<1>6. t = u
  BY <1>1, <1>2, <1>4, <1>5, SeqEqual
<1>7. QED
  BY <1>6 DEF t, u

\* Nothing is open or queued at the start.
LEMMA OwnersInit == Init => OwnersInv
BY DEF Init, OwnersInv, Queued, ActiveStat, InJob

LEMMA LossInit == Init => LossInv
BY DEF Init, LossInv

\* A session passes from player to queue to worker, one at a time.
LEMMA OwnersStep ==
  TypeOK /\ WakeInv /\ OwnersInv /\ [Next]_vars => OwnersInv'
<1> SUFFICES ASSUME TypeOK, WakeInv, OwnersInv, [Next]_vars PROVE OwnersInv'
  OBVIOUS
<1> USE DEF local, OwnersInv, Queued, ActiveStat, InJob
<1>1. CASE \/ Request \/ ConnectFailed \/ WaitReady \/ DecoderEnds
           \/ UNCHANGED vars
  BY <1>1 DEF Request, ConnectFailed, WaitReady, DecoderEnds, vars
<1>2. CASE CloseRefused
  BY <1>2, SessionAssumption DEF CloseRefused, TypeOK
<1>3. CASE net_buf_stop_job
  BY <1>3 DEF net_buf_stop_job
<1>4. ASSUME NEW s \in Session, net_buf_start_job(s)
      PROVE  OwnersInv'
  <2>1. /\ player = "connect" /\ s \notin opened /\ opened' = opened \cup {s}
        /\ UNCHANGED <<job, worker>> /\ s # NoSession
    BY <1>4, SessionAssumption DEF net_buf_start_job
  <2>2. CASE stat = "STOPPED"
    <3>1. mq = <<>> /\ mq' = <<s>> /\ stat' = "BUFFERING" /\ player' = "play"
      BY <1>4, <2>2, SizeAssumption DEF net_buf_start_job, MayStart
    <3>2. UNCHANGED session
      BY <1>4, <2>2 DEF net_buf_start_job, MayStart
    <3>3. worker \in {"wake", "reset", "recv"} /\ job = NoSession
      BY <2>2 DEF TypeOK
    <3>4. QED
      BY <2>1, <3>1, <3>2, <3>3
  <2>3. CASE stat # "STOPPED"
    <3>1. session' = s /\ player' = "refused" /\ UNCHANGED <<mq, stat>>
      BY <1>4, <2>3 DEF net_buf_start_job, MayStart, Refuse
    <3>2. QED
      BY <2>1, <3>1
  <2>4. QED
    BY <2>2, <2>3
<1>5. ASSUME NEW length \in 1 .. MaxRead, net_buf_read(length)
      PROVE  OwnersInv'
  <2>1. /\ UNCHANGED <<local, mq, worker, session, opened>>
        /\ stat' = stat \/ stat' = "BUFFERING"
        /\ player # "refused" /\ player' # "refused"
    BY <1>5 DEF net_buf_read, CopyOut
  <2>2. QED
    BY <2>1
<1>6. CASE ReceiveJob
  <2>1. PICK s \in opened : mq = <<s>> /\ s # session
    BY <1>6 DEF ReceiveJob
  <2>2. mq' = <<>> /\ Head(mq) = s /\ s # NoSession
    BY <1>6, <2>1, SessionAssumption DEF ReceiveJob, TypeOK
  <2>3. QED
    BY <1>6, <2>1, <2>2 DEF ReceiveJob, At, Goto
<1>7. CASE \/ TestStopping \/ FetchBlock \/ FetchNothing \/ TestRoom \/ Suspend
           \/ TakeResume \/ CopyIn \/ AddLength
  BY <1>7 DEF TestStopping, FetchBlock, FetchNothing, TestRoom, Suspend,
              TakeResume, CopyIn, AddLength, At, Goto
<1>8. CASE NotifyReady \/ WakeReader
  <2>1. /\ UNCHANGED <<job, stat, mq, session, opened>>
        /\ \/ worker = "notify" /\ worker' = "top"
           \/ worker = "wake" /\ worker' = "reset"
        /\ player' = player \/ (player = "wait" /\ player' = "woken")
    BY <1>8 DEF NotifyReady, WakeReader, ReleaseReady, At, Goto
  <2>2. QED
    BY <2>1
<1>9. CASE CloseJob
  BY <1>9 DEF CloseJob, At, Goto
<1>10. CASE SetStopped
  BY <1>10 DEF SetStopped, At, Goto
<1>11. CASE ResetRing
  BY <1>11 DEF ResetRing, At, Goto
<1>12. QED
  BY <1>1, <1>2, <1>3, <1>4, <1>5, <1>6, <1>7, <1>8, <1>9, <1>10, <1>11
  DEF Next, Player, Worker

\* A session changes hands, or its job is dropped.
LEMMA LossStep ==
  TypeOK /\ WakeInv /\ OwnersInv /\ LossInv /\ [Next]_vars => LossInv'
<1> SUFFICES ASSUME TypeOK, WakeInv, OwnersInv, LossInv, [Next]_vars, ~ Stuck'
             PROVE  \A s \in opened' :
                      s = session' \/ s = job' \/ mq' = <<s>>
  BY DEF LossInv
<1> USE DEF local
<1>1. ASSUME stat' # stat => stat # "STOPPING" \/ worker # "recv",
             worker' # worker => worker # "recv",
             UNCHANGED <<session, job, mq, opened>>
      PROVE  \A s \in opened' : s = session' \/ s = job' \/ mq' = <<s>>
  BY <1>1 DEF LossInv, Stuck
<1>2. CASE \/ Request \/ ConnectFailed \/ WaitReady \/ DecoderEnds
           \/ UNCHANGED vars
  BY <1>1, <1>2 DEF Request, ConnectFailed, WaitReady, DecoderEnds, vars
<1>3. CASE CloseRefused
  BY <1>3 DEF CloseRefused, LossInv, Stuck
<1>4. CASE net_buf_stop_job
  BY <1>1, <1>4 DEF net_buf_stop_job
<1>5. ASSUME NEW t \in Session, net_buf_start_job(t)
      PROVE  \A s \in opened' : s = session' \/ s = job' \/ mq' = <<s>>
  <2>1. /\ opened' = opened \cup {t} /\ UNCHANGED <<job, worker>>
        /\ session = NoSession
    BY <1>5 DEF net_buf_start_job, OwnersInv
  <2>2. CASE stat = "STOPPED"
    <3>1. mq = <<>> /\ mq' = <<t>> /\ UNCHANGED session
      BY <1>5, <2>2, SizeAssumption
         DEF net_buf_start_job, MayStart, OwnersInv, Queued
    <3>2. job = NoSession /\ ~ Stuck
      BY <2>2 DEF OwnersInv, ActiveStat, Stuck
    <3>3. opened = {}
      <4>1. opened \subseteq Session /\ \A s \in Session : <<s>> # <<>>
        BY DEF TypeOK
      <4>2. QED
        BY <2>1, <3>1, <3>2, <4>1, SessionAssumption DEF LossInv
    <3>4. QED
      BY <2>1, <3>1, <3>3
  <2>3. CASE stat # "STOPPED"
    <3>1. session' = t /\ UNCHANGED <<mq, stat>>
      BY <1>5, <2>3 DEF net_buf_start_job, MayStart, Refuse
    <3>2. ~ Stuck
      BY <2>1, <3>1 DEF Stuck
    <3>3. \A s \in opened : s = job \/ mq = <<s>>
      <4>1. opened \subseteq Session
        BY DEF TypeOK
      <4>2. QED
        BY <2>1, <3>2, <4>1, SessionAssumption DEF LossInv
    <3>4. QED
      BY <2>1, <3>1, <3>3
  <2>4. QED
    BY <2>2, <2>3
<1>6. ASSUME NEW length \in 1 .. MaxRead, net_buf_read(length)
      PROVE  \A s \in opened' : s = session' \/ s = job' \/ mq' = <<s>>
  BY <1>1, <1>6 DEF net_buf_read, CopyOut, Resumes
<1>7. CASE ReceiveJob
  <2>1. PICK t \in opened : mq = <<t>> /\ stat # "STOPPED"
    BY <1>7 DEF ReceiveJob, OwnersInv, Queued
  <2>2. Head(mq) = t /\ mq' = <<>> /\ mq # <<>>
    BY <1>7, <2>1 DEF ReceiveJob
  <2>3. stat = "BUFFERING"
    <3>1. stat \in {"BUFFERING", "STOPPING"}
      BY <1>7, <2>1 DEF ReceiveJob, At, WakeInv, NoLostResume, TypeOK, Stat
    <3>2. stat # "BUFFERING" => Stuck'
      BY <1>7, <2>2, <3>1 DEF ReceiveJob, Goto, Stuck
    <3>3. QED
      BY <3>2
  <2>4. job' = t /\ UNCHANGED <<opened, session>>
    BY <1>7, <2>2, <2>3 DEF ReceiveJob
  <2>5. job = NoSession /\ ~ Stuck
    BY <1>7, <2>3 DEF ReceiveJob, At, OwnersInv, InJob, Stuck
  <2>6. \A s \in opened : s = session \/ s = t
    <3>1. NoSession \notin opened
      BY SessionAssumption DEF TypeOK
    <3>2. \A s \in Session : mq = <<s>> => s = t
      BY <2>1
    <3>3. opened \subseteq Session
      BY DEF TypeOK
    <3>4. QED
      BY <2>5, <3>1, <3>2, <3>3 DEF LossInv
  <2>7. QED
    BY <2>4, <2>6
<1>8. CASE \/ TestStopping \/ FetchBlock \/ FetchNothing \/ TestRoom \/ Suspend
           \/ TakeResume \/ CopyIn \/ AddLength \/ NotifyReady \/ SetStopped
           \/ WakeReader
  BY <1>1, <1>8
     DEF TestStopping, FetchBlock, FetchNothing, TestRoom, Suspend,
         TakeResume, CopyIn, AddLength, NotifyReady, SetStopped, WakeReader,
         At, Goto
<1>9. CASE CloseJob
  BY <1>9 DEF CloseJob, At, Goto, LossInv, Stuck
<1>10. CASE ResetRing
  BY <1>1, <1>10 DEF ResetRing, At, Goto
<1>11. QED
  BY <1>2, <1>3, <1>4, <1>5, <1>6, <1>7, <1>8, <1>9, <1>10
     DEF Next, Player, Worker

\* What the invariants say of owners, said of the sequence of them.
LEMMA OwnersOnce == TypeOK /\ OwnersInv /\ LossInv => OwnedOnce
<1> SUFFICES ASSUME TypeOK, OwnersInv, LossInv PROVE OwnedOnce
  OBVIOUS
<1>0. Dropped # {} => Stuck
  <2> SUFFICES ASSUME ~ Stuck, NEW s \in Dropped PROVE FALSE
    OBVIOUS
  <2>1. s \in opened /\ s # session /\ s # job
    BY DEF Dropped
  <2>2. mq = <<s>>
    BY <2>1 DEF LossInv
  <2>3. 1 \in DOMAIN mq /\ mq[1] = s
    BY <2>2
  <2>4. QED
    BY <2>3 DEF Dropped
<1> USE <1>0 DEF OwnersInv, Queued, InJob
<1> DEFINE mine == IF session = NoSession THEN <<>> ELSE <<session>>
           its == IF job = NoSession THEN <<>> ELSE <<job>>
           held == mine \o its \o mq
<1>1. /\ mine = <<>> \/ \E x \in opened : mine = <<x>>
      /\ its = <<>> \/ \E x \in opened : its = <<x>>
      /\ mq = <<>> \/ \E x \in opened : mq = <<x>>
  OBVIOUS
<1>2. \A x \in Seq(opened) : x \o <<>> = x /\ <<>> \o x = x
  BY ConcatEmptySeq
<1>3. <<>> \in Seq(opened) /\ \A x \in opened : <<x>> \in Seq(opened)
  OBVIOUS
<1>4. CASE mq = <<>> /\ its = <<>>
  <2>1. held = mine
    BY <1>1, <1>2, <1>3, <1>4
  <2>2. QED
    BY <1>1, <1>4, <2>1 DEF OwnedOnce
<1>5. CASE mq = <<>> /\ its # <<>>
  <2>1. job # NoSession /\ its = <<job>> /\ job \in opened
    BY <1>5
  <2>2. held = mine \o its
    <3>1. mine \o its \in Seq(opened)
      BY <1>1, <1>3, ConcatProperties
    <3>2. QED
      BY <1>2, <1>5, <3>1
  <2>3. CASE session = NoSession
    <3>1. held = <<job>>
      BY <1>2, <1>3, <2>1, <2>2, <2>3
    <3>2. QED
      BY <1>5, <2>1, <3>1 DEF OwnedOnce
  <2>4. CASE session # NoSession
    <3>1. session \in opened /\ session # job /\ mine = <<session>>
      BY <2>1, <2>4
    <3>2. held = <<session, job>>
      BY <2>1, <2>2, <3>1, Pair
    <3>3. QED
      BY <1>5, <2>1, <3>1, <3>2 DEF OwnedOnce
  <2>5. QED
    BY <2>3, <2>4
<1>6. CASE mq # <<>>
  <2>1. PICK s \in opened : mq = <<s>> /\ s # session
    BY <1>6
  <2>2. its = <<>> /\ worker \in {"wake", "reset", "recv"}
    BY <1>6
  <2>3. held = mine \o mq
    BY <1>1, <1>2, <1>3, <2>2
  <2>4. CASE session = NoSession
    <3>1. held = <<s>>
      BY <1>2, <1>3, <2>1, <2>3, <2>4
    <3>2. QED
      BY <2>1, <2>2, <3>1 DEF OwnedOnce
  <2>5. CASE session # NoSession
    <3>1. session \in opened /\ mine = <<session>>
      BY <2>5
    <3>2. held = <<session, s>>
      BY <2>1, <2>3, <3>1, Pair
    <3>3. QED
      BY <2>1, <2>2, <3>1, <3>2 DEF OwnedOnce
  <2>6. QED
    BY <2>4, <2>5
<1>7. QED
  BY <1>4, <1>5, <1>6

(* Player, queue and worker hold only open sessions, each once; at most    *)
(* one job is queued, whatever the depth of the queue; and a session is    *)
(* left without an owner only by a job dropped at netbuffer.c:339.         *)
THEOREM OwnedOnceTheorem == Spec => []OwnedOnce
<1>1. Spec => []WakeInv
  BY TypeCorrect, WakeInit, WakeStep, PTL DEF Spec
<1>2. QED
  BY TypeCorrect, <1>1, OwnersInit, OwnersStep, LossInit, LossStep,
     OwnersOnce, PTL DEF Spec

-----------------------------------------------------------------------------
(* Who waits is served.                                                    *)

LEMMA ServedInit == Init => ServedInv
BY DEF Init, ServedInv

\* A status of BUFFERING comes with a job, and goes before its reader sleeps.
LEMMA ServedStep ==
  TypeOK /\ WakeInv /\ OwnersInv /\ ServedInv /\ [Next]_vars => ServedInv'
<1> SUFFICES ASSUME TypeOK, WakeInv, OwnersInv, ServedInv, [Next]_vars
             PROVE  ServedInv'
  OBVIOUS
<1> USE DEF local, ServedInv
<1>1. CASE \/ Request \/ ConnectFailed \/ CloseRefused \/ WaitReady
           \/ DecoderEnds \/ net_buf_stop_job \/ UNCHANGED vars
  BY <1>1 DEF Request, ConnectFailed, CloseRefused, WaitReady, DecoderEnds,
              net_buf_stop_job, vars
<1>2. ASSUME NEW s \in Session, net_buf_start_job(s)
      PROVE  ServedInv'
  <2>1. player' # "wait" /\ UNCHANGED worker
    BY <1>2 DEF net_buf_start_job
  <2>2. CASE stat = "STOPPED"
    <3>1. mq = <<>>
      BY <2>2 DEF OwnersInv, Queued
    <3>2. mq' = <<s>>
      BY <1>2, <2>2, <3>1, SizeAssumption DEF net_buf_start_job, MayStart
    <3>3. QED
      BY <2>1, <3>2
  <2>3. CASE stat # "STOPPED"
    <3>1. UNCHANGED <<mq, stat>>
      BY <1>2, <2>3 DEF net_buf_start_job, MayStart, Refuse
    <3>2. QED
      BY <2>1, <3>1
  <2>4. QED
    BY <2>2, <2>3
<1>3. ASSUME NEW length \in 1 .. MaxRead, net_buf_read(length)
      PROVE  ServedInv'
  <2>1. /\ UNCHANGED <<mq, worker>> /\ player' # "wait"
        /\ stat' = stat \/ stat = "SUSPEND"
    BY <1>3 DEF net_buf_read, CopyOut, Resumes
  <2>2. stat = "SUSPEND" => worker = "take"
    BY DEF WakeInv, NoLostResume
  <2>3. QED
    BY <2>1, <2>2
<1>4. CASE ReceiveJob
  BY <1>4 DEF ReceiveJob, At, Goto
<1>5. CASE \/ TestStopping \/ FetchBlock \/ FetchNothing \/ TestRoom \/ Suspend
           \/ TakeResume \/ CopyIn \/ AddLength \/ CloseJob \/ ResetRing
  BY <1>5 DEF TestStopping, FetchBlock, FetchNothing, TestRoom, Suspend,
              TakeResume, CopyIn, AddLength, CloseJob, ResetRing, At, Goto
<1>6. CASE NotifyReady \/ WakeReader
  <2>1. /\ UNCHANGED <<stat, mq>>
        /\ \/ worker = "notify" /\ worker' = "top"
           \/ worker = "wake" /\ worker' = "reset"
        /\ player' = player \/ player' = "woken"
        /\ worker = "wake" /\ player = "wait" /\ is_wait_ready => player' = "woken"
    BY <1>6 DEF NotifyReady, WakeReader, StopWakes, ReleaseReady, At, Goto
  <2>2. player = "wait" => is_wait_ready
    BY DEF WakeInv, NoLostReady
  <2>3. QED
    BY <2>1, <2>2
<1>7. CASE SetStopped
  BY <1>7 DEF SetStopped, At, Goto
<1>8. QED
  BY <1>1, <1>2, <1>3, <1>4, <1>5, <1>6, <1>7 DEF Next, Player, Worker

(* A waiting player never waits for nothing: its job is queued, performed  *)
(* or being ended, by a worker that is to wake it.  (netbuffer.c:92-96,    *)
(* 167-176, 216-224)                                                       *)
THEOREM ReaderServedTheorem == Spec => []ReaderServed
<1>1. TypeOK /\ WakeInv /\ ServedInv => ReaderServed
  <2>1. SUFFICES ASSUME TypeOK, WakeInv, ServedInv, player = "wait"
                 PROVE  \/ worker \in InJob \cup {"stop", "wake"}
                        \/ mq # <<>> /\ stat = "BUFFERING"
    BY DEF ReaderServed
  <2>2. worker \in InJob \cup {"stop", "wake"} \/ worker \in {"recv", "reset"}
    BY <2>1 DEF TypeOK
  <2>3. worker \in {"recv", "reset"} => stat = "BUFFERING" /\ mq # <<>>
    BY <2>1 DEF ServedInv, WakeInv, NoLostResume
  <2>4. QED
    BY <2>2, <2>3
<1>2. Spec => []WakeInv
  BY TypeCorrect, WakeInit, WakeStep, PTL DEF Spec
<1>3. Spec => []OwnersInv
  BY TypeCorrect, <1>2, OwnersInit, OwnersStep, PTL DEF Spec
<1>4. QED
  BY TypeCorrect, <1>1, <1>2, <1>3, ServedInit, ServedStep, PTL DEF Spec

-----------------------------------------------------------------------------
(* The bytes come out once and in order.                                   *)

\* The d bytes from cell r on, round the ring.
UnreadOf(cells, r, d) == [i \in 1 .. d |-> cells[(r + i - 1) % Size]]

\* A remainder is a place in the ring.
LEMMA SizeFacts == Size \in Nat \ {0} /\ \A a \in Nat : a % Size \in Index
BY SizeAssumption DEF Index

\* They are a sequence of d bytes.
LEMMA UnreadShape ==
  ASSUME NEW cells \in [Index -> Byte], NEW r \in Nat, NEW d \in Nat
  PROVE  /\ UnreadOf(cells, r, d) \in Seq(Byte)
         /\ Len(UnreadOf(cells, r, d)) = d
         /\ \A i \in 1 .. d :
              UnreadOf(cells, r, d)[i] = cells[(r + i - 1) % Size]
<1> DEFINE u == UnreadOf(cells, r, d)
<1>1. \A i \in 1 .. d : (r + i - 1) % Size \in Index
  <2> SUFFICES ASSUME NEW i \in 1 .. d PROVE (r + i - 1) % Size \in Index
    OBVIOUS
  <2>1. r + i - 1 \in Nat
    OBVIOUS
  <2>2. QED
    BY <2>1, SizeFacts
<1>2. /\ u \in [1 .. d -> Byte]
      /\ \A i \in 1 .. d : u[i] = cells[(r + i - 1) % Size]
  BY <1>1, Zenon DEF UnreadOf
<1> HIDE DEF u
<1>3. u \in Seq(Byte) /\ Len(u) = d
  BY <1>2, SeqDef, LenProperties
<1>4. QED
  BY <1>2, <1>3 DEF u

\* A read takes the first bytes.
LEMMA UnreadRead ==
  ASSUME TypeOK, NEW n \in 1 .. Size, n <= data_length
  PROVE  UnreadOf(buffer_data, AdvanceRead(n), data_length - n)
           = SubSeq(UnreadOf(buffer_data, read_index, data_length), n + 1,
                    data_length)
<1> DEFINE d == data_length
           s == UnreadOf(buffer_data, read_index, d)
           t == UnreadOf(buffer_data, AdvanceRead(n), d - n)
<1>1. /\ d \in Nat /\ d - n \in Nat /\ buffer_data \in [Index -> Byte]
      /\ read_index \in Nat /\ AdvanceRead(n) \in Nat
  BY AdvanceReadInside, SizeAssumption DEF TypeOK, Index
<1>2. /\ s \in Seq(Byte) /\ Len(s) = d
      /\ \A i \in 1 .. d : s[i] = buffer_data[(read_index + i - 1) % Size]
  BY <1>1, UnreadShape
<1>3. /\ t \in Seq(Byte) /\ Len(t) = d - n
      /\ \A i \in 1 .. d - n :
           t[i] = buffer_data[(AdvanceRead(n) + i - 1) % Size]
  BY <1>1, UnreadShape
<1>4. \A i \in 1 .. d - n :
        (AdvanceRead(n) + i - 1) % Size = (read_index + (i + n) - 1) % Size
  <2> SUFFICES ASSUME NEW i \in 1 .. d - n
               PROVE  (AdvanceRead(n) + i - 1) % Size
                        = (read_index + (i + n) - 1) % Size
    OBVIOUS
  <2>1. i - 1 \in Nat /\ n \in 0 .. Size
    BY SizeAssumption
  <2>2. (AdvanceRead(n) + (i - 1)) % Size
          = (read_index + n + (i - 1)) % Size
    BY <2>1, ReadMoves
  <2>3. /\ AdvanceRead(n) + (i - 1) = AdvanceRead(n) + i - 1
        /\ read_index + n + (i - 1) = read_index + (i + n) - 1
    BY <1>1, <2>1
  <2>4. QED
    BY <2>2, <2>3
<1> HIDE DEF s, t
<1>5. \A i \in 1 .. d - n : t[i] = s[i + n]
  <2>1. \A i \in 1 .. d - n : i + n \in 1 .. d
    BY <1>1
  <2>2. QED
    BY <1>2, <1>3, <1>4, <2>1
<1> DEFINE u == SubSeq(s, n + 1, d)
<1>6. /\ u \in Seq(Byte) /\ Len(u) = d - n
      /\ \A i \in 1 .. d - n : u[i] = s[i + n]
  <2>1. n + 1 \in Int /\ \A i \in n + 1 .. d : s[i] \in Byte
    BY <1>1, <1>2
  <2>2. /\ u \in Seq(Byte)
        /\ Len(u) = IF n + 1 <= d THEN d - (n + 1) + 1 ELSE 0
        /\ \A i \in 1 .. d - (n + 1) + 1 : u[i] = s[(n + 1) + i - 1]
    BY <1>1, <1>2, <2>1, SubSeqProperties
  <2>3. /\ d - (n + 1) + 1 = d - n
        /\ \A i \in 1 .. d - n : (n + 1) + i - 1 = i + n
    BY <1>1
  <2>4. QED
    BY <1>1, <2>2, <2>3
<1> HIDE DEF u
<1>7. \A i \in 1 .. Len(t) : t[i] = u[i]
  BY <1>3, <1>5, <1>6
<1>8. t = u
  BY <1>3, <1>6, <1>7, SeqEqual
<1>9. QED
  BY <1>8 DEF s, t, u

\* The j-th cell from save_index on takes the j-th byte of the block.
LEMMA BlockCells ==
  ASSUME TypeOK, NEW j \in 0 .. Size - 1
  PROVE  BlockCell((save_index + j) % Size) = j
<1> DEFINE c == (save_index + j) % Size
<1>1. /\ Size \in Nat \ {0} /\ save_index \in 0 .. Size - 1
      /\ save_index + j \in Nat
  BY SizeAssumption DEF TypeOK, Index
<1>2. c = save_index + j \/ c = save_index + j - Size
  <2>1. CASE save_index + j < Size
    <3>1. save_index + j = Size * 0 + (save_index + j)
      BY <1>1
    <3>2. save_index + j \in 0 .. Size - 1
      BY <1>1, <2>1
    <3>3. QED
      BY <1>1, <3>1, <3>2, ModUnique
  <2>2. CASE save_index + j >= Size
    <3>1. save_index + j = Size * 1 + (save_index + j - Size)
      BY <1>1
    <3>2. save_index + j - Size \in 0 .. Size - 1
      BY <1>1, <2>2
    <3>3. QED
      BY <1>1, <3>1, <3>2, ModUnique
  <2>3. QED
    BY <1>1, <2>1, <2>2
<1>3. BlockCell(c) = (c + Size - save_index) % Size
  BY DEF BlockCell
<1> HIDE DEF c
<1>4. c + Size - save_index = j \/ c + Size - save_index = j + Size
  BY <1>1, <1>2
<1>5. j % Size = j
  <2>1. j = Size * 0 + j
    BY <1>1
  <2>2. QED
    BY <1>1, <2>1, ModUnique
<1>6. (j + Size) % Size = j
  BY <1>1, <1>5, ModOnce
<1>7. BlockCell(c) = j
  BY <1>3, <1>4, <1>5, <1>6
<1>8. QED
  BY <1>7 DEF c

\* Copying a block that fits changes nothing unread, and puts the block
\* behind it.
LEMMA CopyBehind ==
  ASSUME TypeOK, RingConsistent, CopyIn, data_length + Len(ptr) <= Size
  PROVE  /\ \A i \in 1 .. data_length :
              buffer_data'[(read_index + i - 1) % Size]
                = buffer_data[(read_index + i - 1) % Size]
         /\ \A i \in 1 .. Len(ptr) :
              buffer_data'[(read_index + data_length + i - 1) % Size] = ptr[i]
<1>1. /\ Size \in Nat \ {0} /\ read_index \in Nat /\ data_length \in Nat
      /\ Len(ptr) \in Nat
  BY SizeAssumption, BlockBounds DEF TypeOK, Index
<1>2. save_index = (read_index + data_length) % Size
  <2>1. worker = "copy"
    BY DEF CopyIn, At
  <2>2. QED
    BY <1>1, <2>1 DEF RingConsistent
<1>3. ASSUME NEW j \in 0 .. Size - 1
      PROVE  /\ (read_index + data_length + j) % Size
                  = (save_index + j) % Size
             /\ (save_index + j) % Size \in Index
  <2>1. read_index + data_length \in Nat /\ j \in Nat
    BY <1>1
  <2>2. (((read_index + data_length) % Size) + j) % Size
          = ((read_index + data_length) + j) % Size
    BY <1>1, <2>1, ModPlus
  <2>3. save_index + j \in Nat
    BY <2>1 DEF TypeOK, Index
  <2>4. QED
    BY <1>2, <2>2, <2>3, SizeFacts
<1>4. ASSUME NEW j \in 0 .. Size - 1
      PROVE  buffer_data'[(save_index + j) % Size]
               = IF j < Len(ptr) THEN ptr[j + 1]
                 ELSE buffer_data[(save_index + j) % Size]
  <2>1. (save_index + j) % Size \in Index
    BY <1>3
  <2>2. BlockCell((save_index + j) % Size) = j
    BY BlockCells
  <2> DEFINE c == (save_index + j) % Size
  <2> HIDE DEF c
  <2>3. c \in Index /\ BlockCell(c) = j
    BY <2>1, <2>2 DEF c
  <2>4. buffer_data'[c] = IF BlockCell(c) < Len(ptr)
                          THEN ptr[BlockCell(c) + 1] ELSE buffer_data[c]
    BY <2>3, Zenon DEF CopyIn
  <2>5. buffer_data'[c] = IF j < Len(ptr) THEN ptr[j + 1] ELSE buffer_data[c]
    BY <2>3, <2>4, Zenon
  <2>6. QED
    BY <2>5 DEF c
<1>5. ASSUME NEW i \in 1 .. data_length
      PROVE  buffer_data'[(read_index + i - 1) % Size]
               = buffer_data[(read_index + i - 1) % Size]
  <2> DEFINE j == Size - data_length + i - 1
  <2>1. j \in 0 .. Size - 1 /\ ~ (j < Len(ptr))
    BY <1>1
  <2>2. /\ read_index + data_length + j = (read_index + i - 1) + Size
        /\ read_index + i - 1 \in Nat
    BY <1>1
  <2> HIDE DEF j
  <2>3. (read_index + data_length + j) % Size = (read_index + i - 1) % Size
    BY <1>1, <2>2, ModOnce
  <2>4. (read_index + i - 1) % Size = (save_index + j) % Size
    BY <1>3, <2>1, <2>3
  <2>5. QED
    BY <1>4, <2>1, <2>4
<1>6. ASSUME NEW i \in 1 .. Len(ptr)
      PROVE  buffer_data'[(read_index + data_length + i - 1) % Size] = ptr[i]
  <2> DEFINE j == i - 1
  <2>1. j \in 0 .. Size - 1 /\ j < Len(ptr) /\ j + 1 = i
    BY <1>1
  <2>2. read_index + data_length + i - 1 = read_index + data_length + j
    BY <1>1
  <2> HIDE DEF j
  <2>3. QED
    BY <1>3, <1>4, <2>1, <2>2
<1>7. QED
  BY <1>5, <1>6

\* Between the copy and the sum the block lies behind what is unread.
Stored ==
  worker = "add" /\ stat # "STOPPING" =>
    \A i \in 1 .. Len(ptr) :
      buffer_data[(read_index + data_length + i - 1) % Size] = ptr[i]

\* Only the copy reaches the sum, and a read moves both ends alike.
LEMMA StoredStep ==
  TypeOK /\ RoomInv /\ RingConsistent /\ Stored /\ [Next]_vars => Stored'
<1> SUFFICES ASSUME TypeOK, RoomInv, RingConsistent, Stored, [Next]_vars,
                    worker' = "add", stat' # "STOPPING"
             PROVE  Stored'
  BY DEF Stored
<1> USE DEF ring, sems, local
<1>1. CASE \/ Request \/ ConnectFailed \/ CloseRefused \/ WaitReady
           \/ DecoderEnds \/ UNCHANGED vars
  <2>1. UNCHANGED <<ring, ptr, worker, stat>>
    BY <1>1 DEF Request, ConnectFailed, CloseRefused, WaitReady, DecoderEnds,
                vars
  <2>2. QED
    BY <2>1 DEF Stored
<1>2. CASE net_buf_stop_job \/ \E s \in Session : net_buf_start_job(s)
  <2>1. UNCHANGED <<ring, ptr, worker>> /\ stat # "STOPPING"
    BY <1>2 DEF net_buf_stop_job, net_buf_start_job, MayStart
  <2>2. QED
    BY <2>1 DEF Stored
<1>3. ASSUME NEW length \in 1 .. MaxRead, net_buf_read(length)
      PROVE  Stored'
  <2> DEFINE n == IF length > data_length THEN data_length ELSE length
  <2>1. /\ n \in 0 .. Size /\ data_length \in Nat /\ n <= data_length
        /\ read_index \in Nat /\ Len(ptr) \in Nat
    BY SizeAssumption, BlockBounds DEF TypeOK, Index
  <2>2. /\ read_index' = IF n > 0 THEN AdvanceRead(n) ELSE read_index
        /\ data_length' = data_length - n
        /\ UNCHANGED <<buffer_data, ptr, worker>>
    BY <1>3 DEF net_buf_read, CopyOut
  <2>3. stat # "STOPPING"
    BY <1>3 DEF net_buf_read, CopyOut, Resumes
  <2> HIDE DEF n
  <2>4. ASSUME NEW i \in 1 .. Len(ptr)
        PROVE  (read_index' + data_length' + i - 1) % Size
                 = (read_index + data_length + i - 1) % Size
    <3>1. CASE n = 0
      BY <2>1, <2>2, <3>1
    <3>2. CASE n > 0
      <4> DEFINE e == (data_length - n) + (i - 1)
      <4>1. e \in Nat
        BY <2>1
      <4>2. (AdvanceRead(n) + e) % Size = (read_index + n + e) % Size
        BY <2>1, <4>1, ReadMoves
      <4>3. AdvanceRead(n) \in Nat
        BY <2>1, AdvanceReadInside, SizeAssumption DEF TypeOK, Index
      <4>4. /\ read_index' + data_length' + i - 1 = AdvanceRead(n) + e
            /\ read_index + n + e = read_index + data_length + i - 1
        BY <2>1, <2>2, <3>2, <4>3
      <4>5. QED
        BY <4>2, <4>4
    <3>3. QED
      BY <2>1, <3>1, <3>2
  <2>5. QED
    BY <2>2, <2>3, <2>4 DEF Stored
<1>4. CASE CopyIn
  <2>1. /\ worker = "copy" /\ stat # "STOPPING"
        /\ UNCHANGED <<read_index, data_length, ptr>>
    BY <1>4 DEF CopyIn, At
  <2>2. data_length + Len(ptr) <= Size
    BY <2>1 DEF RoomInv, NoOverrun
  <2>3. QED
    BY <1>4, <2>1, <2>2, CopyBehind DEF Stored
<1>5. CASE \/ ReceiveJob \/ TestStopping \/ FetchBlock \/ FetchNothing
           \/ TestRoom \/ Suspend \/ TakeResume \/ AddLength \/ NotifyReady
           \/ CloseJob \/ SetStopped \/ WakeReader \/ ResetRing
  <2>1. worker' # "add"
    BY <1>5 DEF Goto, ReceiveJob, TestStopping, FetchBlock, FetchNothing,
                TestRoom, Suspend, TakeResume, AddLength, NotifyReady,
                CloseJob, SetStopped, WakeReader, ResetRing
  <2>2. QED
    BY <2>1
<1>6. QED
  BY <1>1, <1>2, <1>3, <1>4, <1>5 DEF Next, Player, Worker

-----------------------------------------------------------------------------
(* The ring implements the abstract queue.                                 *)

\* The last two substitutions of Fifo.
Pending ==
  IF Live /\ worker \in {"room", "suspend", "take", "copy", "add"}
  THEN ptr ELSE <<>>

Queue == IF Live THEN Unread ELSE <<>>

\* Unread bytes, in this state and in the next.
LEMMA UnreadAre ==
  /\ Unread = UnreadOf(buffer_data, read_index, data_length)
  /\ Unread' = UnreadOf(buffer_data', read_index', data_length')
BY Zenon DEF Unread, UnreadOf

\* The block is added behind what is unread.
LEMMA UnreadAdd ==
  ASSUME TypeOK, Stored, worker = "add", stat # "STOPPING"
  PROVE  UnreadOf(buffer_data, read_index, data_length + Len(ptr))
           = Unread \o ptr
<1> DEFINE d == data_length
           n == Len(ptr)
           t == UnreadOf(buffer_data, read_index, d + n)
           u == Unread \o ptr
<1>1. /\ d \in Nat /\ n \in Nat /\ d + n \in Nat /\ read_index \in Nat
      /\ buffer_data \in [Index -> Byte] /\ ptr \in Seq(Byte)
  BY BlockBounds, BlockSeq, SizeAssumption DEF TypeOK, Index
<1>2. /\ Unread \in Seq(Byte) /\ Len(Unread) = d
      /\ \A i \in 1 .. d :
           Unread[i] = buffer_data[(read_index + i - 1) % Size]
  BY <1>1, UnreadAre, UnreadShape
<1>3. /\ t \in Seq(Byte) /\ Len(t) = d + n
      /\ \A i \in 1 .. d + n :
           t[i] = buffer_data[(read_index + i - 1) % Size]
  BY <1>1, UnreadShape
<1>4. /\ u \in Seq(Byte) /\ Len(u) = d + n
      /\ \A i \in 1 .. d + n :
           u[i] = IF i <= d THEN Unread[i] ELSE ptr[i - d]
  BY <1>1, <1>2, ConcatProperties
<1> HIDE DEF t, u
<1>5. ASSUME NEW i \in 1 .. d + n
      PROVE  t[i] = u[i]
  <2>1. CASE i <= d
    <3>1. i \in 1 .. d
      BY <1>1, <2>1
    <3>2. QED
      BY <1>2, <1>3, <1>4, <2>1, <3>1
  <2>2. CASE i > d
    <3>1. /\ i - d \in 1 .. n /\ ~ (i <= d)
          /\ read_index + d + (i - d) - 1 = read_index + i - 1
      BY <1>1, <2>2
    <3>2. buffer_data[(read_index + d + (i - d) - 1) % Size] = ptr[i - d]
      BY <3>1 DEF Stored
    <3>3. QED
      BY <1>3, <1>4, <3>1, <3>2
  <2>3. QED
    BY <1>1, <2>1, <2>2
<1>6. t = u
  BY <1>3, <1>4, <1>5, SeqEqual
<1>7. QED
  BY <1>6 DEF t, u

\* From the fetch to the sum there is a block.
Filled ==
  worker \in {"room", "suspend", "take", "copy", "add"} => ptr # <<>>

\* A fetch brings a block and nothing takes it away before the sum.
LEMMA FilledStep == Filled /\ [Next]_vars => Filled'
<1> SUFFICES ASSUME Filled, [Next]_vars PROVE Filled'
  OBVIOUS
<1> USE DEF ring, sems, local, At, Goto
<1>1. CASE FetchBlock
  <2>1. PICK b \in Blocks : ptr' = b
    BY <1>1 DEF FetchBlock
  <2>2. Len(b) >= 1 /\ b \in Seq(Byte)
    BY BlockSeq
  <2>3. b # <<>>
    BY <2>2, EmptySeq
  <2>4. QED
    BY <2>1, <2>3 DEF Filled
<1>2. CASE TestRoom \/ Suspend \/ TakeResume \/ CopyIn
  BY <1>2 DEF Filled, TestRoom, Suspend, TakeResume, CopyIn
<1>3. CASE \/ ReceiveJob \/ TestStopping \/ FetchNothing \/ AddLength
           \/ NotifyReady \/ CloseJob \/ SetStopped \/ WakeReader \/ ResetRing
  <2>1. worker' \in {"recv", "top", "close", "fetch", "notify", "stop",
                     "wake", "reset"}
    BY <1>3 DEF ReceiveJob, TestStopping, FetchNothing, AddLength,
                NotifyReady, CloseJob, SetStopped, WakeReader, ResetRing
  <2>2. QED
    BY <2>1 DEF Filled
<1>4. CASE Player \/ UNCHANGED vars
  <2>1. UNCHANGED <<worker, ptr>>
    BY <1>4 DEF Player, vars, Request, ConnectFailed, CloseRefused, WaitReady,
                DecoderEnds, net_buf_stop_job, net_buf_start_job,
                net_buf_read, CopyOut
  <2>2. QED
    BY <2>1 DEF Filled
<1>5. QED
  BY <1>1, <1>2, <1>3, <1>4 DEF Next, Worker

\* Nothing is live, pending or queued at the start.
LEMMA FifoInit == Init => Fifo!Init
BY DEF Init, Fifo!Init, Live, InJob

\* Every step is one of the abstract queue, or changes none of its variables.
LEMMA FifoStep ==
  /\ TypeOK /\ TypeOK' /\ RoomInv /\ RingConsistent /\ Stored /\ Filled
  /\ [Next]_vars
  => [Fifo!Next]_<<Live, Pending, Queue>>
<1> SUFFICES ASSUME TypeOK, TypeOK', RoomInv, RingConsistent, Stored, Filled,
                    [Next]_vars
             PROVE  [Fifo!Next]_<<Live, Pending, Queue>>
  OBVIOUS
<1> DEFINE holds == {"room", "suspend", "take", "copy", "add"}
           Goal == [Fifo!Next]_<<Live, Pending, Queue>>
<1>a. Live' = Live /\ Pending' = Pending /\ Queue' = Queue => Goal
  OBVIOUS
<1>b. Live \in BOOLEAN /\ Live' \in BOOLEAN
  BY DEF Live
<1>1. ~ Live /\ ~ Live' => Goal
  BY <1>a, <1>b, Zenon DEF Pending, Queue
<1>2. Live /\ ~ Live' => Goal
  <2>1. ~ Live' => Pending' = <<>> /\ Queue' = <<>> /\ Live' = FALSE
    BY <1>b, Zenon DEF Pending, Queue
  <2>2. Live /\ ~ Live' => Fifo!Close
    BY <2>1, Zenon DEF Pending, Queue, Fifo!Close
  <2>3. QED
    BY <2>2 DEF Fifo!Next
<1>3. ASSUME buffer_data' = buffer_data, read_index' = read_index,
             data_length' = data_length, Live' <=> Live,
             \/ ptr' = ptr /\ (worker' \in holds <=> worker \in holds)
             \/ worker \notin holds /\ worker' \notin holds
      PROVE  Goal
  <2>1. Unread' = Unread
    BY <1>3, UnreadAre, Zenon
  <2>2. Pending' = Pending /\ Queue' = Queue
    BY <1>3, <2>1, Zenon DEF Pending, Queue
  <2>3. Live' = Live
    BY <1>3, <1>b
  <2>4. QED
    BY <1>a, <2>2, <2>3
<1> SUFFICES Goal
  OBVIOUS
<1> HIDE DEF Goal
<1> USE DEF ring, sems, local
<1>4. CASE \/ Request \/ ConnectFailed \/ CloseRefused \/ WaitReady
           \/ DecoderEnds \/ UNCHANGED vars
  <2>1. /\ buffer_data' = buffer_data /\ read_index' = read_index
        /\ data_length' = data_length
        /\ ptr' = ptr /\ worker' = worker /\ stat' = stat
    BY <1>4 DEF Request, ConnectFailed, CloseRefused, WaitReady, DecoderEnds,
                vars
  <2>2. Live' <=> Live
    BY <2>1 DEF Live
  <2>3. QED
    BY <1>1, <1>3, <2>1, <2>2
<1>5. ASSUME NEW s \in Session, net_buf_start_job(s)
      PROVE  Goal
  <2>1. /\ buffer_data' = buffer_data /\ read_index' = read_index
        /\ data_length' = data_length
        /\ ptr' = ptr /\ worker' = worker
        /\ \/ stat' = stat
           \/ stat = "STOPPED" /\ stat' = "BUFFERING"
    BY <1>5 DEF net_buf_start_job, MayStart
  <2>2. Live' <=> Live
    BY <2>1 DEF Live, RoomInv, ActiveStat
  <2>3. QED
    BY <1>1, <1>3, <2>1, <2>2
<1>6. CASE net_buf_stop_job
  <2>1. /\ buffer_data' = buffer_data /\ read_index' = read_index
        /\ data_length' = data_length
        /\ ptr' = ptr /\ worker' = worker
        /\ stat' = stat \/ stat' = "STOPPING"
    BY <1>6 DEF net_buf_stop_job
  <2>2. Live' => Live
    BY <2>1 DEF Live
  <2>3. QED
    BY <1>1, <1>2, <1>3, <2>1, <2>2
<1>7. ASSUME NEW length \in 1 .. MaxRead, net_buf_read(length)
      PROVE  Goal
  <2> DEFINE n == IF length > data_length THEN data_length ELSE length
  <2>1. n \in 0 .. Size /\ data_length \in Nat /\ n <= data_length
    BY SizeAssumption DEF TypeOK
  <2>2. /\ read_index' = IF n > 0 THEN AdvanceRead(n) ELSE read_index
        /\ data_length' = data_length - n
        /\ buffer_data' = buffer_data /\ ptr' = ptr /\ worker' = worker
        /\ \/ stat' = stat
           \/ stat = "SUSPEND" /\ stat' = "BUFFERING"
    BY <1>7 DEF net_buf_read, CopyOut, Resumes
  <2> HIDE DEF n
  <2>3. Live' <=> Live
    BY <2>2 DEF Live
  <2>4. CASE n = 0
    <3>1. /\ buffer_data' = buffer_data /\ read_index' = read_index
          /\ data_length' = data_length /\ ptr' = ptr /\ worker' = worker
      BY <2>1, <2>2, <2>4
    <3>2. QED
      BY <1>1, <1>3, <2>3, <3>1
  <2>5. CASE n > 0 /\ Live
    <3>1. n \in 1 .. Size
      BY <2>1, <2>5, SizeAssumption
    <3>2. Unread' = SubSeq(Unread, n + 1, data_length)
      <4>1. Unread' = UnreadOf(buffer_data, AdvanceRead(n), data_length - n)
        BY <2>2, <2>5, UnreadAre
      <4>2. QED
        BY <2>1, <3>1, <4>1, UnreadAre, UnreadRead
    <3>3. Len(Unread) = data_length
      <4>1. read_index \in Nat /\ buffer_data \in [Index -> Byte]
        BY SizeAssumption DEF TypeOK, Index
      <4>2. QED
        BY <2>1, <4>1, UnreadAre, UnreadShape
    <3>4. n \in 1 .. Len(Unread)
      BY <2>1, <2>5, <3>3
    <3>5. Queue = Unread /\ Queue' = Unread' /\ Pending' = Pending
      BY <2>2, <2>3, <2>5 DEF Queue, Pending
    <3>6. Fifo!Get
      BY <2>3, <2>5, <3>2, <3>3, <3>4, <3>5
         DEF Fifo!Get, Queue, Pending
    <3>7. QED
      BY <3>6 DEF Fifo!Next, Goal
  <2>6. QED
    BY <1>1, <2>1, <2>3, <2>4, <2>5
<1>8. CASE ReceiveJob
  <2>1. worker = "recv" /\ ~ Live
    BY <1>8 DEF ReceiveJob, At, Live, InJob
  <2>2. CASE stat = "BUFFERING"
    <3>1. /\ worker' = "top" /\ stat' = "BUFFERING" /\ data_length' = 0
          /\ read_index' = 0
      BY <1>8, <2>2 DEF ReceiveJob, Goto
    <3>2. Live' /\ Pending' = <<>> /\ Pending = <<>>
      BY <2>1, <3>1 DEF Live, InJob, Pending
    <3>3. Queue' = <<>> /\ Queue = <<>>
      <4>1. /\ read_index' \in Nat /\ data_length' \in Nat
            /\ buffer_data' \in [Index -> Byte]
        BY <3>1 DEF TypeOK
      <4>2. Unread' \in Seq(Byte) /\ Len(Unread') = 0
        BY <3>1, <4>1, UnreadAre, UnreadShape
      <4>3. Unread' = <<>>
        BY <4>2, EmptySeq
      <4>4. QED
        BY <2>1, <3>2, <4>3 DEF Queue
    <3>4. Fifo!Open
      BY <2>1, <3>2, <3>3 DEF Fifo!Open, Pending, Queue
    <3>5. QED
      BY <3>4 DEF Fifo!Next, Goal
  <2>3. CASE stat # "BUFFERING"
    <3>1. worker' = "recv"
      BY <1>8, <2>3 DEF ReceiveJob, Goto
    <3>2. QED
      BY <1>1, <2>1, <3>1 DEF Live, InJob
  <2>4. QED
    BY <2>2, <2>3
<1>9. CASE FetchBlock
  <2>1. PICK b \in Blocks : ptr' = b
    BY <1>9 DEF FetchBlock
  <2>2. /\ worker = "fetch" /\ worker' = "room"
        /\ buffer_data' = buffer_data /\ read_index' = read_index
        /\ data_length' = data_length
    BY <1>9 DEF FetchBlock, At, Goto
  <2>3. Live /\ Live'
    BY <2>2 DEF Live, InJob
  <2>4. Pending = <<>> /\ Pending' \in Blocks /\ Queue' = Queue
    <3>1. Unread' = Unread
      BY <2>2, UnreadAre, Zenon
    <3>2. QED
      BY <2>1, <2>2, <2>3, <3>1 DEF Pending, Queue
  <2>5. Fifo!Fetch
    BY <2>3, <2>4 DEF Fifo!Fetch, Pending, Queue
  <2>6. QED
    BY <2>5 DEF Fifo!Next, Goal
<1>10. CASE CopyIn
  <2>1. /\ worker = "copy" /\ worker' = "add"
        /\ UNCHANGED <<read_index, data_length, ptr, stat>>
    BY <1>10 DEF CopyIn, At, Goto
  <2>2. Live' <=> Live
    BY <2>1 DEF Live, InJob
  <2>3. ASSUME Live PROVE Goal
    <3>1. data_length + Len(ptr) <= Size
      BY <2>1, <2>3 DEF RoomInv, NoOverrun, Live
    <3>2. \A i \in 1 .. data_length :
            buffer_data'[(read_index + i - 1) % Size]
              = buffer_data[(read_index + i - 1) % Size]
      BY <1>10, <3>1, CopyBehind
    <3>3. Unread' = Unread
      <4>1. UnreadOf(buffer_data', read_index, data_length)
              = UnreadOf(buffer_data, read_index, data_length)
        BY <3>2, Zenon DEF UnreadOf
      <4>2. QED
        BY <2>1, <4>1, UnreadAre
    <3>4. Pending' = Pending /\ Queue' = Queue /\ Live' = Live
      BY <1>b, <2>1, <2>2, <2>3, <3>3 DEF Pending, Queue
    <3>5. QED
      BY <1>a, <3>4
  <2>4. QED
    BY <1>1, <2>2, <2>3
<1>11. CASE AddLength
  <2>1. /\ worker = "add" /\ worker' = "notify"
        /\ data_length' = data_length + Len(ptr)
        /\ UNCHANGED <<read_index, buffer_data, ptr, stat>>
    BY <1>11 DEF AddLength, At, Goto
  <2>2. Live' <=> Live
    BY <2>1 DEF Live, InJob
  <2>3. ASSUME Live PROVE Fifo!Put
    <3>1. stat # "STOPPING"
      BY <2>1, <2>3 DEF Live
    <3>2. Unread' = Unread \o ptr
      <4>1. Unread' = UnreadOf(buffer_data, read_index,
                               data_length + Len(ptr))
        BY <2>1, UnreadAre
      <4>2. QED
        BY <2>1, <3>1, <4>1, UnreadAdd
    <3>3. Len(Unread) = data_length
      <4>1. /\ read_index \in Nat /\ buffer_data \in [Index -> Byte]
            /\ data_length \in Nat
        BY SizeAssumption DEF TypeOK, Index
      <4>2. QED
        BY <4>1, UnreadAre, UnreadShape
    <3>4. ptr # <<>> /\ data_length + Len(ptr) <= Size
      BY <2>1, <3>1 DEF RoomInv, NoOverrun, Filled
    <3>5. /\ Pending = ptr /\ Pending' = <<>>
          /\ Queue = Unread /\ Queue' = Unread'
      BY <2>1, <2>2, <2>3 DEF Pending, Queue
    <3>6. QED
      BY <2>2, <2>3, <3>2, <3>3, <3>4, <3>5 DEF Fifo!Put, Pending, Queue
  <2>4. QED
    BY <1>1, <2>2, <2>3 DEF Fifo!Next, Goal
<1>12. CASE TestStopping \/ FetchNothing \/ TestRoom \/ TakeResume
            \/ NotifyReady
  <2>1. /\ buffer_data' = buffer_data /\ read_index' = read_index
        /\ data_length' = data_length /\ ptr' = ptr /\ stat' = stat
        /\ \/ /\ worker = "top" /\ worker' \in {"close", "fetch"}
              /\ (stat = "STOPPING" => worker' = "close")
           \/ worker = "fetch" /\ worker' = "close"
           \/ worker = "room" /\ worker' \in {"suspend", "copy"}
           \/ worker = "take" /\ worker' = "copy"
           \/ worker = "notify" /\ worker' = "top"
    BY <1>12 DEF TestStopping, FetchNothing, TestRoom, TakeResume,
                 NotifyReady, At, Goto
  <2>2. Live' => Live
    BY <2>1 DEF Live, InJob
  <2>3. Live /\ Live' => Goal
    BY <1>3, <2>1 DEF Live
  <2>4. QED
    BY <1>1, <1>2, <2>2, <2>3
<1>13. CASE Suspend
  <2>1. /\ buffer_data' = buffer_data /\ read_index' = read_index
        /\ data_length' = data_length /\ ptr' = ptr
        /\ worker = "suspend" /\ worker' = "take" /\ stat' = "SUSPEND"
    BY <1>13 DEF Suspend, At, Goto
  <2>2. Live /\ Live'
    BY <2>1 DEF Live, InJob
  <2>3. QED
    BY <1>3, <2>1, <2>2
<1>14. CASE CloseJob \/ SetStopped \/ WakeReader \/ ResetRing
  <2>1. /\ worker \in {"close", "stop", "wake", "reset"}
        /\ worker' \in {"stop", "wake", "reset", "recv"}
    BY <1>14 DEF CloseJob, SetStopped, WakeReader, ResetRing, At, Goto
  <2>2. ~ Live /\ ~ Live'
    BY <2>1 DEF Live, InJob
  <2>3. QED
    BY <1>1, <2>2
<1>15. QED
  BY <1>4, <1>5, <1>6, <1>7, <1>8, <1>9, <1>10, <1>11, <1>12, <1>13, <1>14
     DEF Next, Player, Worker

(* The ring implements a bounded byte queue that is empty at the start of  *)
(* every job: whatever the player and the worker do to each other, what    *)
(* was fetched is read once and in order.  (netbuffer.c:79-151, 234-325)   *)
THEOREM FifoTheorem == Spec => ImplementsFifo
<1>1. TypeOK /\ RoomInv /\ RingConsistent /\ Stored /\ [Next]_vars => Stored'
  BY StoredStep
<1>2. Init => Stored /\ Filled
  BY DEF Init, Stored, Filled
<1>3. /\ TypeOK /\ TypeOK' /\ RoomInv /\ RingConsistent /\ Stored /\ Filled
      /\ [Next]_vars
      => [Fifo!Next]_<<Live, Pending, Queue>>
  BY FifoStep
<1>4. QED
  BY TypeCorrect, WakeInit, WakeStep, RoomInit, RoomStep, RingInit, RingStep,
     <1>1, <1>2, FilledStep, <1>3, FifoInit, PTL
     DEF Spec, ImplementsFifo, Fifo!Spec, Pending, Queue
=============================================================================
