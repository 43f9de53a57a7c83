---------------------------- MODULE Dm9000Proofs ----------------------------
(* Proofs about Dm9000 for every size of the mailbox and of the chip's     *)
(* memory.                                                                 *)
EXTENDS Dm9000Props, TLAPS

LEMMA InitHolds == Init => IInv
<1> SUFFICES ASSUME Init
             PROVE IInv
  OBVIOUS
<1>1. TypeOK
  <2>1. fifo \in 0 .. Room /\ mail \in 0 .. MailSize
    BY MailSizeAssumption, RoomAssumption DEF Init
  <2>2. /\ onWire \in Packets \cup {NoPacket} /\ sent \in Packets
        /\ queue_packet_len \in Packets \cup {NoPacket} /\ handed \in Packets
    BY DEF Init, Packets
  <2>3. packet_cnt \in 0 .. 2 /\ sem_ack \in 0 .. 2
    BY DEF Init, Opens
  <2> QED
    BY <2>1, <2>2, <2>3 DEF Init, TypeOK
<1>2. Counted /\ Numbered /\ Locked /\ Masked /\ Latched /\ Seen
  BY DEF Init, Counted, Numbered, Locked, Masked, Latched, Seen, Line, Sending,
     Serving, One, Following, Enables, Opens, Watched
<1>3. Stage
  BY DEF Init, Stage, One
<1> QED
  BY <1>1, <1>2, <1>3 DEF IInv

(* The end of a packet: the latch takes it over from the wire. *)
LEMMA TransmittedKeeps ==
  ASSUME IInv, Transmitted
  PROVE IInv'
<1>1. TypeOK'
  BY DEF IInv, Transmitted, interrupt, EdgeLatched, driver, threads, TypeOK,
     Status, Enables
<1>2. Stage'
  BY DEF IInv, Transmitted, interrupt, driver, Stage, EndReported, One
<1>3. Masked'
  BY DEF IInv, Transmitted, interrupt, EdgeLatched, threads, Masked, Sending,
     Serving, Line
<1>4. Latched'
  BY DEF IInv, Transmitted, interrupt, EdgeLatched, Latched
<1>5. Seen'
  BY DEF IInv, Transmitted, interrupt, driver, threads, Seen, Watched
<1>6. Counted' /\ Numbered' /\ Locked'
  BY DEF IInv, Transmitted, interrupt, driver, threads, Counted, Numbered,
     Locked, Sending
<1> QED
  BY <1>1, <1>2, <1>3, <1>4, <1>5, <1>6 DEF IInv

(* A packet has come: the latch says so. *)
LEMMA ReceivedKeeps ==
  ASSUME IInv, Received
  PROVE IInv'
<1>1. TypeOK'
  BY RoomAssumption DEF IInv, Received, interrupt, EdgeLatched, driver,
     threads, TypeOK, Status, Enables
<1>2. Stage'
  BY DEF IInv, Received, interrupt, driver, Stage, EndReported
<1>3. Masked'
  BY DEF IInv, Received, interrupt, EdgeLatched, threads, Masked, Sending,
     Serving, Line
<1>4. Latched'
  BY DEF IInv, Received, interrupt, EdgeLatched, Latched
<1>5. Seen'
  BY DEF IInv, Received, interrupt, driver, threads, Seen
<1>6. Counted' /\ Numbered' /\ Locked'
  BY DEF IInv, Received, interrupt, driver, threads, Counted, Numbered,
     Locked, Sending
<1> QED
  BY <1>1, <1>2, <1>3, <1>4, <1>5, <1>6 DEF IInv

(* The link has changed: a bit of the latch that raises no line. *)
LEMMA LinkChangedKeeps ==
  ASSUME IInv, LinkChanged
  PROVE IInv'
<1>1. TypeOK'
  BY DEF IInv, LinkChanged, interrupt, driver, threads, TypeOK, Status, Enables
<1>2. Stage'
  BY DEF IInv, LinkChanged, interrupt, driver, Stage, EndReported
<1>3. Masked'
  BY DEF IInv, LinkChanged, interrupt, threads, Masked, Sending, Serving
<1>4. Latched'
  BY DEF IInv, LinkChanged, interrupt, Latched, Line, TypeOK, Enables
<1>5. Seen'
  BY DEF IInv, LinkChanged, interrupt, driver, threads, Seen, Watched
<1>6. Counted' /\ Numbered' /\ Locked'
  BY DEF IInv, LinkChanged, driver, threads, Counted, Numbered, Locked, Sending
<1> QED
  BY <1>1, <1>2, <1>3, <1>4, <1>5, <1>6 DEF IInv

(* The handler is entered. *)
LEMMA EXTI4_IRQHandlerKeeps ==
  ASSUME IInv, EXTI4_IRQHandler
  PROVE IInv'
<1>1. TypeOK'
  BY DEF IInv, EXTI4_IRQHandler, chip, driver, threads, TypeOK
<1>2. Masked'
  BY DEF IInv, EXTI4_IRQHandler, chip, threads, Masked, Sending, Serving
<1>3. Latched'
  BY DEF IInv, EXTI4_IRQHandler, Latched
<1>4. Counted' /\ Stage' /\ Numbered' /\ Locked' /\ Seen'
  BY DEF IInv, EXTI4_IRQHandler, chip, driver, threads, Counted, Stage,
     EndReported, Numbered, Locked, Seen, Sending, Watched
<1> QED
  BY <1>1, <1>2, <1>3, <1>4 DEF IInv

(* The handler ends with the line down. *)
LEMMA HandlerReturnsKeeps ==
  ASSUME IInv, HandlerReturns
  PROVE IInv'
<1>1. TypeOK'
  BY DEF IInv, HandlerReturns, chip, driver, threads, TypeOK
<1>2. Masked'
  BY DEF IInv, HandlerReturns, chip, threads, Masked, Sending, Serving
<1>3. Latched'
  BY DEF IInv, HandlerReturns, chip, Latched, Line
<1>4. Counted' /\ Stage' /\ Numbered' /\ Locked' /\ Seen'
  BY DEF IInv, HandlerReturns, chip, driver, threads, Counted, Stage,
     EndReported, Numbered, Locked, Seen, Sending, Watched
<1> QED
  BY <1>1, <1>2, <1>3, <1>4 DEF IInv

(* The handler takes the latch over. *)
LEMMA GotStatusKeeps ==
  ASSUME IInv, GotStatus
  PROVE IInv'
<1>1. TypeOK'
  BY DEF IInv, GotStatus, driver, threads, TypeOK
<1>2. Stage'
  BY DEF IInv, GotStatus, driver, Stage, EndReported, One, Masked, Serving
<1>3. Masked'
  <2>1. ~ Sending
    BY DEF IInv, GotStatus, Line, Masked
  <2> QED
    BY <2>1 DEF IInv, GotStatus, threads, Masked, Sending, Serving
<1>4. Latched'
  BY DEF IInv, GotStatus, Latched
<1>5. Seen'
  BY DEF IInv, GotStatus, driver, threads, Seen, Watched, Masked, Serving
<1>6. Counted' /\ Numbered' /\ Locked'
  BY DEF IInv, GotStatus, driver, threads, Counted, Numbered, Locked, Sending
<1> QED
  BY <1>1, <1>2, <1>3, <1>4, <1>5, <1>6 DEF IInv

(* The handler reads NSR for the link: an end it shows is lost. *)
LEMMA LinkReadKeeps ==
  ASSUME IInv, LinkRead
  PROVE IInv'
<1>1. TypeOK'
  BY DEF IInv, LinkRead, driver, threads, TypeOK
<1>2. Stage'
  BY DEF IInv, LinkRead, driver, Stage, EndReported, One, TypeOK
<1>3. Masked'
  BY DEF IInv, LinkRead, threads, Masked, Sending, Serving
<1>4. Latched'
  BY DEF IInv, LinkRead, Latched
<1>5. Seen'
  BY DEF IInv, LinkRead, driver, threads, Seen, Watched
<1>6. Counted' /\ Numbered' /\ Locked'
  BY DEF IInv, LinkRead, driver, threads, Counted, Numbered, Locked, Sending
<1> QED
  BY <1>1, <1>2, <1>3, <1>4, <1>5, <1>6 DEF IInv

(* The handler serves its copy of the latch. *)
LEMMA rt_dm9000_isrKeeps ==
  ASSUME IInv, rt_dm9000_isr
  PROVE IInv'
<1>1. TypeOK'
  <2>1. isr' = isr /\ imr' \in {Enables, ReceiveOff} /\ fifo' = fifo
    BY DEF IInv, TypeOK, rt_dm9000_isr
  <2>2. ASSUME "PTS" \in int_status, nsr
        PROVE /\ packet_cnt' \in 0 .. 2 /\ sem_ack' \in 0 .. 2
              /\ packet_cnt' > 0 => queue_packet_len \in Packets
    <3>1. packet_cnt > 0
      BY <2>2 DEF IInv, TypeOK, Stage, EndReported, One
    <3>2. packet_cnt = 2 => queue_packet_len \in Packets
      BY DEF IInv, TypeOK, Masked, Serving, Sending, Numbered, rt_dm9000_isr
    <3> QED
      BY <2>2, <3>1, <3>2
      DEF IInv, TypeOK, rt_dm9000_isr, TransmitDone, Counted, One
  <2>3. /\ packet_cnt' \in 0 .. 2 /\ sem_ack' \in 0 .. 2
        /\ onWire' \in Packets \cup {NoPacket} /\ sent' \in Packets
        /\ nsr' \in BOOLEAN
    <3>1. CASE "PTS" \in int_status /\ nsr
      <4>1. /\ packet_cnt' \in 0 .. 2 /\ sem_ack' \in 0 .. 2
            /\ packet_cnt' > 0 => queue_packet_len \in Packets
        BY <2>2, <3>1
      <4>2. /\ nsr' = FALSE
            /\ \/ Second(packet_cnt') /\ Start(queue_packet_len)
               \/ UNCHANGED <<onWire, sent>>
        BY <3>1 DEF rt_dm9000_isr, TransmitDone
      <4>3. onWire' \in Packets \cup {NoPacket} /\ sent' \in Packets
              /\ nsr' \in BOOLEAN
        BY <4>1, <4>2 DEF IInv, TypeOK, Start, Second
      <4> QED
        BY <4>1, <4>3
    <3>2. CASE ~ ("PTS" \in int_status /\ nsr)
      BY <3>2 DEF IInv, TypeOK, rt_dm9000_isr, TransmitDone
    <3> QED
      BY <3>1, <3>2
  <2> QED
    BY MailSizeAssumption, <2>1, <2>3
    DEF IInv, TypeOK, rt_dm9000_isr, EdgeLatched, threads, ReceiveOff, Enables
<1>2. Counted'
  BY DEF IInv, rt_dm9000_isr, TransmitDone, threads, Counted, TypeOK
<1>3. Stage'
  BY DEF IInv, rt_dm9000_isr, TransmitDone, Start, Second, Stage, EndReported,
     One, TypeOK, NoPacket, Packets, Numbered
<1>4. Numbered'
  BY DEF IInv, rt_dm9000_isr, TransmitDone, Start, Second, threads, Numbered,
     TypeOK
<1>5. Masked'
  BY DEF IInv, rt_dm9000_isr, TransmitDone, ReceiveOff, threads, Masked,
     Sending, Serving, TypeOK, Status, Enables
<1>6. Latched'
  BY DEF IInv, rt_dm9000_isr, TransmitDone, Latched
<1>7. Seen'
  BY MailSizeAssumption DEF IInv, rt_dm9000_isr, TransmitDone, threads, Seen,
     Watched, TypeOK
<1>8. Locked'
  BY DEF IInv, rt_dm9000_isr, TransmitDone, threads, Locked, Sending
<1> QED
  BY <1>1, <1>2, <1>3, <1>4, <1>5, <1>6, <1>7, <1>8 DEF IInv

(* etx masks the chip. *)
LEMMA TxBeginsKeeps ==
  ASSUME IInv, TxBegins /\ Access
  PROVE IInv'
<1>1. TypeOK'
  BY DEF IInv, TxBegins, Access, interrupt, TypeOK, Packets, Following
<1>2. Counted'
  BY DEF IInv, TxBegins, Counted
<1>3. Numbered'
  BY DEF IInv, TxBegins, Numbered, TypeOK, Counted, One
<1>4. Locked'
  BY DEF IInv, TxBegins, Locked, Sending
<1>5. Masked'
  BY DEF IInv, TxBegins, Access, Runs, interrupt, Masked, Sending, Serving,
     Line
<1>6. Latched'
  BY DEF IInv, TxBegins, Access, Runs, Latched
<1>7. Stage' /\ Seen'
  BY DEF IInv, TxBegins, interrupt, Stage, EndReported, Seen, Watched
<1> QED
  BY <1>1, <1>2, <1>3, <1>4, <1>5, <1>6, <1>7 DEF IInv

(* etx starts a packet. *)
LEMMA FirstPacketKeeps ==
  ASSUME IInv, FirstPacket /\ Access
  PROVE IInv'
<1>1. TypeOK'
  BY DEF IInv, FirstPacket, Access, Start, interrupt, TypeOK
<1>2. Counted'
  BY DEF IInv, FirstPacket, Counted, One, TypeOK
<1>3. Stage'
  BY DEF IInv, FirstPacket, Start, interrupt, Stage, EndReported, One, TypeOK,
     NoPacket, Packets
<1>4. Numbered'
  BY DEF IInv, FirstPacket, Start, Numbered
<1>5. Locked'
  BY DEF IInv, FirstPacket, Locked, Sending
<1>6. Masked'
  BY DEF IInv, FirstPacket, Access, interrupt, Masked, Sending, Serving, Line
<1>7. Latched'
  BY DEF IInv, FirstPacket, Access, Runs, Latched
<1>8. Seen'
  BY DEF IInv, FirstPacket, interrupt, Seen, Watched
<1> QED
  BY <1>1, <1>2, <1>3, <1>4, <1>5, <1>6, <1>7, <1>8 DEF IInv

(* etx queues a packet. *)
LEMMA SecondPacketKeeps ==
  ASSUME IInv, SecondPacket /\ Access
  PROVE IInv'
<1>1. TypeOK'
  BY DEF IInv, SecondPacket, Access, Queued, chip, interrupt, TypeOK, Numbered
<1>2. Counted'
  BY DEF IInv, SecondPacket, Counted, One, TypeOK
<1>3. Stage'
  BY DEF IInv, SecondPacket, chip, interrupt, Stage, EndReported, TypeOK
<1>4. Numbered'
  BY DEF IInv, SecondPacket, Queued, chip, Numbered, TypeOK
<1>5. Locked'
  BY DEF IInv, SecondPacket, Locked, Sending
<1>6. Masked'
  BY DEF IInv, SecondPacket, Access, chip, interrupt, Masked, Sending,
     Serving, Line
<1>7. Latched'
  BY DEF IInv, SecondPacket, Access, Runs, Latched
<1>8. Seen'
  BY DEF IInv, SecondPacket, chip, interrupt, Seen, Watched
<1> QED
  BY <1>1, <1>2, <1>3, <1>4, <1>5, <1>6, <1>7, <1>8 DEF IInv

(* etx unmasks the chip: a report that came meanwhile is an edge. *)
LEMMA TxUnlocksKeeps ==
  ASSUME IInv, TxUnlocks /\ Access
  PROVE IInv'
<1>1. TypeOK'
  BY DEF IInv, TxUnlocks, Access, interrupt, TypeOK, Status, Enables,
     ReceiveOff
<1>2. Counted'
  BY DEF IInv, TxUnlocks, Counted
<1>3. Numbered'
  BY DEF IInv, TxUnlocks, Numbered
<1>4. Locked'
  BY DEF IInv, TxUnlocks, Locked, Sending
<1>5. Masked'
  BY DEF IInv, TxUnlocks, interrupt, Masked, Sending, Serving, TypeOK, Status,
     Enables, ReceiveOff
<1>6. Latched'
  BY DEF IInv, TxUnlocks, Access, Runs, Latched
<1>7. Stage' /\ Seen'
  BY DEF IInv, TxUnlocks, interrupt, Stage, EndReported, Seen, Watched
<1> QED
  BY <1>1, <1>2, <1>3, <1>4, <1>5, <1>6, <1>7 DEF IInv

(* etx takes the acknowledgement. *)
LEMMA TxReturnsKeeps ==
  ASSUME IInv, TxReturns /\ Access
  PROVE IInv'
<1>1. TypeOK'
  BY DEF IInv, TxReturns, Access, chip, interrupt, TypeOK
<1>2. Counted'
  BY DEF IInv, TxReturns, Counted, One, TypeOK
<1>3. Numbered'
  BY DEF IInv, TxReturns, chip, Numbered
<1>4. Locked'
  BY DEF IInv, TxReturns, Locked, Sending
<1>5. Masked'
  BY DEF IInv, TxReturns, chip, interrupt, Masked, Sending, Serving
<1>6. Latched'
  BY DEF IInv, TxReturns, Access, Runs, Latched
<1>7. Stage' /\ Seen'
  BY DEF IInv, TxReturns, chip, interrupt, Stage, EndReported, Seen, Watched
<1> QED
  BY <1>1, <1>2, <1>3, <1>4, <1>5, <1>6, <1>7 DEF IInv

(* erx takes a message. *)
LEMMA RxWakesKeeps ==
  ASSUME IInv, RxWakes /\ Access
  PROVE IInv'
<1>1. TypeOK'
  BY MailSizeAssumption DEF IInv, RxWakes, Access, chip, interrupt, TypeOK
<1>2. Locked'
  BY DEF IInv, RxWakes, Locked, Sending
<1>3. Masked'
  BY DEF IInv, RxWakes, Access, chip, interrupt, Masked, Sending, Serving, Line
<1>4. Latched'
  BY DEF IInv, RxWakes, Access, Runs, Latched
<1>5. Seen'
  BY DEF IInv, RxWakes, Seen, Watched
<1>6. Counted' /\ Stage' /\ Numbered'
  BY DEF IInv, RxWakes, chip, interrupt, Counted, Stage, EndReported, Numbered
<1> QED
  BY <1>1, <1>2, <1>3, <1>4, <1>5, <1>6 DEF IInv

(* erx takes the lock. *)
LEMMA RxLocksKeeps ==
  ASSUME IInv, RxLocks /\ Access
  PROVE IInv'
<1>1. TypeOK'
  BY DEF IInv, RxLocks, Access, chip, interrupt, TypeOK
<1>2. Locked'
  BY DEF IInv, RxLocks, Locked, Sending
<1>3. Masked'
  BY DEF IInv, RxLocks, chip, interrupt, Masked, Sending, Serving, Locked
<1>4. Latched'
  BY DEF IInv, RxLocks, Access, Runs, Latched
<1>5. Seen'
  BY DEF IInv, RxLocks, Seen, Watched
<1>6. Counted' /\ Stage' /\ Numbered'
  BY DEF IInv, RxLocks, chip, interrupt, Counted, Stage, EndReported, Numbered
<1> QED
  BY <1>1, <1>2, <1>3, <1>4, <1>5, <1>6 DEF IInv

(* erx reads a packet. *)
LEMMA RxReadsKeeps ==
  ASSUME IInv, RxReads /\ Access
  PROVE IInv'
<1>1. TypeOK'
  BY RoomAssumption DEF IInv, RxReads, Access, interrupt, TypeOK
<1>2. Locked'
  BY DEF IInv, RxReads, Locked, Sending
<1>3. Masked'
  BY DEF IInv, RxReads, interrupt, Masked, Sending, Serving, Locked
<1>4. Latched'
  BY DEF IInv, RxReads, Access, Runs, Latched
<1>5. Seen'
  BY DEF IInv, RxReads, Seen, Watched
<1>6. Counted' /\ Stage' /\ Numbered'
  BY DEF IInv, RxReads, interrupt, Counted, Stage, EndReported, Numbered
<1> QED
  BY <1>1, <1>2, <1>3, <1>4, <1>5, <1>6 DEF IInv

(* erx finds the chip empty. *)
LEMMA RxEmptyKeeps ==
  ASSUME IInv, RxEmpty /\ Access
  PROVE IInv'
<1>1. TypeOK'
  BY DEF IInv, RxEmpty, Access, chip, interrupt, driver, TypeOK
<1>2. Locked'
  BY DEF IInv, RxEmpty, driver, Locked, Sending
<1>3. Masked'
  BY DEF IInv, RxEmpty, chip, interrupt, Masked, Sending, Serving, Locked
<1>4. Latched'
  BY DEF IInv, RxEmpty, Access, Runs, Latched
<1>5. Seen'
  BY DEF IInv, RxEmpty, chip, Seen
<1>6. Counted' /\ Stage' /\ Numbered'
  BY DEF IInv, RxEmpty, chip, interrupt, driver, Counted, Stage, EndReported,
     Numbered
<1> QED
  BY <1>1, <1>2, <1>3, <1>4, <1>5, <1>6 DEF IInv

(* erx clears the latch of the transmitter's bit, which is not set: the line
   is down, and the bit is enabled while erx holds the lock. *)
LEMMA RxClearsKeeps ==
  ASSUME IInv, RxClears /\ Access
  PROVE IInv'
<1>1. TypeOK'
  BY DEF IInv, RxClears, Access, interrupt, driver, TypeOK
<1>2. Stage'
  <2>1. int_status = {}
    BY DEF IInv, RxClears, Runs, Masked, Serving
  <2> QED
    BY <2>1 DEF IInv, TypeOK, RxClears, Cleared, interrupt, driver, Stage,
       EndReported, One
<1>3. Locked'
  BY DEF IInv, RxClears, driver, Locked, Sending
<1>4. Masked'
  BY DEF IInv, RxClears, interrupt, Masked, Sending, Serving, Locked
<1>5. Latched'
  BY DEF IInv, RxClears, Access, Runs, Latched
<1>6. Seen'
  BY DEF IInv, RxClears, Cleared, interrupt, driver, Seen, Watched
<1>7. Counted' /\ Numbered'
  BY DEF IInv, RxClears, driver, Counted, Numbered
<1> QED
  BY <1>1, <1>2, <1>3, <1>4, <1>5, <1>6, <1>7 DEF IInv

(* erx enables reception, in the variable. *)
LEMMA RxRestoresKeeps ==
  ASSUME IInv, RxRestores /\ Access
  PROVE IInv'
<1>1. TypeOK'
  BY DEF IInv, RxRestores, Access, Restored, Enables, chip, interrupt, TypeOK
<1>2. Locked'
  BY DEF IInv, RxRestores, Locked, Sending
<1>3. Masked'
  BY DEF IInv, RxRestores, chip, interrupt, Masked, Sending, Serving, Locked
<1>4. Latched'
  BY DEF IInv, RxRestores, Access, Runs, Latched
<1>5. Seen'
  BY DEF IInv, RxRestores, Restored, Enables, chip, interrupt, Seen, Watched
<1>6. Counted' /\ Stage' /\ Numbered'
  BY DEF IInv, RxRestores, chip, interrupt, Counted, Stage, EndReported,
     Numbered
<1> QED
  BY <1>1, <1>2, <1>3, <1>4, <1>5, <1>6 DEF IInv

(* erx enables reception, in the register. *)
LEMMA RxReturnsKeeps ==
  ASSUME IInv, RxReturns /\ Access
  PROVE IInv'
<1>1. TypeOK'
  BY DEF IInv, RxReturns, Access, Restored, Enables, interrupt, TypeOK,
     Status, ReceiveOff
<1>2. Locked'
  BY DEF IInv, RxReturns, Locked, Sending
<1>3. Masked'
  BY DEF IInv, RxReturns, Runs, Restored, Enables, interrupt, Masked, Sending,
     Serving, Locked, TypeOK, ReceiveOff
<1>4. Latched'
  BY DEF IInv, RxReturns, Access, Runs, Latched
<1>5. Seen'
  BY DEF IInv, RxReturns, interrupt, Seen, Watched
<1>6. Counted' /\ Stage' /\ Numbered'
  BY DEF IInv, RxReturns, interrupt, Counted, Stage, EndReported, Numbered
<1> QED
  BY <1>1, <1>2, <1>3, <1>4, <1>5, <1>6 DEF IInv

LEMMA StepKeeps ==
  ASSUME IInv, [Next]_vars
  PROVE IInv'
<1>1. CASE Transmitted
  BY <1>1, TransmittedKeeps
<1>2. CASE Received
  BY <1>2, ReceivedKeeps
<1>3. CASE EXTI4_IRQHandler
  BY <1>3, EXTI4_IRQHandlerKeeps
<1>4. CASE HandlerReturns
  BY <1>4, HandlerReturnsKeeps
<1>5. CASE GotStatus
  BY <1>5, GotStatusKeeps
<1>6. CASE rt_dm9000_isr
  BY <1>6, rt_dm9000_isrKeeps
<1>7. CASE TxBegins /\ Access
  BY <1>7, TxBeginsKeeps
<1>8. CASE FirstPacket /\ Access
  BY <1>8, FirstPacketKeeps
<1>9. CASE SecondPacket /\ Access
  BY <1>9, SecondPacketKeeps
<1>10. CASE TxUnlocks /\ Access
  BY <1>10, TxUnlocksKeeps
<1>11. CASE TxReturns /\ Access
  BY <1>11, TxReturnsKeeps
<1>12. CASE RxWakes /\ Access
  BY <1>12, RxWakesKeeps
<1>13. CASE RxLocks /\ Access
  BY <1>13, RxLocksKeeps
<1>14. CASE RxReads /\ Access
  BY <1>14, RxReadsKeeps
<1>15. CASE RxEmpty /\ Access
  BY <1>15, RxEmptyKeeps
<1>16. CASE RxClears /\ Access
  BY <1>16, RxClearsKeeps
<1>17. CASE RxRestores /\ Access
  BY <1>17, RxRestoresKeeps
<1>18. CASE RxReturns /\ Access
  BY <1>18, RxReturnsKeeps
<1>19. CASE UNCHANGED vars
  BY <1>19 DEF vars, chip, interrupt, driver, threads, IInv, TypeOK, Counted,
     Stage, EndReported, Numbered, Locked, Masked, Latched, Seen, Line,
     Watched, Sending, Serving
<1>20. CASE LinkChanged
  BY <1>20, LinkChangedKeeps
<1>21. CASE LinkRead
  BY <1>21, LinkReadKeeps
<1> QED
  BY <1>1, <1>2, <1>3, <1>4, <1>5, <1>6, <1>7, <1>8, <1>9, <1>10,
     <1>11, <1>12, <1>13, <1>14, <1>15, <1>16, <1>17, <1>18, <1>19, <1>20,
     <1>21
  DEF Next, Handler, Tx, TxGoesOn, Rx, Reads, Restores

LEMMA Invariant == Spec => []IInv
  BY InitHolds, StepKeeps, PTL DEF Spec

(* Types; no more than two packets are in the chip and no more than two    *)
(* acknowledgements in the semaphore.                                      *)
THEOREM TypeCorrect == Spec => []TypeOK
<1>1. IInv => TypeOK
  BY DEF IInv
<1> QED
  BY <1>1, Invariant, PTL

(* Short of the two places that lose an end, whatever the driver counts as *)
(* in the chip is being transmitted or its end about to be acknowledged.   *)
THEOREM AckComesTheorem == Spec => []AckComes
<1>1. IInv => AckComes
  BY DEF IInv, TypeOK, Stage, One, AckComes, EndReported
<1> QED
  BY <1>1, Invariant, PTL

(* An end is lost to the handler's reading of NSR for the link             *)
(* (dm9000a.c:180), or to erx's clearing of PTS (dm9000a.c:579) if that    *)
(* access was under way when the interrupt came: a prompt interrupt leaves *)
(* the second no end to lose.                                              *)
THEOREM EndsLostTheorem ==
  Spec => [][~ lost /\ lost'
               => handler = "link" \/ (erx = "clear" /\ pending = "new")]_vars
<1>1. ASSUME IInv, [Next]_vars, ~ lost, lost'
      PROVE handler = "link" \/ (erx = "clear" /\ pending = "new")
  <2>1. LinkRead \/ RxClears
    BY <1>1 DEF vars, Next, Handler, Tx, TxGoesOn, Rx, Reads, Restores,
       Transmitted, Received, LinkChanged, EXTI4_IRQHandler, HandlerReturns,
       GotStatus, rt_dm9000_isr, TxBegins, FirstPacket, SecondPacket,
       TxUnlocks, TxReturns, RxWakes, RxLocks, RxReads, RxEmpty, RxRestores,
       RxReturns
  <2>2. CASE LinkRead
    BY <2>2 DEF LinkRead
  <2>3. CASE RxClears
    <3>1. /\ "PTS" \in isr /\ handler = "idle"
          /\ erx = "clear" /\ pending # "late"
      BY <1>1, <2>3 DEF RxClears, Runs
    <3>2. "PTS" \in imr
      BY <1>1, <3>1 DEF IInv, Masked, Serving, Sending, Locked
    <3> QED
      BY <1>1, <3>1, <3>2 DEF IInv, TypeOK, Latched, Line
  <2> QED
    BY <2>1, <2>2, <2>3
<1> QED
  BY <1>1, Invariant, PTL DEF Spec

(* Every packet goes out once and in order, lost ends or not.              *)
THEOREM InOrderTheorem == Spec => InOrder
<1>1. ASSUME IInv, [Next]_vars, onWire' \notin {NoPacket, onWire}
      PROVE onWire = NoPacket /\ onWire' = Following(sent) /\ sent' = onWire'
  <2>1. CASE FirstPacket
    BY <1>1, <2>1 DEF IInv, TypeOK, Stage, One, Numbered, FirstPacket, Start
  <2>2. CASE rt_dm9000_isr
    <3>1. nsr /\ "PTS" \in int_status
      BY <1>1, <2>2 DEF rt_dm9000_isr, TransmitDone
    <3>2. packet_cnt = 2 /\ Start(queue_packet_len)
      BY <1>1, <2>2, <3>1
      DEF IInv, TypeOK, rt_dm9000_isr, TransmitDone, Second
    <3>3. ~ lost /\ onWire = NoPacket
      BY <1>1, <3>1 DEF IInv, TypeOK, Stage, EndReported, One
    <3>4. etx # "copied"
      BY <1>1, <2>2 DEF IInv, Masked, Serving, Sending, rt_dm9000_isr
    <3> QED
      BY <1>1, <3>2, <3>3, <3>4 DEF IInv, Numbered, Start
  <2>3. FirstPacket \/ rt_dm9000_isr
    BY <1>1 DEF vars, chip, Next, Handler, Tx, TxGoesOn, Rx, Reads, Restores,
       Transmitted, Received, LinkChanged, EXTI4_IRQHandler, HandlerReturns,
       GotStatus, LinkRead, TxBegins, SecondPacket, TxUnlocks, TxReturns,
       RxWakes, RxLocks, RxReads, RxEmpty, RxClears, RxRestores, RxReturns
  <2> QED
    BY <2>1, <2>2, <2>3
<1>2. ASSUME IInv, [Next]_vars
      PROVE [onWire' \notin {NoPacket, onWire}
               => onWire = NoPacket /\ onWire' = Following(sent)
                    /\ sent' = onWire']_<<onWire, sent>>
  BY <1>1, <1>2
<1> QED
  BY <1>2, Invariant, PTL DEF Spec, InOrder

(* No packet arrives unseen.                                               *)
THEOREM NoneUnseenTheorem == Spec => []NoneUnseen
<1>1. IInv => NoneUnseen
  BY DEF IInv, Seen, NoneUnseen, Masked, Watched, Serving, TypeOK, Status,
     Enables
<1> QED
  BY <1>1, Invariant, PTL
=============================================================================
