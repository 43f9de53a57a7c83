------------------------------- MODULE Dm9000 -------------------------------
(***************************************************************************)
(* The Ethernet driver (drivers/dm9000a.c) under lwIP's two threads        *)
(* (netif/ethernetif.c): etx hands packets to the chip one after the       *)
(* other, erx empties the chip's memory of received packets, and the       *)
(* interrupt EXTI4 serves what the chip reports.  The chip has room for a  *)
(* second packet while the first is on the wire; sem_ack, which starts at  *)
(* 1, keeps etx one packet ahead of the chip.                              *)
(*                                                                         *)
(* The chip reports "transmitted" (PTS), "received" (PRS) and "link        *)
(* changed" (LNKCHGS) in a latch, ISR, and raises its line while a bit of  *)
(* the latch is enabled in IMR; the driver enables the first two only.     *)
(* EXTI4 is triggered by the rise of that line and serves until it falls.  *)
(* NSR shows by TX1END or TX2END that a transmission has ended, and        *)
(* reading it clears them (nsr: one of them is set).                       *)
(* A packet is a number that counts around, Packets; received packets are  *)
(* alike.                                                                  *)
(***************************************************************************)
EXTENDS Integers

CONSTANTS
  MailSize,   \* places of erx's mailbox (RT_LWIP_ETHTHREAD_MBOX_SIZE)
  Room        \* bound: received packets the chip holds

ASSUME MailSizeAssumption == MailSize \in Nat \ {0}
ASSUME RoomAssumption == Room \in Nat \ {0}

Packets == 0 .. 2
Following(p) == (p + 1) % 3
NoPacket == -1
Status == {"PTS", "PRS", "LNKCHGS"}
Enables == {"PTS", "PRS"}    \* by PTM and PRM

VARIABLES
  \* the chip
  isr,          \* its status latch
  imr,          \* the status bits that raise the line
  onWire,       \* the packet being transmitted
  sent,         \* the last packet whose transmission was started
  fifo,         \* received packets nobody has read
  nsr,          \* an end of a transmission is shown
  \* the interrupt
  pending,      \* EXTI4's pending bit: "new" while an access may be under way
  handler,      \* where the handler is
  int_status,   \* its copy of the latch
  \* the driver
  imr_all,
  packet_cnt,
  queue_packet_len,   \* the packet of which it is the length
  sem_ack,
  sem_lock,           \* who holds it
  mail,               \* messages in erx's mailbox
  \* the threads
  etx, erx,     \* where each is
  handed,       \* the packet etx works on, or the last one
  \* history: an end was taken away before the driver counted it
  lost
chip == <<isr, imr, onWire, sent, fifo, nsr>>
interrupt == <<handler, int_status>>
driver == <<imr_all, packet_cnt, queue_packet_len, sem_ack, sem_lock, mail>>
threads == <<etx, erx, handed>>
vars == <<chip, pending, interrupt, driver, threads, lost>>

-----------------------------------------------------------------------------
(* Plausible faults, each in the place of the definition of its idea.      *)

FaultCleared ==           \* what the comment says is cleared
  {"PRS"}
FaultRestored ==          \* reception stays off
  {"PTS"}
FaultSecond(count) ==     \* the packet that has just ended is counted, too
  count > 1
FaultOpens ==             \* two packets ahead
  2
FaultQueued(p) ==         \* the length before
  IF p = 0 THEN 2 ELSE p - 1

Line == isr \cap imr # {}
\* EXTI_Trigger_Rising.  What the edge finds on its way to the chip arrives:
\* one access of a thread, none of the handler.
EdgeLatched ==
  pending' = IF Line' /\ ~ Line
             THEN IF handler = "idle" THEN "new" ELSE "late"
             ELSE pending

\* rt_sem_init(&sem_ack, ..., 1)
Opens == 1

Init ==
  /\ isr = {} /\ imr = Enables /\ onWire = NoPacket /\ sent = 2 /\ fifo = 0
  /\ nsr = FALSE /\ lost = FALSE
  /\ pending = "no" /\ handler = "idle" /\ int_status = {}
  /\ imr_all = Enables /\ packet_cnt = 0 /\ queue_packet_len = NoPacket
  /\ sem_ack = Opens /\ sem_lock = "free" /\ mail = 0
  /\ etx = "idle" /\ erx = "idle" /\ handed = 2

-----------------------------------------------------------------------------
(* The chip, at any time.                                                  *)

Transmitted ==
  /\ onWire # NoPacket
  /\ onWire' = NoPacket
  /\ isr' = isr \cup {"PTS"}
  /\ nsr' = TRUE
  /\ UNCHANGED <<imr, sent, fifo, interrupt, driver, threads, lost>>
  /\ EdgeLatched

Received ==
  /\ fifo < Room
  /\ fifo' = fifo + 1
  /\ isr' = isr \cup {"PRS"}
  /\ UNCHANGED <<imr, onWire, sent, nsr, interrupt, driver, threads, lost>>
  /\ EdgeLatched

LinkChanged ==
  /\ isr' = isr \cup {"LNKCHGS"}
  /\ UNCHANGED <<imr, onWire, sent, fifo, nsr, pending, interrupt, driver,
                 threads, lost>>

-----------------------------------------------------------------------------
(* EXTI4_IRQHandler and rt_dm9000_isr.  The chip goes on, threads do not.  *)

EXTI4_IRQHandler ==
  /\ handler = "idle" /\ pending # "no"
  /\ pending' = "no"
  /\ handler' = "test"
  /\ UNCHANGED <<int_status, chip, driver, threads, lost>>

\* The loop's condition: the line is down.
HandlerReturns ==
  /\ handler = "test" /\ ~ Line
  /\ handler' = "idle"
  /\ UNCHANGED <<pending, int_status, chip, driver, threads, lost>>

\* "Disable all interrupts", "Got DM9000 interrupt status", "Clear ISR
\* status".
GotStatus ==
  /\ handler = "test" /\ Line
  /\ imr' = {}
  /\ int_status' = isr
  /\ isr' = {}
  /\ handler' = IF "LNKCHGS" \in isr THEN "link" ELSE "serve"
  /\ UNCHANGED <<onWire, sent, fifo, nsr, pending, driver, threads, lost>>

\* The link's state is read from NSR and not used.  An end that NSR shows
\* is gone.
LinkRead ==
  /\ handler = "link"
  /\ nsr' = FALSE
  /\ lost' = (lost \/ nsr)
  /\ handler' = "serve"
  /\ UNCHANGED <<isr, imr, onWire, sent, fifo, pending, int_status, driver,
                 threads>>

\* "disable receive interrupt"
ReceiveOff == {"PTS"}
Second(count) == count > 0

Start(p) == onWire' = p /\ sent' = p

\* "transmit done": NSR is read, and an end counts only if it shows one.
TransmitDone ==
  /\ nsr' = FALSE
  /\ IF nsr
     THEN /\ packet_cnt' = packet_cnt - 1
          /\ IF Second(packet_cnt')
             THEN Start(queue_packet_len)
             ELSE UNCHANGED <<onWire, sent>>
          /\ sem_ack' = sem_ack + 1
     ELSE UNCHANGED <<packet_cnt, onWire, sent, sem_ack>>

rt_dm9000_isr ==
  /\ handler = "serve"
  /\ IF "PRS" \in int_status
     THEN /\ imr_all' = ReceiveOff
          /\ mail' = IF mail < MailSize THEN mail + 1 ELSE mail
     ELSE UNCHANGED <<imr_all, mail>>
  /\ IF "PTS" \in int_status
     THEN TransmitDone
     ELSE UNCHANGED <<nsr, packet_cnt, onWire, sent, sem_ack>>
  /\ imr' = imr_all'
  /\ handler' = "test"
  /\ int_status' = {}
  /\ UNCHANGED <<isr, fifo, queue_packet_len, sem_lock, threads, lost>>
  /\ EdgeLatched

-----------------------------------------------------------------------------
(* The threads run when the handler does not.                              *)

\* One access may be under way when the interrupt comes.
Runs == handler = "idle" /\ pending # "late"

\* What a thread's access does to the pending bit: it may raise the line.
Access ==
  pending' = IF Line' /\ ~ Line THEN "new"
             ELSE IF pending = "new" THEN "late" ELSE pending

(* rt_dm9000_tx, called by etx for each packet of lwIP.                    *)

\* Takes the lock and masks the chip's interrupts.
TxBegins ==
  /\ Runs /\ etx = "idle" /\ sem_lock = "free"
  /\ sem_lock' = "etx"
  /\ handed' = Following(handed)
  /\ imr' = {}
  /\ etx' = "copied"
  /\ UNCHANGED <<isr, onWire, sent, fifo, nsr, interrupt, imr_all, packet_cnt,
                 queue_packet_len, sem_ack, mail, erx, lost>>

FirstPacket ==
  /\ Runs /\ etx = "copied" /\ packet_cnt = 0
  /\ packet_cnt' = 1
  /\ Start(handed)
  /\ etx' = "issued"
  /\ UNCHANGED <<isr, imr, fifo, nsr, interrupt, imr_all, queue_packet_len,
                 sem_ack, sem_lock, mail, erx, handed, lost>>

Queued(p) == p

SecondPacket ==
  /\ Runs /\ etx = "copied" /\ packet_cnt # 0
  /\ packet_cnt' = packet_cnt + 1
  /\ queue_packet_len' = Queued(handed)
  /\ etx' = "issued"
  /\ UNCHANGED <<chip, interrupt, imr_all, sem_ack, sem_lock, mail, erx,
                 handed, lost>>

\* Enables the interrupts again and releases the lock.
TxUnlocks ==
  /\ Runs /\ etx = "issued"
  /\ imr' = imr_all
  /\ sem_lock' = "free"
  /\ etx' = "ack"
  /\ UNCHANGED <<isr, onWire, sent, fifo, nsr, interrupt, imr_all, packet_cnt,
                 queue_packet_len, sem_ack, mail, erx, handed, lost>>

\* "wait ack"
TxReturns ==
  /\ Runs /\ etx = "ack" /\ sem_ack > 0
  /\ sem_ack' = sem_ack - 1
  /\ etx' = "idle"
  /\ UNCHANGED <<chip, interrupt, imr_all, packet_cnt, queue_packet_len,
                 sem_lock, mail, erx, handed, lost>>

(* eth_rx_thread_entry and rt_dm9000_rx.                                   *)

RxWakes ==
  /\ Runs /\ erx = "idle" /\ mail > 0
  /\ mail' = mail - 1
  /\ erx' = "call"
  /\ UNCHANGED <<chip, interrupt, imr_all, packet_cnt, queue_packet_len,
                 sem_ack, sem_lock, etx, handed, lost>>

RxLocks ==
  /\ Runs /\ erx = "call" /\ sem_lock = "free"
  /\ sem_lock' = "erx"
  /\ erx' = "check"
  /\ UNCHANGED <<chip, interrupt, imr_all, packet_cnt, queue_packet_len,
                 sem_ack, mail, etx, handed, lost>>

\* A packet is read.  A damaged one is dropped and the next looked for; a
\* good one is given to lwIP, and rt_dm9000_rx called again.
RxReads ==
  /\ Runs /\ erx = "check" /\ fifo > 0
  /\ fifo' = fifo - 1
  /\ \/ UNCHANGED <<sem_lock, erx>>
     \/ sem_lock' = "free" /\ erx' = "call"
  /\ UNCHANGED <<isr, imr, onWire, sent, nsr, interrupt, imr_all, packet_cnt,
                 queue_packet_len, sem_ack, mail, etx, handed, lost>>

RxEmpty ==
  /\ Runs /\ erx = "check" /\ fifo = 0
  /\ erx' = "clear"
  /\ UNCHANGED <<chip, interrupt, driver, etx, handed, lost>>

\* "clear packet received latch status"
Cleared == {"PTS"}

RxClears ==
  /\ Runs /\ erx = "clear"
  /\ isr' = isr \ Cleared
  /\ lost' = (lost \/ "PTS" \in isr \cap Cleared)
  /\ erx' = "restore"
  /\ UNCHANGED <<imr, onWire, sent, fifo, nsr, interrupt, driver, etx, handed>>

\* "restore receive interrupt": the variable, then the register.
Restored == Enables

RxRestores ==
  /\ Runs /\ erx = "restore"
  /\ imr_all' = Restored
  /\ erx' = "enable"
  /\ UNCHANGED <<chip, interrupt, packet_cnt, queue_packet_len, sem_ack,
                 sem_lock, mail, etx, handed, lost>>

\* The value written is that of the store before, or read again: imr_all is
\* not volatile and the interrupt may have changed it.
RxReturns ==
  /\ Runs /\ erx = "enable"
  /\ imr' \in {Restored, imr_all}
  /\ sem_lock' = "free"
  /\ erx' = "idle"
  /\ UNCHANGED <<isr, onWire, sent, fifo, nsr, interrupt, packet_cnt, imr_all,
                 queue_packet_len, sem_ack, mail, etx, handed, lost>>

-----------------------------------------------------------------------------
Handler ==
  EXTI4_IRQHandler \/ HandlerReturns \/ GotStatus \/ LinkRead \/ rt_dm9000_isr
Reads == RxReads \/ RxEmpty
Restores == RxClears \/ RxRestores \/ RxReturns
TxGoesOn == (FirstPacket \/ SecondPacket \/ TxUnlocks \/ TxReturns) /\ Access
Tx == (TxBegins /\ Access) \/ TxGoesOn
Rx == (RxWakes \/ RxLocks \/ Reads \/ Restores) /\ Access

Next == Transmitted \/ Received \/ LinkChanged \/ Handler \/ Tx \/ Rx

Spec == Init /\ [][Next]_vars

\* The chip ends what it transmits and the handler runs when it may.  The
\* two threads have the same priority, take turns, and wait for the lock in
\* the order they came; interrupts only delay them.
Fairness ==
  WF_vars(Transmitted) /\ WF_vars(Handler) /\ SF_vars(TxGoesOn) /\ SF_vars(Rx)

FairSpec == Spec /\ Fairness
=============================================================================
