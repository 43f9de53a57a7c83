---------------------------- MODULE Dm9000Props ----------------------------
(* What the Ethernet driver owes lwIP: the properties checked of Dm9000.   *)
EXTENDS Dm9000

(* Every variable has its type; no more than two packets are in the chip   *)
(* and no more than two acknowledgements in the semaphore.                 *)
TypeOK ==
  /\ isr \subseteq Status /\ imr \subseteq Enables
  /\ onWire \in Packets \cup {NoPacket} /\ sent \in Packets
  /\ fifo \in 0 .. Room
  /\ nsr \in BOOLEAN
  /\ pending \in {"no", "new", "late"}
  /\ handler \in {"idle", "test", "link", "serve"}
  /\ int_status \subseteq Status
  /\ imr_all \in {Enables, ReceiveOff}
  /\ packet_cnt \in 0 .. 2
  /\ queue_packet_len \in Packets \cup {NoPacket}
  /\ sem_ack \in 0 .. 2
  /\ sem_lock \in {"free", "etx", "erx"}
  /\ mail \in 0 .. MailSize
  /\ etx \in {"idle", "copied", "issued", "ack"}
  /\ erx \in {"idle", "call", "check", "clear", "restore", "enable"}
  /\ handed \in Packets
  /\ lost \in BOOLEAN

\* The transmission's end is shown, and the latch or the handler says so.
EndReported == nsr /\ "PTS" \in isr \cup int_status

(* As long as the driver counts a packet in the chip, one is being         *)
(* transmitted or its end is about to be acknowledged: otherwise nothing   *)
(* would ever start the queued packet and etx would wait for sem_ack for   *)
(* ever.  (dm9000a.c:214-238, 438-465)  The driver takes an end away       *)
(* uncounted in two places: rt_dm9000_rx clears PTS (dm9000a.c:579) where  *)
(* its comment says "packet received latch status", and the handler reads  *)
(* NSR for the link (dm9000a.c:180) and once more for the end (218).  The  *)
(* property says that these are all: short of them no end is lost.         *)
AckComes == packet_cnt > 0 /\ ~ lost => onWire # NoPacket \/ EndReported

(* Every packet goes out once, with its own length and in the order lwIP   *)
(* handed them over, through the place for a second one and against the    *)
(* interrupt: no start finds the wire in use, and none starts another      *)
(* packet than the one that follows the last.  (dm9000a.c:222-233,         *)
(* 438-456)                                                                *)
InOrder ==
  [][onWire' \notin {NoPacket, onWire}
       => onWire = NoPacket /\ onWire' = Following(sent)
            /\ sent' = onWire']_<<onWire, sent>>

\* Somebody is about to look at the received packets.
Watched == erx \in {"call", "check"} \/ mail > 0

\* The handler has taken the latch over and not yet acted on it.
Serving == handler \in {"link", "serve"}

(* While erx sleeps, the arrival of every packet is still in the latch and *)
(* will raise the line: no packet arrives unseen between the last look and *)
(* the moment the interrupt is enabled again.  (dm9000a.c:204-212, 487,    *)
(* 576-584)                                                                *)
NoneUnseen ==
  /\ fifo > 0 /\ ~ Watched /\ ~ Serving => "PRS" \in isr
  /\ erx = "idle" /\ ~ Watched /\ ~ Serving => "PRS" \in imr_all

(* A received packet is given to lwIP; a packet handed over is             *)
(* acknowledged unless an end is lost in one of the two places that        *)
(* AckComes names.  (dm9000a.c:390-590, stm32f10x_it.c:255-273)            *)
Served ==
  /\ fifo > 0 ~> erx = "check"
  /\ etx = "ack" ~> etx = "idle" \/ lost

-----------------------------------------------------------------------------
(* The inductive invariant.                                                *)

Sending == etx \in {"copied", "issued"}
One(b) == IF b THEN 1 ELSE 0

\* An acknowledgement and a place of the chip are one and the same thing.
Counted == sem_ack + packet_cnt = 1 + One(etx \in {"issued", "ack"})

\* The oldest packet is at exactly one stage.  Once its end is lost, none is
\* started any more.
Stage ==
  /\ ~ lost
       => /\ One(onWire # NoPacket) + One("PTS" \in isr)
               + One("PTS" \in int_status) = One(packet_cnt > 0)
          /\ nsr <=> "PTS" \in isr \cup int_status
  /\ lost => packet_cnt > 0 /\ onWire = NoPacket /\ ~ EndReported

Numbered ==
  /\ etx = "copied" => packet_cnt < 2 /\ handed = Following(sent)
  /\ etx # "copied" /\ packet_cnt < 2 => handed = sent
  /\ etx # "copied" /\ packet_cnt = 2
       => handed = Following(sent) /\ queue_packet_len = handed

Locked ==
  /\ sem_lock = "etx" <=> Sending
  /\ sem_lock = "erx" <=> erx \in {"check", "clear", "restore", "enable"}

Masked ==
  /\ Serving \/ Sending => imr = {}
  /\ Serving => ~ Sending
  /\ ~ Serving => int_status = {}
  /\ ~ Serving /\ ~ Sending => "PTS" \in imr

\* The level of the line is not forgotten.
Latched == Line /\ handler = "idle" => pending # "no"

Seen ==
  /\ fifo > 0 /\ ~ Watched => "PRS" \in isr \cup int_status
  /\ erx \in {"idle", "enable"} /\ mail = 0 => imr_all = Enables

IInv ==
  /\ TypeOK /\ Counted /\ Stage /\ Numbered /\ Locked /\ Masked
  /\ Latched /\ Seen
=============================================================================
