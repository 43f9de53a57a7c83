--------------------------- MODULE NetBufferProps ---------------------------
(* What the net buffer must do: the properties checked of NetBuffer.       *)
EXTENDS NetBuffer

\* The worker performs a job (net_buf_do_job up to the close of the source).
InJob == {"top", "fetch", "room", "suspend", "take", "copy", "add", "notify",
          "close"}

\* What the proofs assume of the timing: while the worker is ready to run
\* between testing data_length and acting on it, the player reads less than
\* the ready mark.
ShortBursts == Burst < ready_wm

(* Every variable has its type; the ring's indices stay inside the ring.   *)
TypeOK ==
  /\ read_index \in Index /\ save_index \in Index
  /\ data_length \in Nat /\ w_data_length \in Nat
  /\ buffer_data \in [Index -> Byte]
  /\ stat \in Stat
  /\ is_wait_ready \in BOOLEAN /\ wait_ready \in Nat /\ wait_resume \in Nat
  /\ mq \in Seq(Session)
  /\ worker \in InJob \cup {"recv", "stop", "wake", "reset"}
  /\ job \in Session \cup {NoSession}
  /\ ptr \in Blocks \cup {<<>>}
  /\ player \in {"idle", "connect", "refused", "play", "wait", "woken", "ended"}
  /\ session \in Session \cup {NoSession}
  /\ opened \in SUBSET Session
  /\ burst \in 0 .. Burst

(* read_index and save_index, moved by two threads under different tests   *)
(* for the end of the ring, are always data_length apart, at every block   *)
(* size and through overruns.  (netbuffer.c:114-132, 282-304)              *)
RingConsistent ==
  save_index = (read_index + data_length
                  + (IF worker = "add" THEN Len(ptr) ELSE 0)) % Size

(* The worker never overwrites unread bytes of a job that is not being     *)
(* stopped, and size - data_length, an unsigned subtraction, never wraps   *)
(* where it is compared.  (netbuffer.c:263, 281-304)                       *)
NoOverrun ==
  /\ worker \in {"copy", "add"} /\ stat # "STOPPING"
       => data_length + Len(ptr) <= Size
  /\ worker \in InJob /\ stat # "STOPPING" => data_length <= Size
  /\ worker \in {"fetch", "room", "suspend"} => data_length <= Size

\* is_wait_ready says exactly whether the player sleeps on wait_ready, and
\* no token is left behind for a later read.
NoLostReady ==
  /\ wait_ready = 0
  /\ is_wait_ready <=> player = "wait"

\* A worker at wait_resume without a token is one that everybody sees as
\* SUSPEND, so that whoever leaves that status will release it; no token
\* outlives the suspension it was for.
NoLostResume ==
  /\ worker = "take" => wait_resume = (IF stat = "SUSPEND" THEN 0 ELSE 1)
  /\ worker # "take" => wait_resume = 0 /\ stat # "SUSPEND"

(* No wake-up is lost and none is left over: the flag the worker tests and *)
(* the status the player tests say exactly who sleeps on which semaphore.  *)
(* (netbuffer.c:92-96, 135-142, 188-195, 219-224, 267-272, 309-320)        *)
NoLostWakeup == NoLostReady /\ NoLostResume

(* The player does not wait for the buffer to fill while the worker waits  *)
(* for it to empty.  (netbuffer.c:96 against 272)                          *)
NoMutualWait ==
  ~ (player = "wait" /\ worker = "take" /\ wait_resume = 0)

(* A player woken at the ready mark finds data: the read that follows      *)
(* would otherwise return 0, which the decoder takes for the end of the    *)
(* stream.  (netbuffer.c:309-319 with 105-108, mp3.c:128-139)              *)
ReadyMeansData ==
  player = "woken" /\ worker = "top" => data_length > 0

(* The worker takes a job on an empty ring with both indices at its start, *)
(* whatever is read while the job before it ends.  A reader of a job       *)
(* accepted between 217 and 226 may still get bytes of the job before it:  *)
(* this says nothing of those.  (netbuffer.c:217-228, 341-343)             *)
CleanStart ==
  worker = "recv" => data_length = 0 /\ read_index = 0 /\ save_index = 0

\* The open sessions that neither the player nor the queue nor the worker has.
Dropped == opened \ ({session, job} \cup {mq[i] : i \in DOMAIN mq})

\* Every later job is refused, and none is queued.
Stuck == stat = "STOPPING" /\ worker = "recv" /\ mq = <<>>

(* What the player, the job queue and the worker hold are open sessions,   *)
(* each held once: none is closed twice and nothing is fetched from a      *)
(* closed one.  At most one job is queued, so that the unchecked           *)
(* rt_mq_send never loses a session to a full queue, and it waits only for *)
(* a worker that has finished.  An open session that nobody holds is that  *)
(* of the job dropped at netbuffer.c:339, after which the worker is idle   *)
(* for good with the status STOPPING.                                      *)
(* (mp3.c:605-625, netbuffer.c:167-176, 211-214, 336-347)                  *)
OwnedOnce ==
  LET held == (IF session = NoSession THEN <<>> ELSE <<session>>)
                \o (IF job = NoSession THEN <<>> ELSE <<job>>) \o mq
  IN /\ \A i, j \in DOMAIN held : held[i] = held[j] => i = j
     /\ \A i \in DOMAIN held : held[i] \in opened
     /\ worker \in InJob <=> job # NoSession
     /\ Len(mq) <= 1
     /\ mq # <<>> => worker \in {"wake", "reset", "recv"}
     /\ Dropped # {} => Stuck

(* A player that waits for the buffer is woken: at the ready mark, or at   *)
(* the end of the job.  (netbuffer.c:96, 219-224, 309-320)                 *)
ReaderReleased == (player = "wait") ~> (player # "wait")

(* A stop that finds the worker suspended is carried out.                  *)
(* (netbuffer.c:188-192, 272)                                              *)
SuspendedStop ==
  (worker = "take" /\ stat = "STOPPING") ~> (stat = "STOPPED")

\* The job is live while the worker may still add to what the player reads.
Live ==
  /\ worker \in InJob \ {"close"}
  /\ stat = "STOPPING" => worker \in {"fetch", "room", "suspend"}

Unread == [i \in 1 .. data_length |->
             buffer_data[(read_index + i - 1) % Size]]

Fifo == INSTANCE ByteFifo WITH
  Capacity <- Size,
  live <- Live,
  pending <- IF Live /\ worker \in {"room", "suspend", "take", "copy", "add"}
             THEN ptr ELSE <<>>,
  queue <- IF Live THEN Unread ELSE <<>>

(* The ring implements a bounded byte queue that is empty at the start of  *)
(* every job: what was fetched is read once and in order.                  *)
(* (netbuffer.c:79-151, 234-325)                                           *)
ImplementsFifo == Fifo!Spec

-----------------------------------------------------------------------------
(* The inductive invariant behind the safety properties.                   *)

\* While the worker performs a job nobody else may start one.
ActiveStat == worker \in InJob \cup {"stop"} => stat # "STOPPED"

\* A worker the player has resumed will find room.
ResumedRoom ==
  worker = "take" /\ stat = "BUFFERING" => data_length + Len(ptr) <= Size

\* What burst says of a test of data_length that is out of date.
StaleBounds ==
  /\ worker = "notify" => data_length + burst = w_data_length
  /\ worker = "suspend" => data_length + burst + Len(ptr) > Size

\* A waiting player has not been passed by the ready mark.
WaitBelowMark ==
  player = "wait" =>
    /\ stat = "BUFFERING" \/ worker = "wake"
    /\ worker \in {"top", "fetch", "room"} => data_length < ready_wm
    /\ worker # "suspend"

\* A suspended worker left at least the resume mark to read.
SuspendedData == stat = "SUSPEND" => data_length > 0

(* A waiting player is always owed a wake-up: the job it waits for goes on *)
(* or is being ended, or it is queued and will be taken.  With NoMutualWait *)
(* this is what ReaderReleased needs of the states.  (netbuffer.c:92-96,   *)
(* 167-176, 216-224)                                                       *)
ReaderServed ==
  player = "wait" =>
    \/ worker \in InJob \cup {"stop", "wake"}
    \/ mq # <<>> /\ stat = "BUFFERING"

\* A status of BUFFERING is that of a job, queued or performed, and the player
\* waits under no other, except to be woken.
ServedInv ==
  /\ stat = "BUFFERING" /\ worker \in {"wake", "reset", "recv"} => mq # <<>>
  /\ player = "wait" => stat \in {"BUFFERING", "SUSPEND"} \/ worker = "wake"

IInv ==
  /\ TypeOK /\ NoLostReady /\ NoLostResume /\ NoOverrun
  /\ ActiveStat /\ ResumedRoom /\ StaleBounds /\ WaitBelowMark /\ SuspendedData
  /\ NoMutualWait /\ ReadyMeansData
=============================================================================
