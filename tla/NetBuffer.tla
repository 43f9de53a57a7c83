----------------------------- MODULE NetBuffer -----------------------------
(***************************************************************************)
(* The net buffer of the radio (netbuffer.c): a ring of bytes between the  *)
(* thread "nbuf", which fetches blocks from a network session, and the     *)
(* player thread "ply_bg", which reads bytes for the decoder, with the     *)
(* start and stop requests the player makes of the worker.                 *)
(*                                                                         *)
(* Atomicity.  RT-Thread is preemptive with strict priorities and the      *)
(* player (13) is above the worker (22): the worker runs only while the    *)
(* player is blocked, so the player's code between two blocking points is  *)
(* one step, and the player may step between any two steps of the worker.  *)
(* The worker's steps are its accesses to what the player also accesses.   *)
(***************************************************************************)
EXTENDS Integers, Sequences

CONSTANTS
  Size,       \* bytes in the ring (net_buf_init)
  Block,      \* NETBUF_BLOCK_SIZE, the most one fetch returns
  MaxRead,    \* the most one net_buf_read is asked for
  Burst,      \* the most the player reads while the worker is ready to run
              \* between testing data_length and acting on the test
  QueueDepth, \* messages the job queue "njob" holds
  Byte,       \* the values of a byte of the stream
  Session,    \* the network sessions (sockets) there are
  NoSession

ready_wm == (Size * 90) \div 100
resume_wm == (Size * 80) \div 100

ASSUME SizeAssumption ==
  /\ Size \in Nat /\ Block \in Nat /\ MaxRead \in Nat /\ Burst \in Nat
  /\ QueueDepth \in Nat
  /\ Size >= 2 /\ Block >= 1 /\ MaxRead \in 1 .. Size /\ QueueDepth >= 1
  /\ ready_wm + Block <= Size + 1
ASSUME SessionAssumption == NoSession \notin Session
ASSUME ByteAssumption == Byte # {}

Stat == {"STOPPED", "BUFFERING", "SUSPEND", "STOPPING"}
Index == 0 .. Size - 1

VARIABLES
  read_index, save_index, data_length, buffer_data, stat, is_wait_ready,
  wait_ready, wait_resume,  \* values of the two semaphores
  mq,                       \* the jobs queued for the worker
  worker,                   \* where the worker is
  job, ptr, w_data_length,  \* its job, its block, its local data_length
  player,                   \* where the player is
  session,                  \* the session the player still owns
  opened,                   \* the sessions that are open
  burst                     \* bytes read since the worker's last step

ring == <<read_index, save_index, data_length, buffer_data>>
sems == <<is_wait_ready, wait_ready, wait_resume>>
local == <<job, ptr, w_data_length>>
vars == <<read_index, save_index, data_length, buffer_data, stat,
          is_wait_ready, wait_ready, wait_resume, mq, worker, job, ptr,
          w_data_length, player, session, opened, burst>>

Blocks == UNION {[1 .. n -> Byte] : n \in 1 .. Block}

-----------------------------------------------------------------------------
(* Plausible faults: each stands in for the definition of the same idea    *)
(* below, to show that the properties notice it.                           *)

FaultAdvanceRead(n) ==   \* the remainder is lost at the end of the ring
  IF Size - read_index > n THEN read_index + n ELSE 0
FaultAdvanceSave(n) ==   \* > for >=
  IF Size - save_index < n THEN n - (Size - save_index)
  ELSE IF save_index + n > Size THEN 0 ELSE save_index + n
FaultBlockCell(i) ==     \* the second copy starts again at ptr[0]
  IF i >= save_index THEN i - save_index ELSE i
FaultNoRoom ==           \* one byte short
  Size - data_length + 1 < Len(ptr)
FaultResumes(left) ==    \* the status is not tested
  left < resume_wm
FaultStopResumes ==      \* the suspended worker is not released
  FALSE
FaultReached ==          \* > for >=
  w_data_length > ready_wm /\ stat = "BUFFERING"
FaultNotMarked ==        \* any data wakes the player
  stat = "BUFFERING"
FaultWaits ==            \* nobody asks whether the player waits
  TRUE
FaultStopWakes ==        \* the end of the job does not wake the player
  FALSE
FaultMayStart ==         \* only a worker being stopped refuses a job
  stat # "STOPPING"
FaultRefuse(s) ==        \* the job is sent before the status is tested
  mq' = Append(mq, s)
FaultReset ==            \* save_index is not reset
  data_length' = 0 /\ read_index' = 0 /\ UNCHANGED save_index

Init ==
  /\ read_index = 0 /\ save_index = 0 /\ data_length = 0
  /\ buffer_data \in [Index -> Byte]
  /\ stat = "STOPPED"
  /\ is_wait_ready = FALSE /\ wait_ready = 0 /\ wait_resume = 0
  /\ mq = <<>>
  /\ worker = "recv" /\ job = NoSession /\ ptr = <<>> /\ w_data_length = 0
  /\ player = "idle" /\ session = NoSession /\ opened = {} /\ burst = 0

-----------------------------------------------------------------------------
(* The player thread.                                                      *)

\* A request arrives and the player begins to open the station's session.
Request ==
  /\ player = "idle"
  /\ player' = "connect"
  /\ UNCHANGED <<ring, sems, local, stat, mq, worker, session, opened, burst>>

\* shoutcast_session_open or douban_radio_open returned RT_NULL.
ConnectFailed ==
  /\ player = "connect"
  /\ player' = "ended"
  /\ UNCHANGED <<ring, sems, local, stat, mq, worker, session, opened, burst>>

MayStart == stat = "STOPPED"
Refuse(s) == UNCHANGED mq

\* The session is open: net_buf_start_job, which hands it to the worker when
\* the worker's status is STOPPED and otherwise leaves it with the player.
net_buf_start_job(s) ==
  /\ player = "connect"
  /\ s \notin opened
  /\ opened' = opened \cup {s}
  /\ \/ /\ MayStart
        /\ stat' = "BUFFERING"
        /\ mq' = IF Len(mq) < QueueDepth THEN Append(mq, s) ELSE mq
        /\ player' = "play"
        /\ UNCHANGED session
     \/ /\ ~ MayStart
        /\ session' = s
        /\ player' = "refused"
        /\ Refuse(s)
        /\ UNCHANGED stat
  /\ UNCHANGED <<ring, sems, local, worker, burst>>

\* "start a job failed, close session"
CloseRefused ==
  /\ player = "refused"
  /\ opened' = opened \ {session}
  /\ session' = NoSession
  /\ player' = "ended"
  /\ UNCHANGED <<ring, sems, local, stat, mq, worker, burst>>

\* The first half of net_buf_read: the buffer is empty and the worker is
\* working, so wait for wait_ready.
WaitReady ==
  /\ player = "play"
  /\ data_length = 0
  /\ stat \in {"BUFFERING", "SUSPEND"}
  /\ is_wait_ready' = TRUE
  /\ IF wait_ready > 0
     THEN wait_ready' = wait_ready - 1 /\ player' = "woken"
     ELSE player' = "wait" /\ UNCHANGED wait_ready
  /\ UNCHANGED <<ring, wait_resume, local, stat, mq, worker, session, opened,
                 burst>>

\* Where the worker has tested data_length and not yet acted on the test.
Stale == {"suspend", "notify"}

\* What is left of size after read_index, compared with length.
AdvanceRead(n) ==
  IF Size - read_index > n THEN read_index + n ELSE n - (Size - read_index)

\* The worker is suspended and what is left is below the resume mark.
Resumes(left) == stat = "SUSPEND" /\ left < resume_wm

\* The second half of net_buf_read.  A read of nothing ends the decoder.
CopyOut(length) ==
  LET n == IF length > data_length THEN data_length ELSE length
      resume == n > 0 /\ Resumes(data_length - n)
  IN /\ worker \in Stale => burst + n <= Burst
     /\ burst' = IF worker \in Stale THEN burst + n ELSE burst
     /\ read_index' = IF n > 0 THEN AdvanceRead(n) ELSE read_index
     /\ data_length' = data_length - n
     /\ stat' = IF resume THEN "BUFFERING" ELSE stat
     /\ wait_resume' = IF resume THEN wait_resume + 1 ELSE wait_resume
     /\ player' = IF n > 0 THEN "play" ELSE "ended"
     /\ UNCHANGED <<save_index, buffer_data, is_wait_ready, wait_ready, local,
                    mq, worker, session, opened>>

net_buf_read(length) ==
  /\ \/ /\ player = "play"
        /\ ~ (data_length = 0 /\ stat \in {"BUFFERING", "SUSPEND"})
     \/ player = "woken"
  /\ CopyOut(length)

\* The decoder ends for a reason of its own: it could not be created, or
\* player_is_playing() is no longer true.
DecoderEnds ==
  /\ player = "play"
  /\ player' = "ended"
  /\ UNCHANGED <<ring, sems, local, stat, mq, worker, session, opened, burst>>

StopResumes == stat = "SUSPEND"

\* player_thread always calls net_buf_stop_job, whatever went before.
net_buf_stop_job ==
  /\ player = "ended"
  /\ player' = "idle"
  /\ wait_resume' = IF StopResumes THEN wait_resume + 1 ELSE wait_resume
  /\ stat' = IF stat \in {"SUSPEND", "BUFFERING"} THEN "STOPPING" ELSE stat
  /\ UNCHANGED <<ring, is_wait_ready, wait_ready, local, mq, worker, session,
                 opened, burst>>

Player ==
  \/ Request \/ ConnectFailed \/ CloseRefused \/ WaitReady \/ DecoderEnds
  \/ net_buf_stop_job
  \/ \E s \in Session : net_buf_start_job(s)
  \/ \E n \in 1 .. MaxRead : net_buf_read(n)

-----------------------------------------------------------------------------
(* The worker thread.  It runs only when the player is blocked, so never   *)
(* between the release of wait_ready and the end of the woken read.        *)

At(from) == worker = from /\ player # "woken"
Goto(to) == worker' = to /\ burst' = 0

\* rt_sem_release(wait_ready): the token goes to the waiting player.
ReleaseReady ==
  IF player = "wait"
  THEN player' = "woken" /\ UNCHANGED wait_ready
  ELSE wait_ready' = wait_ready + 1 /\ UNCHANGED player

\* net_buf_thread_entry: a job is taken, and dropped unless still BUFFERING.
\* Nothing moves the indices while data_length is 0, so the three resets are
\* one step.
ReceiveJob ==
  /\ At("recv")
  /\ mq # <<>>
  /\ mq' = Tail(mq)
  /\ \/ /\ stat = "BUFFERING"
        /\ data_length' = 0 /\ read_index' = 0 /\ save_index' = 0
        /\ job' = Head(mq)
        /\ Goto("top")
     \/ /\ stat # "BUFFERING"
        /\ Goto("recv")
        /\ UNCHANGED <<data_length, read_index, save_index, job>>
  /\ UNCHANGED <<buffer_data, sems, ptr, w_data_length, stat, player, session,
                 opened>>

TestStopping ==
  /\ At("top")
  /\ Goto(IF stat = "STOPPING" THEN "close" ELSE "fetch")
  /\ UNCHANGED <<ring, sems, local, stat, mq, player, session, opened>>

\* job->fetch, which blocks in the network: a block, or nothing at the end of
\* the stream or on an error.
FetchBlock ==
  /\ At("fetch")
  /\ \E b \in Blocks : ptr' = b /\ Goto("room")
  /\ UNCHANGED <<ring, sems, job, w_data_length, stat, mq, player, session,
                 opened>>

FetchNothing ==
  /\ At("fetch")
  /\ Goto("close")
  /\ UNCHANGED <<ring, sems, local, stat, mq, player, session, opened>>

NoRoom == Size - data_length < Len(ptr)

\* data_length is read and compared: is there room for the block?
TestRoom ==
  /\ At("room")
  /\ Goto(IF NoRoom THEN "suspend" ELSE "copy")
  /\ UNCHANGED <<ring, sems, local, stat, mq, player, session, opened>>

\* "no free space yet, suspend itself"
Suspend ==
  /\ At("suspend")
  /\ stat' = "SUSPEND"
  /\ Goto("take")
  /\ UNCHANGED <<ring, sems, local, mq, player, session, opened>>

\* rt_sem_take(wait_resume, RT_WAITING_FOREVER)
TakeResume ==
  /\ At("take")
  /\ wait_resume > 0
  /\ wait_resume' = wait_resume - 1
  /\ Goto("copy")
  /\ UNCHANGED <<ring, is_wait_ready, wait_ready, local, stat, mq, player,
                 session, opened>>

AdvanceSave(n) ==
  IF Size - save_index < n THEN n - (Size - save_index)
  ELSE IF save_index + n >= Size THEN 0 ELSE save_index + n

\* The place in the block of the byte that goes to cell i of the ring.
BlockCell(i) == (i + Size - save_index) % Size

\* The block is copied behind save_index, around the end of the ring.
CopyIn ==
  /\ At("copy")
  /\ buffer_data' = [i \in Index |->
       IF BlockCell(i) < Len(ptr) THEN ptr[BlockCell(i) + 1]
       ELSE buffer_data[i]]
  /\ save_index' = AdvanceSave(Len(ptr))
  /\ Goto("add")
  /\ UNCHANGED <<read_index, data_length, sems, local, stat, mq, player,
                 session, opened>>

AddLength ==
  /\ At("add")
  /\ data_length' = data_length + Len(ptr)
  /\ w_data_length' = data_length'
  /\ Goto("notify")
  /\ UNCHANGED <<read_index, save_index, buffer_data, sems, job, ptr, stat,
                 mq, player, session, opened>>

Reached == stat = "BUFFERING" /\ w_data_length >= ready_wm
Waits == is_wait_ready

\* The waiting player is woken at the ready mark.
NotifyReady ==
  /\ At("notify")
  /\ Goto("top")
  /\ \/ /\ Reached /\ Waits
        /\ is_wait_ready' = FALSE
        /\ ReleaseReady
     \/ /\ ~ (Reached /\ Waits)
        /\ UNCHANGED <<is_wait_ready, wait_ready, player>>
  /\ UNCHANGED <<ring, wait_resume, local, stat, mq, session, opened>>

\* net_buf_do_stop, in four steps: close the session, set STOPPED, wake the
\* waiting player, reset the ring.
CloseJob ==
  /\ At("close")
  /\ opened' = opened \ {job}
  /\ job' = NoSession
  /\ Goto("stop")
  /\ UNCHANGED <<ring, sems, ptr, w_data_length, stat, mq, player, session>>

SetStopped ==
  /\ At("stop")
  /\ stat' = "STOPPED"
  /\ Goto("wake")
  /\ UNCHANGED <<ring, sems, local, mq, player, session, opened>>

StopWakes == is_wait_ready

WakeReader ==
  /\ At("wake")
  /\ Goto("reset")
  /\ \/ /\ StopWakes
        /\ is_wait_ready' = FALSE
        /\ ReleaseReady
     \/ /\ ~ StopWakes
        /\ UNCHANGED <<is_wait_ready, wait_ready, player>>
  /\ UNCHANGED <<ring, wait_resume, local, stat, mq, session, opened>>

Reset == data_length' = 0 /\ read_index' = 0 /\ save_index' = 0

\* A read finds nothing once data_length is 0 and looks at no index, so that
\* it cannot tell the three stores apart: they are one step.
ResetRing ==
  /\ At("reset")
  /\ Reset
  /\ ptr' = <<>> /\ w_data_length' = 0
  /\ Goto("recv")
  /\ UNCHANGED <<buffer_data, sems, job, stat, mq, player, session, opened>>

Worker ==
  \/ ReceiveJob \/ TestStopping \/ FetchBlock \/ FetchNothing \/ TestRoom
  \/ Suspend \/ TakeResume \/ CopyIn \/ AddLength \/ NotifyReady \/ CloseJob
  \/ SetStopped \/ WakeReader \/ ResetRing

Next == Player \/ Worker

Spec == Init /\ [][Next]_vars

\* A ready thread is scheduled.  The user's requests, the decoder's reads and
\* the end of a session are not promised; that a fetch returns is.
Fairness ==
  /\ WF_vars(Worker)
  /\ WF_vars(player = "woken" /\ \E n \in 1 .. MaxRead : net_buf_read(n))
  /\ WF_vars(net_buf_stop_job)

FairSpec == Spec /\ Fairness
=============================================================================
