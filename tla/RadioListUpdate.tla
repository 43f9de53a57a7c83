-------------------------- MODULE RadioListUpdate --------------------------
(***************************************************************************)
(* The update of the list of stations (radio_list_update.c): the user      *)
(* interface makes a queue and a thread, sends the request, and goes on;   *)
(* the thread "update_bg" fetches the list, replaces the file, says how it *)
(* went and takes the queue away with itself.  The one pointer             *)
(* update_radio_mq tells whether an update is under way.                   *)
(*                                                                         *)
(* Atomicity.  update_bg (20) is above ply_ui (25): the user interface     *)
(* runs only while every update waits, for a message or for the network,   *)
(* and a call that wakes an update ends a step of the user interface.      *)
(***************************************************************************)
EXTENDS Naturals

CONSTANTS
  Updates,    \* the threads there may be
  Queues,     \* the message queues there may be
  NoQueue

ASSUME QueueAssumption == NoQueue \notin Queues

VARIABLES
  update_radio_mq,
  alive,                     \* the queues that exist
  msgs,                      \* messages in each, at most one
  update_radio_list_state,
  list,                      \* the file radio.pls since the last request
  ui,                        \* where the user interface is
  pc                         \* where each update is

queue == <<update_radio_mq, alive, msgs>>
vars == <<queue, update_radio_list_state, list, ui, pc>>

-----------------------------------------------------------------------------
(* Plausible faults, each in the place of the definition of its idea.      *)

FaultMayCreate ==          \* the pointer is not tested
  TRUE
FaultAnnounces ==          \* the state is set after the request is sent
  FALSE
FaultAsks ==               \* every choice of the entry sends a request
  ui \in {"idle", "request"}

\* Blocked: for a message, or for the server.
Waits(u) ==
  \/ pc[u] \in {"none", "connect", "read"}
  \/ pc[u] = "recv" /\ update_radio_mq \in alive /\ msgs[update_radio_mq] = 0

Init ==
  /\ update_radio_mq = NoQueue /\ alive = {} /\ msgs = [q \in Queues |-> 0]
  /\ update_radio_list_state = "unknown"
  /\ list = "kept"
  /\ ui = "idle" /\ pc = [u \in Updates |-> "none"]

-----------------------------------------------------------------------------
(* update_radio_list_view_init, when the user chooses the entry.           *)

UiRuns == \A u \in Updates : Waits(u)

MayCreate == update_radio_mq = NoQueue

\* "update_radio_mq = rt_mq_create", and the thread, which runs until it
\* waits for a message.
CreateUpdate ==
  /\ UiRuns /\ ui = "idle" /\ MayCreate
  /\ \E q \in Queues \ alive :
       /\ update_radio_mq' = q
       /\ alive' = alive \cup {q}
       /\ msgs' = [msgs EXCEPT ![q] = 0]
  /\ \E u \in Updates :
       /\ pc[u] = "none"
       /\ pc' = [pc EXCEPT ![u] = "recv"]
  /\ ui' = "request"
  /\ UNCHANGED <<update_radio_list_state, list>>

\* "updateRadioList thread init failed": the queue stays.
ThreadFails ==
  /\ UiRuns /\ ui = "idle" /\ MayCreate
  /\ \E q \in Queues \ alive :
       /\ update_radio_mq' = q
       /\ alive' = alive \cup {q}
       /\ msgs' = [msgs EXCEPT ![q] = 0]
  /\ UNCHANGED <<update_radio_list_state, list, ui, pc>>

Announces == TRUE   \* the state is set before the request is sent
Asks == ui = "request"   \* only after the thread has been made

\* update_radio_list_req: the message wakes the update.
update_radio_list_req ==
  /\ UiRuns /\ Asks /\ update_radio_mq \in alive
  /\ update_radio_list_state' =
       IF Announces THEN "proc" ELSE update_radio_list_state
  /\ msgs' = [msgs EXCEPT ![update_radio_mq] = @ + 1]
  /\ list' = "kept"
  /\ ui' = "sent"
  /\ UNCHANGED <<update_radio_mq, alive, pc>>

\* The user interface goes on when the update waits or has ended.
Requested ==
  /\ UiRuns /\ ui = "sent"
  /\ ui' = "idle"
  /\ update_radio_list_state' =
       IF Announces THEN update_radio_list_state ELSE "proc"
  /\ UNCHANGED <<queue, list, pc>>

-----------------------------------------------------------------------------
(* update_radio_thread.                                                    *)

Receive(u) ==
  /\ pc[u] = "recv" /\ update_radio_mq \in alive /\ msgs[update_radio_mq] > 0
  /\ msgs' = [msgs EXCEPT ![update_radio_mq] = @ - 1]
  /\ pc' = [pc EXCEPT ![u] = "connect"]
  /\ UNCHANGED <<update_radio_mq, alive, update_radio_list_state, list, ui>>

\* No address, no connection, an error header, or the file cannot be opened.
Fails(u) ==
  /\ pc[u] = "connect"
  /\ update_radio_list_state' = "failed"
  /\ pc' = [pc EXCEPT ![u] = "delete"]
  /\ UNCHANGED <<queue, list, ui>>

\* The server has answered and the file is opened, O_TRUNC.
OpenFile(u) ==
  /\ pc[u] = "connect"
  /\ list' = "begun"
  /\ pc' = [pc EXCEPT ![u] = "read"]
  /\ UNCHANGED <<queue, update_radio_list_state, ui>>

\* The lines are written until one is empty or cannot be read, which is a
\* success either way.
Succeeds(u) ==
  /\ pc[u] = "read"
  /\ list' \in {"begun", "replaced"}
  /\ update_radio_list_state' = "succeed"
  /\ pc' = [pc EXCEPT ![u] = "delete"]
  /\ UNCHANGED <<queue, ui>>

\* rt_mq_delete, "update_radio_mq = RT_NULL", and the thread ends.
DeleteQueue(u) ==
  /\ pc[u] = "delete"
  /\ alive' = alive \ {update_radio_mq}
  /\ update_radio_mq' = NoQueue
  /\ pc' = [pc EXCEPT ![u] = "none"]
  /\ UNCHANGED <<msgs, update_radio_list_state, list, ui>>

-----------------------------------------------------------------------------
Ui == CreateUpdate \/ ThreadFails \/ update_radio_list_req \/ Requested
Update(u) ==
  \/ Receive(u) \/ Fails(u) \/ OpenFile(u) \/ Succeeds(u) \/ DeleteQueue(u)

Next == Ui \/ \E u \in Updates : Update(u)

Spec == Init /\ [][Next]_vars
=============================================================================
