----------------------- MODULE RadioListUpdateProps -----------------------
(* What the update of the stations owes the user: the properties checked   *)
(* of RadioListUpdate.                                                     *)
EXTENDS RadioListUpdate

(* Every variable has its type; the queue of one request never gets two.   *)
TypeOK ==
  /\ update_radio_mq \in Queues \cup {NoQueue}
  /\ alive \subseteq Queues
  /\ msgs \in [Queues -> 0 .. 1]
  /\ update_radio_list_state \in {"unknown", "proc", "failed", "succeed"}
  /\ list \in {"kept", "begun", "replaced"}
  /\ ui \in {"idle", "request", "sent"}
  /\ pc \in [Updates -> {"none", "recv", "connect", "read", "delete"}]

(* A thread finds the queue it was made with under the pointer, from the   *)
(* first receive to the delete, whatever the user does meanwhile: nobody   *)
(* receives from, sends to or deletes a queue that is gone.                *)
(* (radio_list_update.c:212, 221, 249-250, 370-384)                        *)
QueueLives ==
  /\ \A u \in Updates : pc[u] # "none" => update_radio_mq \in alive
  /\ \A u, v \in Updates : pc[u] # "none" /\ pc[v] # "none" => u = v
  /\ ui = "request" => update_radio_mq \in alive

\* An update is under way.
Running == \E u \in Updates : pc[u] \in {"recv", "connect", "read"}

(* What the view says is so: "being updated" only while an update is       *)
(* under way, "failed, go back" only when the old list is still there.     *)
(* (radio_list_update.c:164-173, 207, 233-240, 275-288)                    *)
StateHonest ==
  /\ update_radio_list_state = "proc" => Running
  /\ update_radio_list_state = "failed" => list = "kept"

-----------------------------------------------------------------------------
(* The inductive invariant.                                                *)

\* The user interface requests from the thread it has just made.
Requesting ==
  ui = "request" => \E u \in Updates : pc[u] = "recv" /\ msgs[update_radio_mq] = 0

\* From the request to the outcome the view says "being updated", and the old
\* list is there until the file is opened.
Asked(u) == pc[u] = "recv" /\ msgs[update_radio_mq] > 0
Announced ==
  \A u \in Updates :
    /\ Asked(u) \/ pc[u] \in {"connect", "read"}
         => update_radio_list_state = "proc"
    /\ Asked(u) \/ pc[u] = "connect" => list = "kept"
    /\ pc[u] = "delete" => update_radio_list_state # "proc"

IInv == TypeOK /\ QueueLives /\ StateHonest /\ Requesting /\ Announced
=============================================================================
