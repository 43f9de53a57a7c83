----------------------- MODULE RadioListUpdateProofs -----------------------
(* Proofs about RadioListUpdate for all sets of threads and queues.        *)
EXTENDS RadioListUpdateProps, TLAPS

LEMMA InitHolds == Init => IInv
  BY QueueAssumption
  DEF Init, IInv, TypeOK, QueueLives, StateHonest, Requesting, Announced, Asked

(* Without a queue there is no thread: the new one is alone.               *)
LEMMA CreateUpdateKeeps ==
  ASSUME IInv, CreateUpdate
  PROVE IInv'
<1> USE QueueAssumption DEF IInv
<1>1. \A u \in Updates : pc[u] = "none"
  BY DEF CreateUpdate, MayCreate, QueueLives, TypeOK
<1>2. PICK q \in Queues \ alive, u \in Updates :
        /\ update_radio_mq' = q /\ alive' = alive \cup {q}
        /\ msgs' = [msgs EXCEPT ![q] = 0]
        /\ pc' = [pc EXCEPT ![u] = "recv"]
  BY DEF CreateUpdate
<1>3. /\ ui' = "request"
      /\ UNCHANGED <<update_radio_list_state, list>>
  BY DEF CreateUpdate
<1>4. TypeOK'
  BY <1>2, <1>3 DEF TypeOK
<1>5. QueueLives'
  BY <1>1, <1>2, <1>3 DEF QueueLives, TypeOK
<1>6. msgs'[update_radio_mq'] = 0 /\ pc'[u] = "recv"
  BY <1>2 DEF TypeOK
<1>7. StateHonest'
  BY <1>1, <1>3 DEF StateHonest, Running
<1>8. Requesting'
  BY <1>6 DEF Requesting
<1>9. Announced'
  BY <1>1, <1>2, <1>6 DEF Announced, Asked, TypeOK
<1> QED
  BY <1>4, <1>5, <1>7, <1>8, <1>9

LEMMA ThreadFailsKeeps ==
  ASSUME IInv, ThreadFails
  PROVE IInv'
<1> USE QueueAssumption DEF IInv
<1>1. \A u \in Updates : pc[u] = "none"
  BY DEF ThreadFails, MayCreate, QueueLives, TypeOK
<1>2. TypeOK'
  BY DEF ThreadFails, TypeOK
<1>3. QueueLives' /\ Announced' /\ Requesting'
  BY <1>1 DEF ThreadFails, QueueLives, Announced, Asked, Requesting
<1>4. StateHonest'
  BY DEF ThreadFails, StateHonest, Running
<1> QED
  BY <1>2, <1>3, <1>4

(* The request finds the thread waiting.                                   *)
LEMMA RequestKeeps ==
  ASSUME IInv, update_radio_list_req
  PROVE IInv'
<1> USE DEF IInv, update_radio_list_req, Announces, Asks
<1>1. TypeOK' /\ QueueLives' /\ Requesting'
  BY DEF TypeOK, QueueLives, Requesting
<1>2. \A u \in Updates : pc[u] \in {"none", "recv"}
  BY DEF Requesting, QueueLives
<1>3. StateHonest'
  BY DEF StateHonest, Running, Requesting
<1>4. Announced'
  BY <1>2 DEF Announced, Asked
<1> QED
  BY <1>1, <1>3, <1>4

LEMMA RequestedKeeps ==
  ASSUME IInv, Requested
  PROVE IInv'
BY DEF IInv, Requested, Announces, queue, TypeOK, QueueLives, StateHonest,
       Running, Requesting, Announced, Asked

(* What one thread does: there is no other.                                *)
LEMMA UpdateKeeps ==
  ASSUME IInv, NEW u \in Updates, Update(u)
  PROVE IInv'
<1> USE QueueAssumption DEF IInv, queue
<1>1. \A v \in Updates : v # u => pc[v] = "none"
  BY DEF Update, Receive, Fails, OpenFile, Succeeds, DeleteQueue, QueueLives
<1>2. CASE Receive(u)
  <2>1. TypeOK'
    BY <1>2 DEF Receive, TypeOK
  <2>2. ui # "request"
    BY <1>1, <1>2 DEF Receive, Requesting
  <2>3. QueueLives' /\ Requesting' /\ StateHonest'
    BY <1>2, <2>2
    DEF Receive, TypeOK, QueueLives, Requesting, StateHonest, Running
  <2>4. Announced'
    BY <1>1, <1>2 DEF Receive, TypeOK, Announced, Asked
  <2> QED
    BY <2>1, <2>3, <2>4
<1>3. CASE Fails(u)
  <2>1. TypeOK' /\ QueueLives' /\ Requesting'
    BY <1>3 DEF Fails, TypeOK, QueueLives, Requesting
  <2>2. StateHonest' /\ Announced'
    BY <1>1, <1>3 DEF Fails, TypeOK, StateHonest, Announced, Asked
  <2> QED
    BY <2>1, <2>2
<1>4. CASE OpenFile(u)
  <2>1. TypeOK' /\ QueueLives' /\ Requesting'
    BY <1>4 DEF OpenFile, TypeOK, QueueLives, Requesting
  <2>2. StateHonest'
    BY <1>4 DEF OpenFile, TypeOK, StateHonest, Running, Announced
  <2>3. Announced'
    BY <1>1, <1>4 DEF OpenFile, TypeOK, Announced, Asked
  <2> QED
    BY <2>1, <2>2, <2>3
<1>5. CASE Succeeds(u)
  <2>1. TypeOK' /\ QueueLives' /\ Requesting'
    BY <1>5 DEF Succeeds, TypeOK, QueueLives, Requesting
  <2>2. StateHonest' /\ Announced'
    BY <1>1, <1>5 DEF Succeeds, TypeOK, StateHonest, Announced, Asked
  <2> QED
    BY <2>1, <2>2
<1>6. CASE DeleteQueue(u)
  <2>1. TypeOK'
    BY <1>6 DEF DeleteQueue, TypeOK
  <2>2. ui # "request"
    BY <1>1, <1>6 DEF DeleteQueue, Requesting
  <2>3. \A v \in Updates : pc'[v] = "none"
    BY <1>1, <1>6 DEF DeleteQueue, TypeOK
  <2>4. QueueLives' /\ Requesting' /\ Announced'
    BY <1>6, <2>2, <2>3 DEF DeleteQueue, QueueLives, Requesting, Announced, Asked
  <2>5. StateHonest'
    BY <1>6 DEF DeleteQueue, StateHonest, Announced
  <2> QED
    BY <2>1, <2>4, <2>5
<1> QED
  BY <1>2, <1>3, <1>4, <1>5, <1>6 DEF Update

LEMMA StepKeeps ==
  ASSUME IInv, [Next]_vars
  PROVE IInv'
<1>1. CASE UNCHANGED vars
  BY <1>1 DEF vars, queue, IInv, TypeOK, QueueLives, StateHonest, Running,
              Requesting, Announced, Asked
<1> QED
  BY <1>1, CreateUpdateKeeps, ThreadFailsKeeps, RequestKeeps, RequestedKeeps,
     UpdateKeeps
  DEF Next, Ui

LEMMA Invariant == Spec => []IInv
  BY InitHolds, StepKeeps, PTL DEF Spec

(* Types.                                                                  *)
THEOREM TypeCorrect == Spec => []TypeOK
<1>1. IInv => TypeOK
  BY DEF IInv
<1> QED
  BY <1>1, Invariant, PTL

(* The pointer and the queue behind it live as long as the thread: one     *)
(* thread at a time uses them.                                             *)
THEOREM QueueLivesTheorem == Spec => []QueueLives
<1>1. IInv => QueueLives
  BY DEF IInv
<1> QED
  BY <1>1, Invariant, PTL

(* What the view says about an update is so.                               *)
THEOREM StateHonestTheorem == Spec => []StateHonest
<1>1. IInv => StateHonest
  BY DEF IInv
<1> QED
  BY <1>1, Invariant, PTL
=============================================================================
