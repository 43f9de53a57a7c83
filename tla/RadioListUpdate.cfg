SPECIFICATION Spec
CONSTANTS
  Updates = {u1, u2, u3}
  Queues = {q1, q2, q3}
  NoQueue = NoQueue
INVARIANTS
  TypeOK
  QueueLives
  StateHonest
CHECK_DEADLOCK FALSE
