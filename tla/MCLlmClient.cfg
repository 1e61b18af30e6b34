\* Contention, failures and cancellations in two consecutive event loops.
SPECIFICATION Spec
CONSTANTS
  Requests = {r1, r2, r3}
  MaxConcurrent = 2
  MaxRetries = 2
  Deadline = TRUE
  LoopIds = {A1, A2}
  NoId = NoId
  MaxRounds = 2
INVARIANTS
  PermitsConserved
  LoopBound
PROPERTIES
  ActsAsOneSemaphore
  EventuallySettled
