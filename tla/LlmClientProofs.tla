-------------------------- MODULE LlmClientProofs --------------------------
(***************************************************************************)
(* Theorems about LlmClient, for every set of requests, every number of    *)
(* permits and retries, and any reuse of event loop addresses that a live  *)
(* session permits.                                                        *)
(***************************************************************************)
EXTENDS LlmClient, FiniteSetTheorems, SequenceTheorems, TLAPS

(***************************************************************************)
(* Outside a loop nobody waits; a waiting request has bound the globals to *)
(* its own loop; session and semaphore are of one loop, whose id is the    *)
(* one remembered; a loop that has the remembered id is that very loop.    *)
(* A request not yet submitted has not failed.                             *)
(***************************************************************************)
IdleInv    == ~running => \A r \in Requests : status[r] \notin Waiting
RoundInv   == running => round > 0
HoldInv    == \A r \in Requests : status[r] = "sending" => holds[r] = sem.gen
BoundInv   == \A r \in Requests : status[r] \in Waiting => /\ knownId = loopId
                                                           /\ session.loop = round
                                                           /\ sem.gen > 0
PairInv    == /\ sem.loop = session.loop
              /\ session.loop = 0 <=> sem.gen = 0
KnownInv   == session.loop # 0 => session.id = knownId
AttemptInv == \A r \in Requests : status[r] = "new" => attempt[r] = 0
CurrentInv == knownId = loopId /\ session.loop # 0 => session.loop = round

LoopInv == IdleInv /\ RoundInv /\ BoundInv /\ PairInv /\ KnownInv /\ CurrentInv

IInv == /\ TypeOK
        /\ LoopInv
        /\ HoldInv
        /\ AttemptInv
        /\ PermitsConserved
        /\ FallbackIsLast
        /\ QueueIsWaiters

-----------------------------------------------------------------------------

LEMMA SendingFinite == IsFiniteSet(Sending) /\ Cardinality(Sending) \in Nat
<1>1. IsFiniteSet(Sending)
  BY ClientAssumption, FS_Subset DEF Sending
<1>2. QED
  BY <1>1, FS_CardinalityType

(* A request that starts sending adds one to those in flight. *)
LEMMA SendingGrows ==
  ASSUME TypeOK, NEW r \in Requests, status[r] # "sending",
         status' = [status EXCEPT ![r] = "sending"]
  PROVE  Cardinality(Sending)' = Cardinality(Sending) + 1
<1>1. Sending' = Sending \cup {r} /\ r \notin Sending
  BY DEF Sending, TypeOK
<1>2. Cardinality(Sending \cup {r}) = Cardinality(Sending) + 1
  BY <1>1, SendingFinite, FS_AddElement
<1>3. QED
  BY <1>1, <1>2

(* One that stops sending takes one away. *)
LEMMA SendingShrinks ==
  ASSUME TypeOK, NEW r \in Requests, status[r] = "sending", NEW s, s # "sending",
         status' = [status EXCEPT ![r] = s]
  PROVE  /\ Cardinality(Sending)' = Cardinality(Sending) - 1
         /\ Cardinality(Sending) > 0
<1>1. Sending' = Sending \ {r} /\ r \in Sending
  BY DEF Sending, TypeOK
<1>2. Cardinality(Sending \ {r}) = Cardinality(Sending) - 1
  BY <1>1, SendingFinite, FS_RemoveElement
<1>3. Cardinality(Sending \ {r}) \in Nat
  BY SendingFinite, FS_RemoveElement, FS_CardinalityType
<1>4. QED
  BY <1>1, <1>2, <1>3, SendingFinite

(* Other moves leave the requests in flight as they are. *)
LEMMA SendingStays ==
  ASSUME TypeOK, NEW r \in Requests, status[r] # "sending", NEW s, s # "sending",
         status' = [status EXCEPT ![r] = s]
  PROVE  Sending' = Sending
BY DEF Sending, TypeOK

LEMMA InitInv == Init => IInv
<1> SUFFICES ASSUME Init PROVE IInv
  OBVIOUS
<1>a. "answered" \in Status /\ 0 \in Rounds /\ 0 \in 0..MaxRetries
  BY ClientAssumption DEF Status, Final, Rounds
<1>b. NoSession \in [loop : Rounds, id : LoopIds \cup {NoId}]
  BY <1>a DEF NoSession
<1>c. NoSemaphore \in [gen : Nat, loop : Rounds, permits : 0..MaxConcurrent]
  BY <1>a, ClientAssumption DEF NoSemaphore
<1>d. /\ status \in [Requests -> Status]
      /\ attempt \in [Requests -> 0..MaxRetries]
      /\ holds \in [Requests -> Nat]
  BY <1>a DEF Init
<1>e. queue \in Seq(Requests)
  BY DEF Init
<1>1. TypeOK
  BY <1>a, <1>b, <1>c, <1>d, <1>e DEF Init, TypeOK
<1>2. LoopInv /\ HoldInv /\ AttemptInv /\ PermitsConserved /\ FallbackIsLast
  BY ClientAssumption DEF Init, LoopInv, IdleInv, RoundInv, BoundInv, PairInv, KnownInv,
     CurrentInv, HoldInv, AttemptInv, PermitsConserved, FallbackIsLast, Waiting, NoSession, NoSemaphore
<1>3. QueueIsWaiters
  BY DEF Init, QueueIsWaiters
<1>4. QED
  BY <1>1, <1>2, <1>3 DEF IInv

LEMMA StartLoopInv ==
  ASSUME IInv, StartLoop PROVE IInv'
<1> USE DEF IInv, StartLoop, resources
<1>1. PICK i \in LoopIds \ {session.id} : loopId' = i
  BY DEF StartLoop
<1>2. TypeOK'
  BY <1>1, ClientAssumption DEF TypeOK, Rounds, Status
<1>3. \A r \in Requests : status'[r] = "new" /\ status[r] # "sending"
  BY DEF LoopInv, IdleInv, Waiting
<1>4. LoopInv'
  BY <1>1, <1>3 DEF TypeOK, LoopInv, IdleInv, RoundInv, BoundInv, PairInv, KnownInv,
     CurrentInv,
     Waiting, Rounds
<1>5. Sending' = {} /\ Sending = {}
  BY <1>3 DEF Sending
<1>6. HoldInv' /\ AttemptInv' /\ PermitsConserved' /\ FallbackIsLast'
  BY <1>3, <1>5 DEF HoldInv, AttemptInv, PermitsConserved, FallbackIsLast, Waiting
<1>7. QueueIsWaiters'
  BY <1>3, \A r \in Requests : status[r] # "queued" DEF QueueIsWaiters, LoopInv,
     IdleInv, Waiting
<1>8. QED
  BY <1>2, <1>4, <1>6, <1>7

LEMMA FinishLoopInv ==
  ASSUME IInv, FinishLoop PROVE IInv'
<1> USE DEF IInv, FinishLoop, resources
<1>1. TypeOK'
  BY DEF TypeOK
<1>2. LoopInv'
  BY DEF LoopInv, IdleInv, RoundInv, BoundInv, PairInv, KnownInv, CurrentInv, Final,
     Waiting
<1>3. HoldInv' /\ AttemptInv' /\ PermitsConserved' /\ FallbackIsLast' /\ QueueIsWaiters'
  BY DEF HoldInv, AttemptInv, PermitsConserved, FallbackIsLast, QueueIsWaiters, Sending
<1>4. QED
  BY <1>1, <1>2, <1>3

(* What a request finds after renewing the globals: all belong to the      *)
(* running loop, and a semaphore is replaced only when nobody uses it.     *)
LEMMA Renewal ==
  ASSUME IInv, running, GetResources(TRUE)
  PROVE  /\ knownId' = loopId
         /\ session' \in [loop : Rounds, id : LoopIds \cup {NoId}]
         /\ session'.loop = round /\ session'.id = loopId
         /\ sem' \in [gen : Nat, loop : Rounds, permits : 0..MaxConcurrent]
         /\ sem'.loop = round /\ sem'.gen > 0
         /\ sems' \in Nat
         /\ \/ sem' = sem
            \/ /\ \A r \in Requests : status[r] \notin Waiting
               /\ sem'.permits = MaxConcurrent
<1> USE DEF IInv, LoopInv, TypeOK
<1>1. knownId' = loopId
  BY DEF GetResources
<1>2. round \in Rounds /\ round # 0
  BY DEF RoundInv, Rounds
<1>3. CASE knownId # loopId \/ session.loop = 0
  <2>1. session' = [loop |-> round, id |-> loopId]
    BY <1>3 DEF GetResources, CreateSession, MustReset
  <2>2. /\ sems' = sems + 1
        /\ sem' = [gen |-> sems + 1, loop |-> round, permits |-> MaxConcurrent]
    BY <1>3 DEF GetResources, CreateSemaphore, MustReset, PairInv
  <2>3. \A r \in Requests : status[r] \notin Waiting
    BY <1>2, <1>3 DEF BoundInv
  <2>4. sem' \in [gen : Nat, loop : Rounds, permits : 0..MaxConcurrent]
    BY <1>2, <2>2, ClientAssumption
  <2>5. QED
    BY <1>1, <1>2, <2>1, <2>2, <2>3, <2>4
<1>4. CASE knownId = loopId /\ session.loop # 0
  <2>1. session' = session
    BY <1>4 DEF GetResources, CreateSession, MustReset
  <2>2. sem' = sem /\ sems' = sems /\ sem.gen # 0
    BY <1>4 DEF GetResources, CreateSemaphore, MustReset, PairInv
  <2>3. session.loop = round /\ session.id = loopId /\ sem.loop = round
    BY <1>4 DEF CurrentInv, KnownInv, PairInv
  <2>4. QED
    BY <1>1, <2>1, <2>2, <2>3
<1>5. QED
  BY <1>3, <1>4

(* Joining the queue once more, by a request that is not in it. *)
LEMMA Enqueued ==
  ASSUME TypeOK, QueueIsWaiters, NEW r \in Requests, status[r] # "queued", Enqueue(r)
  PROVE  /\ QueueIsWaiters'
         /\ queue' \in Seq(Requests)
         /\ status' \in [Requests -> Status]
         /\ Sending' = Sending \ {r}
<1>1. /\ status' = [status EXCEPT ![r] = "queued"]
      /\ queue' = Append(queue, r)
      /\ \A k \in DOMAIN queue : queue[k] # r
  BY DEF Enqueue, QueueIsWaiters
<1>2. /\ DOMAIN queue = 1..Len(queue) /\ Len(queue) \in Nat
      /\ DOMAIN queue' = 1..(Len(queue) + 1)
      /\ \A k \in 1..Len(queue) : queue'[k] = queue[k]
      /\ queue'[Len(queue) + 1] = r
      /\ queue' \in Seq(Requests)
  BY <1>1 DEF TypeOK
<1>3. \A s \in Requests : status'[s] = "queued" <=> \E k \in DOMAIN queue' : queue'[k] = s
  <2> SUFFICES ASSUME NEW s \in Requests
               PROVE  status'[s] = "queued" <=> \E k \in DOMAIN queue' : queue'[k] = s
    OBVIOUS
  <2>1. CASE s = r
    BY <1>1, <1>2, <2>1 DEF TypeOK
  <2>2. CASE s # r
    BY <1>1, <1>2, <2>2 DEF TypeOK, QueueIsWaiters
  <2>3. QED
    BY <2>1, <2>2
<1>4. \A j, k \in DOMAIN queue' : queue'[j] = queue'[k] => j = k
  BY <1>1, <1>2 DEF QueueIsWaiters
<1>5. status' \in [Requests -> Status] /\ Sending' = Sending \ {r}
  BY <1>1 DEF TypeOK, Status, Waiting, Sending
<1>6. QED
  BY <1>2, <1>3, <1>4, <1>5 DEF QueueIsWaiters

LEMMA SubmitInv ==
  ASSUME IInv, NEW r \in Requests, Submit(r) PROVE IInv'
<1>1. /\ running /\ status[r] = "new" /\ GetResources(TRUE) /\ Enqueue(r)
      /\ UNCHANGED <<round, running, loopId, attempt, holds>>
      /\ status' = [status EXCEPT ![r] = "queued"]
  BY DEF Submit, Enqueue
<1>2. /\ QueueIsWaiters' /\ queue' \in Seq(Requests)
      /\ status' \in [Requests -> Status] /\ Sending' = Sending
  BY <1>1, Enqueued DEF IInv, Sending
<1>3. TypeOK'
  BY <1>1, <1>2, Renewal DEF IInv, TypeOK
<1>4. LoopInv'
  BY <1>1, Renewal DEF IInv, TypeOK, LoopInv, IdleInv, RoundInv, BoundInv, PairInv,
     KnownInv,
     CurrentInv, Rounds
<1>5. HoldInv' /\ PermitsConserved'
  <2>1. CASE sem' = sem
    BY <1>1, <1>2, <2>1 DEF IInv, TypeOK, HoldInv, PermitsConserved
  <2>2. CASE /\ \A s \in Requests : status[s] \notin Waiting
             /\ sem'.permits = MaxConcurrent
    <3>1. Sending = {}
      BY <2>2 DEF Sending, Waiting
    <3>2. \A s \in Requests : status'[s] # "sending"
      BY <1>1, <2>2 DEF Waiting, IInv, TypeOK
    <3>3. QED
      BY <1>2, <2>2, <3>1, <3>2, FS_EmptySet, ClientAssumption DEF HoldInv,
         PermitsConserved
  <2>3. QED
    BY <1>1, <2>1, <2>2, Renewal
<1>6. FallbackIsLast' /\ AttemptInv'
  BY <1>1, ClientAssumption DEF IInv, TypeOK, FallbackIsLast, AttemptInv, Waiting
<1>7. QED
  BY <1>2, <1>3, <1>4, <1>5, <1>6 DEF IInv

LEMMA RetryInv ==
  ASSUME IInv, NEW r \in Requests, Retry(r) PROVE IInv'
<1>1. /\ status[r] = "backoff" /\ Enqueue(r)
      /\ UNCHANGED <<round, running, loopId, attempt, holds>>
      /\ status' = [status EXCEPT ![r] = "queued"]
      /\ running /\ knownId = loopId /\ session.loop = round /\ sem.gen > 0
  BY DEF Retry, Enqueue, IInv, TypeOK, LoopInv, IdleInv, BoundInv, Waiting
<1>2. UNCHANGED <<session, sem, sems>> /\ knownId' = knownId
  BY <1>1 DEF Retry, GetResources, MustReset, CreateSession, CreateSemaphore, IInv,
     TypeOK,
     LoopInv, PairInv, RoundInv, Rounds
<1>3. /\ QueueIsWaiters' /\ queue' \in Seq(Requests)
      /\ status' \in [Requests -> Status] /\ Sending' = Sending
  BY <1>1, Enqueued DEF IInv, Sending
<1>4. TypeOK'
  BY <1>1, <1>2, <1>3 DEF IInv, TypeOK
<1>5. LoopInv'
  BY <1>1, <1>2 DEF IInv, TypeOK, LoopInv, IdleInv, RoundInv, BoundInv, PairInv,
     KnownInv,
     CurrentInv, Waiting
<1>6. HoldInv' /\ PermitsConserved' /\ FallbackIsLast' /\ AttemptInv'
  BY <1>1, <1>2, <1>3 DEF IInv, TypeOK, HoldInv, PermitsConserved, FallbackIsLast,
     AttemptInv,
     Waiting
<1>7. QED
  BY <1>3, <1>4, <1>5, <1>6 DEF IInv

LEMMA AcquireInv ==
  ASSUME IInv, NEW r \in Requests, Acquire(r) PROVE IInv'
<1>1. /\ queue # <<>> /\ r = Head(queue) /\ queue' = Tail(queue) /\ sem.permits > 0
      /\ sem' = [sem EXCEPT !.permits = @ - 1]
      /\ holds' = [holds EXCEPT ![r] = sem.gen]
      /\ status' = [status EXCEPT ![r] = "sending"]
      /\ UNCHANGED <<round, running, loopId, knownId, session, sems, attempt>>
  BY DEF Acquire
<1>2. /\ DOMAIN queue = 1..Len(queue) /\ Len(queue) \in Nat \ {0}
      /\ queue[1] = r
      /\ DOMAIN queue' = 1..(Len(queue) - 1)
      /\ \A k \in 1..(Len(queue) - 1) : queue'[k] = queue[k + 1]
      /\ queue' \in Seq(Requests)
  BY <1>1 DEF IInv, TypeOK
<1>3. status[r] = "queued"
  BY <1>2 DEF IInv, QueueIsWaiters
<1>4. TypeOK'
  <2>1. sem' \in [gen : Nat, loop : Rounds, permits : 0..MaxConcurrent]
    <3>1. sem \in [gen : Nat, loop : Rounds, permits : 0..MaxConcurrent]
      BY DEF IInv, TypeOK
    <3>2. sem.permits - 1 \in 0..MaxConcurrent
      BY <1>1, <3>1, ClientAssumption
    <3>3. sem' = [sem EXCEPT !.permits = sem.permits - 1]
      BY <1>1
    <3>4. QED
      BY <3>1, <3>2, <3>3
  <2>2. status' \in [Requests -> Status] /\ holds' \in [Requests -> Nat]
    BY <1>1 DEF IInv, TypeOK, Status, Waiting
  <2>3. QED
    BY <1>1, <1>2, <2>1, <2>2 DEF IInv, TypeOK
<1>5. LoopInv'
  BY <1>1, <1>3 DEF IInv, TypeOK, LoopInv, IdleInv, RoundInv, BoundInv, PairInv,
     KnownInv,
     CurrentInv, Waiting
<1>6. HoldInv' /\ FallbackIsLast' /\ AttemptInv'
  BY <1>1, <1>3 DEF IInv, TypeOK, HoldInv, FallbackIsLast, AttemptInv, Waiting
<1>7. PermitsConserved'
  <2>1. Cardinality(Sending)' = Cardinality(Sending) + 1
    BY <1>1, <1>3, SendingGrows DEF IInv
  <2>2. sem'.permits = sem.permits - 1 /\ sem'.gen = sem.gen
    BY <1>1 DEF IInv, TypeOK
  <2>3. QED
    BY <2>1, <2>2, SendingFinite, ClientAssumption DEF IInv, TypeOK, PermitsConserved
<1>8. QueueIsWaiters'
  <2>1. ASSUME NEW s \in Requests
        PROVE  status'[s] = "queued" <=> \E k \in DOMAIN queue' : queue'[k] = s
    <3>1. CASE s = r
      <4>1. status'[s] # "queued"
        BY <1>1, <3>1 DEF IInv, TypeOK
      <4>2. ASSUME NEW k \in DOMAIN queue'
            PROVE  queue'[k] # s
        <5>1. 1 \in DOMAIN queue /\ k + 1 \in DOMAIN queue /\ k + 1 # 1
          BY <1>2
        <5>2. queue[k + 1] # queue[1]
          BY <5>1 DEF IInv, QueueIsWaiters
        <5>3. QED
          BY <1>2, <3>1, <5>2
      <4>3. QED
        BY <4>1, <4>2
    <3>2. CASE s # r
      <4>1. status'[s] = "queued" <=> \E k \in DOMAIN queue : queue[k] = s
        BY <1>1, <3>2 DEF IInv, TypeOK, QueueIsWaiters
      <4>2. ASSUME NEW k \in DOMAIN queue, queue[k] = s
            PROVE  k - 1 \in DOMAIN queue' /\ queue'[k - 1] = s
        BY <1>2, <3>2, <4>2
      <4>3. QED
        BY <1>2, <4>1, <4>2
    <3>3. QED
      BY <3>1, <3>2
  <2>2. ASSUME NEW j \in DOMAIN queue', NEW k \in DOMAIN queue', queue'[j] = queue'[k]
        PROVE  j = k
    <3>1. j + 1 \in DOMAIN queue /\ k + 1 \in DOMAIN queue
      BY <1>2
    <3>2. queue[j + 1] = queue[k + 1]
      BY <1>2, <2>2
    <3>3. j + 1 = k + 1
      BY <3>1, <3>2 DEF IInv, QueueIsWaiters
    <3>4. QED
      BY <1>2, <3>3
  <2>3. QED
    BY <2>1, <2>2 DEF QueueIsWaiters
<1>9. QED
  BY <1>4, <1>5, <1>6, <1>7, <1>8 DEF IInv

(* A sending request gives its permit back to the semaphore in use.        *)
LEMMA Released ==
  ASSUME IInv, NEW r \in Requests, status[r] = "sending", Release(r),
         NEW s \in Status, s # "sending", status' = [status EXCEPT ![r] = s]
  PROVE  /\ sem' = [sem EXCEPT !.permits = sem.permits + 1]
         /\ sem' \in [gen : Nat, loop : Rounds, permits : 0..MaxConcurrent]
         /\ holds' \in [Requests -> Nat]
         /\ HoldInv' /\ PermitsConserved'
<1>1. /\ sem \in [gen : Nat, loop : Rounds, permits : 0..MaxConcurrent]
      /\ sem.gen > 0
      /\ holds[r] = sem.gen
  BY DEF IInv, TypeOK, HoldInv, LoopInv, BoundInv, Waiting
<1>2. sem' = [sem EXCEPT !.permits = sem.permits + 1]
  BY <1>1 DEF Release
<1>3. /\ Cardinality(Sending)' = Cardinality(Sending) - 1
      /\ Cardinality(Sending) > 0
      /\ Cardinality(Sending) \in Nat
  BY SendingShrinks, SendingFinite DEF IInv
<1>4. sem.permits + Cardinality(Sending) = MaxConcurrent
  BY <1>1 DEF IInv, PermitsConserved
<1>5. sem.permits + 1 \in 0..MaxConcurrent
  BY <1>1, <1>3, <1>4, ClientAssumption
<1>6. sem' \in [gen : Nat, loop : Rounds, permits : 0..MaxConcurrent]
  BY <1>1, <1>2, <1>5
<1>7. sem'.gen = sem.gen /\ sem'.permits = sem.permits + 1
  BY <1>1, <1>2
<1>8. PermitsConserved'
  BY <1>1, <1>3, <1>4, <1>7, ClientAssumption DEF PermitsConserved
<1>9. HoldInv' /\ holds' \in [Requests -> Nat]
  BY <1>7 DEF IInv, TypeOK, HoldInv, Release
<1>10. QED
  BY <1>2, <1>6, <1>8, <1>9

(* What leaves the queue alone keeps it exact if the request that moves    *)
(* was not in it and does not join it.                                     *)
LEMMA QueueKept ==
  ASSUME TypeOK, QueueIsWaiters, NEW r \in Requests, status[r] # "queued",
         NEW s, s # "queued", status' = [status EXCEPT ![r] = s], queue' = queue
  PROVE  QueueIsWaiters'
<1>1. \A q \in Requests : status'[q] = "queued" <=> status[q] = "queued"
  BY DEF TypeOK
<1>2. QED
  BY <1>1 DEF QueueIsWaiters

LEMMA RespondInv ==
  ASSUME IInv, NEW r \in Requests, Respond(r) PROVE IInv'
<1>1. /\ status[r] = "sending" /\ Release(r)
      /\ status' = [status EXCEPT ![r] = "answered"]
      /\ UNCHANGED <<round, running, loopId, knownId, session, sems, attempt, queue>>
  BY DEF Respond
<1>2. "answered" \in Status
  BY DEF Status, Final
<1>3. /\ sem' = [sem EXCEPT !.permits = sem.permits + 1]
      /\ sem' \in [gen : Nat, loop : Rounds, permits : 0..MaxConcurrent]
      /\ holds' \in [Requests -> Nat]
      /\ HoldInv' /\ PermitsConserved'
  BY <1>1, <1>2, Released
<1>4. TypeOK'
  BY <1>1, <1>2, <1>3 DEF IInv, TypeOK
<1>5. LoopInv'
  BY <1>1, <1>3 DEF IInv, TypeOK, LoopInv, IdleInv, RoundInv, BoundInv, PairInv,
     KnownInv,
     CurrentInv, Waiting
<1>6. FallbackIsLast' /\ AttemptInv'
  BY <1>1 DEF IInv, TypeOK, FallbackIsLast, AttemptInv, Waiting
<1>7. QueueIsWaiters'
  BY <1>1, QueueKept DEF IInv
<1>8. QED
  BY <1>3, <1>4, <1>5, <1>6, <1>7 DEF IInv

LEMMA AttemptFailsInv ==
  ASSUME IInv, NEW r \in Requests, AttemptFails(r) PROVE IInv'
<1> DEFINE s == IF attempt[r] + 1 < MaxRetries THEN "backoff" ELSE "fallback"
<1>1. /\ status[r] = "sending" /\ Release(r) /\ ResetOnError
      /\ attempt' = [attempt EXCEPT ![r] = @ + 1]
      /\ status' = [status EXCEPT ![r] = s]
      /\ UNCHANGED <<round, running, loopId, sems, queue>>
  BY DEF AttemptFails
<1>2. s \in Status /\ s \notin {"sending", "queued", "new"}
  BY DEF Status, Final, Waiting
<1>3. attempt[r] \in 0..MaxRetries /\ attempt[r] < MaxRetries
  BY <1>1 DEF IInv, TypeOK, FallbackIsLast, Waiting
<1>4. knownId' = knownId /\ session' = session
  BY <1>1 DEF ResetOnError, IInv, LoopInv, BoundInv, Waiting
<1> HIDE DEF s
<1>5. /\ sem' = [sem EXCEPT !.permits = sem.permits + 1]
      /\ sem' \in [gen : Nat, loop : Rounds, permits : 0..MaxConcurrent]
      /\ holds' \in [Requests -> Nat]
      /\ HoldInv' /\ PermitsConserved'
  BY <1>1, <1>2, Released
<1>6. attempt[r] + 1 \in 0..MaxRetries
  BY <1>3, ClientAssumption
<1>7. TypeOK'
  BY <1>1, <1>2, <1>4, <1>5, <1>6 DEF IInv, TypeOK
<1>8. LoopInv'
  BY <1>1, <1>4, <1>5 DEF IInv, TypeOK, LoopInv, IdleInv, RoundInv, BoundInv, PairInv,
     KnownInv,
     CurrentInv, Waiting
<1>9. FallbackIsLast'
  BY <1>1, <1>3, ClientAssumption DEF s, IInv, TypeOK, FallbackIsLast, Waiting
<1>10. AttemptInv'
  BY <1>1, <1>2 DEF IInv, TypeOK, AttemptInv
<1>11. QueueIsWaiters'
  BY <1>1, <1>2, QueueKept DEF IInv
<1>12. QED
  BY <1>5, <1>7, <1>8, <1>9, <1>10, <1>11 DEF IInv

LEMMA RemoveAtEntries ==
  ASSUME NEW S, NEW q \in Seq(S), NEW k \in DOMAIN q
  PROVE  /\ RemoveAt(q, k) \in Seq(S)
         /\ Len(RemoveAt(q, k)) = Len(q) - 1
         /\ \A j \in 1..(Len(q) - 1) : RemoveAt(q, k)[j] = IF j < k THEN q[j] ELSE q[j + 1]
<1> DEFINE n == Len(q)
           front == SubSeq(q, 1, k - 1)
           back  == SubSeq(q, k + 1, n)
<1>1. n \in Nat /\ k \in 1..n
  OBVIOUS
<1>2. /\ front \in Seq(S) /\ Len(front) = k - 1
      /\ \A j \in 1..(k - 1) : front[j] = q[j]
  BY <1>1, SubSeqProperties
<1>3. /\ back \in Seq(S) /\ Len(back) = n - k
      /\ \A j \in 1..(n - k) : back[j] = q[k + j]
  BY <1>1, SubSeqProperties
<1> HIDE DEF front, back
<1>4. /\ front \o back \in Seq(S) /\ Len(front \o back) = n - 1
      /\ \A j \in 1..(n - 1) :
           (front \o back)[j] = IF j <= k - 1 THEN front[j] ELSE back[j - (k - 1)]
  <2>1. /\ front \o back \in Seq(S)
        /\ Len(front \o back) = Len(front) + Len(back)
        /\ \A j \in 1..(Len(front) + Len(back)) :
             (front \o back)[j] = IF j <= Len(front) THEN front[j] ELSE back[j - Len(front)]
    BY <1>2, <1>3, ConcatProperties
  <2>2. Len(front) = k - 1 /\ Len(front) + Len(back) = n - 1
    BY <1>1, <1>2, <1>3
  <2>3. QED
    BY <2>1, <2>2
<1>5. ASSUME NEW j \in 1..(n - 1)
      PROVE  (front \o back)[j] = IF j < k THEN q[j] ELSE q[j + 1]
  <2>1. CASE j < k
    BY <1>1, <1>2, <1>4, <2>1
  <2>2. CASE j >= k
    <3>1. j - (k - 1) \in 1..(n - k) /\ k + (j - (k - 1)) = j + 1
      BY <1>1, <2>2
    <3>2. (front \o back)[j] = back[j - (k - 1)]
      BY <1>1, <1>4, <2>2
    <3>3. back[j - (k - 1)] = q[k + (j - (k - 1))]
      BY <1>3, <3>1
    <3>4. QED
      BY <1>1, <2>2, <3>1, <3>2, <3>3
  <2>3. j < k \/ j >= k
    BY <1>1
  <2>4. QED
    BY <2>1, <2>2, <2>3
<1>6. RemoveAt(q, k) = front \o back
  BY DEF RemoveAt, front, back
<1>7. QED
  BY <1>4, <1>5, <1>6

(* A waiter that leaves the queue leaves the others in it.                 *)
LEMMA LeftQueue ==
  ASSUME TypeOK, QueueIsWaiters, NEW r \in Requests, status[r] = "queued", LeaveQueue(r),
         NEW s, s # "queued", status' = [status EXCEPT ![r] = s]
  PROVE  QueueIsWaiters' /\ queue' \in Seq(Requests)
<1>1. PICK k \in DOMAIN queue : queue[k] = r /\ queue' = RemoveAt(queue, k)
  BY DEF LeaveQueue
<1>2. /\ queue \in Seq(Requests) /\ Len(queue) \in Nat /\ k \in 1..Len(queue)
      /\ queue' \in Seq(Requests)
      /\ Len(queue') = Len(queue) - 1
      /\ \A j \in 1..(Len(queue) - 1) : queue'[j] = IF j < k THEN queue[j] ELSE queue[j + 1]
  <2>1. queue \in Seq(Requests)
    BY DEF TypeOK
  <2>2. Len(queue) \in Nat /\ k \in 1..Len(queue)
    BY <2>1
  <2>3. /\ RemoveAt(queue, k) \in Seq(Requests)
        /\ Len(RemoveAt(queue, k)) = Len(queue) - 1
        /\ \A j \in 1..(Len(queue) - 1) :
             RemoveAt(queue, k)[j] = IF j < k THEN queue[j] ELSE queue[j + 1]
    BY <2>1, RemoveAtEntries
  <2>4. QED
    BY <1>1, <2>1, <2>2, <2>3
<1>3. DOMAIN queue' = 1..(Len(queue) - 1) /\ DOMAIN queue = 1..Len(queue)
  BY <1>2
<1> DEFINE from(j) == IF j < k THEN j ELSE j + 1
<1>4. ASSUME NEW j \in DOMAIN queue'
      PROVE  /\ from(j) \in DOMAIN queue
             /\ queue'[j] = queue[from(j)]
             /\ from(j) # k
  BY <1>2, <1>3
<1>5. ASSUME NEW j \in DOMAIN queue
      PROVE  j # k => \E i \in DOMAIN queue' : from(i) = j
  <2>1. CASE j < k
    BY <1>2, <1>3, <2>1
  <2>2. CASE j > k
    <3>1. j - 1 \in DOMAIN queue' /\ from(j - 1) = j
      BY <1>2, <1>3, <2>2
    <3>2. QED
      BY <3>1
  <2>3. QED
    BY <1>2, <1>3, <2>1, <2>2
<1>6. ASSUME NEW i \in DOMAIN queue', NEW j \in DOMAIN queue', from(i) = from(j)
      PROVE  i = j
  BY <1>2, <1>3, <1>6
<1> HIDE DEF from
<1>7. ASSUME NEW q \in Requests
      PROVE  status'[q] = "queued" <=> \E j \in DOMAIN queue' : queue'[j] = q
  <2>1. CASE q = r
    <3>1. status'[q] # "queued"
      BY <2>1 DEF TypeOK
    <3>2. \A j \in DOMAIN queue' : queue'[j] # r
      BY <1>1, <1>4 DEF QueueIsWaiters
    <3>3. QED
      BY <2>1, <3>1, <3>2
  <2>2. CASE q # r
    <3>1. status'[q] = "queued" <=> \E j \in DOMAIN queue : queue[j] = q
      BY <2>2 DEF TypeOK, QueueIsWaiters
    <3>2. QED
      BY <1>1, <1>4, <1>5, <2>2, <3>1
  <2>3. QED
    BY <2>1, <2>2
<1>8. ASSUME NEW i \in DOMAIN queue', NEW j \in DOMAIN queue', queue'[i] = queue'[j]
      PROVE  i = j
  BY <1>4, <1>6, <1>8 DEF QueueIsWaiters
<1>9. QED
  BY <1>2, <1>7, <1>8 DEF QueueIsWaiters

LEMMA CancelInv ==
  ASSUME IInv, NEW r \in Requests, Cancel(r) PROVE IInv'
<1>1. /\ status[r] \in Waiting /\ LeaveQueue(r)
      /\ status' = [status EXCEPT ![r] = "cancelled"]
      /\ UNCHANGED <<round, running, loopId, knownId, session, sems, attempt>>
  BY DEF Cancel
<1>2. "cancelled" \in Status
  BY DEF Status, Final
<1>3. /\ sem' \in [gen : Nat, loop : Rounds, permits : 0..MaxConcurrent]
      /\ sem'.gen = sem.gen /\ sem'.loop = sem.loop
      /\ holds' \in [Requests -> Nat]
      /\ HoldInv' /\ PermitsConserved'
  <2>1. CASE status[r] = "sending"
    <3>1. Release(r)
      BY <2>1 DEF Cancel
    <3>2. /\ sem' = [sem EXCEPT !.permits = sem.permits + 1]
          /\ sem' \in [gen : Nat, loop : Rounds, permits : 0..MaxConcurrent]
          /\ holds' \in [Requests -> Nat]
          /\ HoldInv' /\ PermitsConserved'
      BY <1>1, <1>2, <2>1, <3>1, Released
    <3>3. QED
      BY <3>2 DEF IInv, TypeOK
  <2>2. CASE status[r] # "sending"
    <3>1. sem' = sem /\ holds' = holds
      BY <2>2 DEF Cancel
    <3>2. Sending' = Sending
      BY <1>1, <2>2, SendingStays DEF IInv
    <3>3. QED
      BY <1>1, <3>1, <3>2 DEF IInv, TypeOK, HoldInv, PermitsConserved
  <2>3. QED
    BY <2>1, <2>2
<1>4. QueueIsWaiters' /\ queue' \in Seq(Requests)
  <2>1. CASE status[r] = "queued"
    BY <1>1, <2>1, LeftQueue DEF IInv
  <2>2. CASE status[r] # "queued"
    <3>1. queue' = queue
      BY <1>1, <2>2 DEF LeaveQueue
    <3>2. QED
      BY <1>1, <2>2, <3>1, QueueKept DEF IInv, TypeOK
  <2>3. QED
    BY <2>1, <2>2
<1>5. TypeOK'
  BY <1>1, <1>2, <1>3, <1>4 DEF IInv, TypeOK
<1>6. LoopInv'
  BY <1>1, <1>3 DEF IInv, TypeOK, LoopInv, IdleInv, RoundInv, BoundInv, PairInv,
     KnownInv,
     CurrentInv, Waiting
<1>7. FallbackIsLast' /\ AttemptInv'
  BY <1>1 DEF IInv, TypeOK, FallbackIsLast, AttemptInv, Waiting
<1>8. QED
  BY <1>3, <1>4, <1>5, <1>6, <1>7 DEF IInv

LEMMA NextInv == IInv /\ [Next]_vars => IInv'
<1> SUFFICES ASSUME IInv, [Next]_vars PROVE IInv'
  OBVIOUS
<1>1. CASE StartLoop
  BY <1>1, StartLoopInv
<1>2. CASE FinishLoop
  BY <1>2, FinishLoopInv
<1>3. ASSUME NEW r \in Requests,
             \/ Submit(r) \/ Retry(r) \/ Acquire(r)
             \/ Respond(r) \/ AttemptFails(r) \/ Cancel(r)
      PROVE  IInv'
  BY <1>3, SubmitInv, RetryInv, AcquireInv, RespondInv, AttemptFailsInv, CancelInv
<1>4. CASE UNCHANGED vars
  BY <1>4 DEF vars, resources, IInv, TypeOK, LoopInv, IdleInv, RoundInv, BoundInv,
     PairInv,
     KnownInv, CurrentInv, HoldInv, AttemptInv, PermitsConserved, FallbackIsLast,
     QueueIsWaiters, Sending
<1>5. QED
  BY <1>1, <1>2, <1>3, <1>4 DEF Next, Done

LEMMA Inductive == Spec => []IInv
BY InitInv, NextInv, PTL DEF Spec

-----------------------------------------------------------------------------

(* Every variable of the client keeps its type, whatever the number of     *)
(* requests, permits and attempts.                                         *)
THEOREM TypeCorrect == Spec => []TypeOK
<1>1. IInv => TypeOK
  BY DEF IInv
<1>2. QED
  BY <1>1, Inductive, PTL

(* No way out of a request loses a permit or gives one back twice: free    *)
(* permits and requests on the wire always add up to the semaphore's size. *)
THEOREM PermitsAreConserved == Spec => []PermitsConserved
<1>1. IInv => PermitsConserved
  BY DEF IInv
<1>2. QED
  BY <1>1, Inductive, PTL

(* Never more than MaxConcurrent requests are on the wire, although the    *)
(* semaphore is created lazily and renewed in every event loop.            *)
THEOREM InFlightBounded == Spec => []InFlightBound
<1>1. IInv => InFlightBound
  <2> SUFFICES ASSUME IInv PROVE InFlightBound
    OBVIOUS
  <2>1. CASE Sending = {}
    BY <2>1, FS_EmptySet, ClientAssumption DEF InFlightBound
  <2>2. CASE Sending # {}
    <3>1. sem.gen > 0
      BY <2>2 DEF IInv, LoopInv, BoundInv, Sending, Waiting
    <3>2. sem.permits + Cardinality(Sending) = MaxConcurrent /\ sem.permits \in Nat
      BY <3>1 DEF IInv, TypeOK, PermitsConserved
    <3>3. QED
      BY <3>2, SendingFinite, ClientAssumption DEF IInv, InFlightBound
  <2>3. QED
    BY <2>1, <2>2
<1>2. QED
  BY <1>1, Inductive, PTL

(* No request is sent with a session or a semaphore of an earlier event    *)
(* loop, even when the address of that loop is in use again.               *)
THEOREM NothingCrossesLoops == Spec => []LoopBound
<1>1. IInv => LoopBound
  BY DEF IInv, LoopInv, BoundInv, PairInv, LoopBound, Sending, Waiting
<1>2. QED
  BY <1>1, Inductive, PTL

(* A fallback row stands for MaxRetries failed attempts, and the semaphore *)
(* queue holds exactly the requests that wait for a permit.                *)
THEOREM RetriesAndQueue == Spec => [](FallbackIsLast /\ QueueIsWaiters)
<1>1. IInv => FallbackIsLast /\ QueueIsWaiters
  BY DEF IInv
<1>2. QED
  BY <1>1, Inductive, PTL

-----------------------------------------------------------------------------

(***************************************************************************)
(* The refinement: each step of the client is a step of the semaphore, or  *)
(* none.                                                                   *)
(***************************************************************************)
SemStep == [Sem!Next]_<<queue, Sending>>

(* The instance has its own copy of the library. *)
LEMMA SameCardinality == Sem!Cardinality(Sending) = Cardinality(Sending)
BY DEF Sem!Cardinality, Cardinality

LEMMA WaitStep ==
  ASSUME IInv, NEW r \in Requests, status[r] \in {"new", "backoff"}, Enqueue(r)
  PROVE  SemStep
<1>1. /\ queue' = Append(queue, r)
      /\ Sending' = Sending
      /\ r \notin Sending
  BY DEF IInv, TypeOK, Enqueue, Sending
<1>2. ~Sem!InLine(r)
  BY DEF IInv, QueueIsWaiters, Sem!InLine
<1>3. Sem!Wait(r)
  BY <1>1, <1>2 DEF Sem!Wait
<1>4. QED
  BY <1>3 DEF SemStep, Sem!Next

LEMMA EnterStep ==
  ASSUME IInv, NEW r \in Requests, Acquire(r)
  PROVE  SemStep
<1>1. /\ queue # <<>> /\ r = Head(queue) /\ queue' = Tail(queue)
      /\ sem.permits > 0
      /\ status' = [status EXCEPT ![r] = "sending"]
  BY DEF Acquire
<1>2. Sending' = Sending \cup {Head(queue)}
  BY <1>1 DEF IInv, TypeOK, Sending
<1>3. \E k \in DOMAIN queue : queue[k] = r
  BY <1>1 DEF IInv, TypeOK
<1>4. status[r] \in Waiting
  BY <1>3 DEF IInv, QueueIsWaiters, Waiting
<1>5. sem.permits + Cardinality(Sending) = MaxConcurrent
  BY <1>4 DEF IInv, LoopInv, BoundInv, PermitsConserved
<1>6. Cardinality(Sending) < MaxConcurrent
  BY <1>1, <1>5, SendingFinite, ClientAssumption DEF IInv, TypeOK
<1>7. Sem!Enter
  BY <1>1, <1>2, <1>6, SameCardinality DEF Sem!Enter
<1>8. QED
  BY <1>7 DEF SemStep, Sem!Next

LEMMA LeaveStep ==
  ASSUME IInv, NEW r \in Requests, status[r] = "sending", queue' = queue,
         NEW s, s # "sending", status' = [status EXCEPT ![r] = s]
  PROVE  SemStep
<1>1. Sending' = Sending \ {r} /\ r \in Sending
  BY DEF IInv, TypeOK, Sending
<1>2. Sem!Leave(r)
  BY <1>1 DEF Sem!Leave
<1>3. QED
  BY <1>2 DEF SemStep, Sem!Next

LEMMA CancelStep ==
  ASSUME IInv, NEW r \in Requests, Cancel(r)
  PROVE  SemStep
<1>1. status' = [status EXCEPT ![r] = "cancelled"] /\ LeaveQueue(r)
      /\ status[r] \in Waiting
  BY DEF Cancel
<1>2. CASE status[r] = "queued"
  <2>1. Sending' = Sending
    BY <1>1, <1>2, SendingStays DEF IInv
  <2>2. PICK k \in DOMAIN queue : queue' = RemoveAt(queue, k)
    BY <1>1, <1>2 DEF LeaveQueue
  <2>3. Sem!GiveUp(k)
    BY <2>1, <2>2 DEF Sem!GiveUp, RemoveAt, Sem!RemoveAt
  <2>4. QED
    BY <2>3 DEF SemStep, Sem!Next
<1>3. CASE status[r] = "sending"
  BY <1>1, <1>3, LeaveStep DEF LeaveQueue
<1>4. CASE status[r] = "backoff"
  <2>1. Sending' = Sending
    BY <1>1, <1>4, SendingStays DEF IInv
  <2>2. QED
    BY <1>1, <1>4, <2>1 DEF SemStep, LeaveQueue
<1>5. QED
  BY <1>1, <1>2, <1>3, <1>4 DEF Waiting

LEMMA NextIsSemStep == IInv /\ [Next]_vars => SemStep
<1> SUFFICES ASSUME IInv, [Next]_vars PROVE SemStep
  OBVIOUS
<1>1. CASE StartLoop
  <2>1. Sending = {} /\ Sending' = {}
    BY <1>1 DEF StartLoop, IInv, LoopInv, IdleInv, Waiting, Sending
  <2>2. QED
    BY <1>1, <2>1 DEF StartLoop, SemStep
<1>2. CASE FinishLoop \/ UNCHANGED vars
  BY <1>2 DEF FinishLoop, vars, Sending, SemStep
<1>3. ASSUME NEW r \in Requests PROVE Submit(r) => SemStep
  BY WaitStep DEF Submit
<1>4. ASSUME NEW r \in Requests PROVE Retry(r) => SemStep
  BY WaitStep DEF Retry
<1>5. ASSUME NEW r \in Requests PROVE Acquire(r) => SemStep
  BY EnterStep
<1>6. ASSUME NEW r \in Requests PROVE Respond(r) => SemStep
  BY LeaveStep DEF Respond
<1>7. ASSUME NEW r \in Requests PROVE AttemptFails(r) => SemStep
  <2> DEFINE s == IF attempt[r] + 1 < MaxRetries THEN "backoff" ELSE "fallback"
  <2>1. s # "sending"
    OBVIOUS
  <2>2. AttemptFails(r) => /\ status[r] = "sending" /\ queue' = queue
                           /\ status' = [status EXCEPT ![r] = s]
    BY DEF AttemptFails
  <2> HIDE DEF s
  <2>3. QED
    BY <2>1, <2>2, LeaveStep
<1>8. ASSUME NEW r \in Requests PROVE Cancel(r) => SemStep
  BY CancelStep
<1>9. QED
  BY <1>1, <1>2, <1>3, <1>4, <1>5, <1>6, <1>7, <1>8 DEF Next, Done

(* Whatever requests do, and however often the semaphore is renewed, the   *)
(* client behaves like one bounded first-come-first-served semaphore.      *)
THEOREM ImplementsSemaphore == Spec => ActsAsOneSemaphore
<1>1. Init => Sem!Init
  BY DEF Init, Sem!Init, Sending
<1>2. IInv /\ [Next]_vars => [Sem!Next]_<<queue, Sending>>
  BY NextIsSemStep DEF SemStep
<1>3. QED
  BY <1>1, <1>2, Inductive, PTL DEF Spec, ActsAsOneSemaphore, Sem!Spec

=============================================================================
