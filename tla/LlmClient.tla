----------------------------- MODULE LlmClient -----------------------------
(***************************************************************************)
(* The engine's LLM client (async_generate): requests of concurrent        *)
(* coroutines share one HTTP session and one semaphore, are retried with   *)
(* back-off, and fall back to an end-of-sequence row when they give up.    *)
(*                                                                         *)
(* Session and semaphore belong to the event loop they were created in.    *)
(* Every training step and every validation runs in a loop of its own      *)
(* (asyncio.run), and the globals are renewed when id(loop) changes.  An   *)
(* id is a memory address: it may come back once its loop is collected,    *)
(* which cannot happen while the session still refers to the loop.         *)
(***************************************************************************)
EXTENDS Naturals, FiniteSets, SequencesExt

CONSTANTS
  Requests,       \* prompts submitted in one event loop
  MaxConcurrent,  \* permits of the semaphore (50 in the code)
  MaxRetries,     \* attempts per request (3 in the code)
  Deadline,       \* TRUE in tree mode: wait_for around the generation
  LoopIds,        \* values of id(loop)
  NoId,           \* the id outside any loop (None)
  MaxRounds       \* bound: event loops explored

ASSUME ClientAssumption ==
  /\ IsFiniteSet(Requests)
  /\ MaxConcurrent \in Nat \ {0}
  /\ MaxRetries \in Nat \ {0}
  /\ Deadline \in BOOLEAN
  /\ NoId \notin LoopIds
  /\ MaxRounds \in Nat

Rounds == 0..MaxRounds

(***************************************************************************)
(* A loop-bound object names the loop it was created in: its number (its   *)
(* identity, 0 for None) and its id.  gen tells semaphores apart.          *)
(***************************************************************************)
NoSession   == [loop |-> 0, id |-> NoId]
NoSemaphore == [gen |-> 0, loop |-> 0, permits |-> 0]

VARIABLES
  round,     \* number of the latest event loop
  running,   \* TRUE while asyncio.run executes it
  loopId,    \* id() of that loop
  knownId,   \* _current_loop_id
  session,   \* _shared_session
  sem,       \* _llm_request_semaphore
  sems,      \* semaphores created so far
  status,    \* progress of each request
  attempt,   \* failed attempts of each request
  holds,     \* semaphore of which each sending request holds a permit
  queue      \* FIFO of the waiters of the semaphore

resources == <<knownId, session, sem, sems>>
vars == <<round, running, loopId, resources, status, attempt, holds, queue>>

Waiting == {"queued", "sending", "backoff"}
Final   == {"answered", "fallback", "cancelled"}
Status  == {"new"} \cup Waiting \cup Final

Sending == {r \in Requests : status[r] = "sending"}

Init ==
  /\ round = 0
  /\ running = FALSE
  /\ loopId = NoId
  /\ knownId = NoId
  /\ session = NoSession
  /\ sem = NoSemaphore
  /\ sems = 0
  /\ status = [r \in Requests |-> "answered"]
  /\ attempt = [r \in Requests |-> 0]
  /\ holds = [r \in Requests |-> 0]
  /\ queue = <<>>

(***************************************************************************)
(* Resources after "reset" (reset_event_loop_resources was called) and     *)
(* then get_shared_session and get_llm_semaphore.  None of this suspends:  *)
(* the locks around the lazy creation are never contended.                 *)
(***************************************************************************)
\* mutant: the first loop's globals are kept for ever
KeepsFirstLoop(reset) == reset /\ knownId = NoId

MustReset(reset) == reset /\ knownId # loopId

CreateSession(none) ==
  session' = IF none \/ session.loop = 0 THEN [loop |-> round, id |-> loopId] ELSE session

CreateSemaphore(none) ==
  IF none \/ sem.gen = 0
    THEN /\ sems' = sems + 1
         /\ sem' = [gen |-> sems + 1, loop |-> round, permits |-> MaxConcurrent]
    ELSE UNCHANGED <<sem, sems>>

GetResources(reset) ==
  /\ knownId' = IF reset THEN loopId ELSE knownId
  /\ CreateSession(MustReset(reset))
  /\ CreateSemaphore(MustReset(reset))

(***************************************************************************)
(* asyncio.run: a fresh loop whose address differs from that of a loop     *)
(* some live object still refers to.                                       *)
(***************************************************************************)
StartLoop ==
  /\ ~running
  /\ round < MaxRounds
  /\ round' = round + 1
  /\ running' = TRUE
  /\ \E i \in LoopIds \ {session.id} : loopId' = i
  /\ status' = [r \in Requests |-> "new"]
  /\ attempt' = [r \in Requests |-> 0]
  /\ UNCHANGED <<resources, holds, queue>>

FinishLoop ==
  /\ running
  /\ \A r \in Requests : status[r] \in Final \cup {"new"}
  /\ running' = FALSE
  /\ UNCHANGED <<round, loopId, resources, status, attempt, holds, queue>>

Enqueue(r) ==
  /\ status' = [status EXCEPT ![r] = "queued"]
  /\ queue' = Append(queue, r)

\* llm_async_generate, up to the first wait for the semaphore
Submit(r) ==
  /\ running
  /\ status[r] = "new"
  /\ GetResources(TRUE)
  /\ Enqueue(r)
  /\ UNCHANGED <<round, running, loopId, attempt, holds>>

\* the next attempt, after asyncio.sleep(initial_retry_delay * 2 ** attempt)
Retry(r) ==
  /\ status[r] = "backoff"
  /\ GetResources(FALSE)
  /\ Enqueue(r)
  /\ UNCHANGED <<round, running, loopId, attempt, holds>>

\* mutant: the latest comer is served first
ServesLatest(r) ==
  /\ queue # <<>>
  /\ r = Last(queue)
  /\ sem.permits > 0
  /\ queue' = Front(queue)
  /\ sem' = [sem EXCEPT !.permits = @ - 1]
  /\ holds' = [holds EXCEPT ![r] = sem.gen]
  /\ status' = [status EXCEPT ![r] = "sending"]
  /\ UNCHANGED <<round, running, loopId, knownId, session, sems, attempt>>

Acquire(r) ==
  /\ queue # <<>>
  /\ r = Head(queue)
  /\ sem.permits > 0
  /\ queue' = Tail(queue)
  /\ sem' = [sem EXCEPT !.permits = @ - 1]
  /\ holds' = [holds EXCEPT ![r] = sem.gen]
  /\ status' = [status EXCEPT ![r] = "sending"]
  /\ UNCHANGED <<round, running, loopId, knownId, session, sems, attempt>>

(***************************************************************************)
(* Leaving "async with semaphore", by any way out.  A permit returns to    *)
(* the semaphore it was taken from.                                        *)
(***************************************************************************)
\* mutant: the permit is not given back
LosesPermit(r) ==
  /\ holds' = [holds EXCEPT ![r] = 0]
  /\ UNCHANGED sem

Release(r) ==
  /\ sem' = IF holds[r] = sem.gen THEN [sem EXCEPT !.permits = @ + 1] ELSE sem
  /\ holds' = [holds EXCEPT ![r] = 0]

Respond(r) ==
  /\ status[r] = "sending"
  /\ session.loop = round      \* a request on a dead loop's session only raises
  /\ status' = [status EXCEPT ![r] = "answered"]
  /\ Release(r)
  /\ UNCHANGED <<round, running, loopId, knownId, session, sems, attempt, queue>>

(***************************************************************************)
(* An error status, a client error or the timeout of one attempt.  Client  *)
(* and closed-loop errors call reset_event_loop_resources again, which     *)
(* finds the id unchanged: the globals stay.                               *)
(***************************************************************************)
ResetOnError ==
  /\ knownId' = loopId
  /\ session' = IF knownId # loopId THEN NoSession ELSE session

\* mutant: failed attempts are not counted
NeverGivesUp(r) ==
  /\ status[r] = "sending"
  /\ status' = [status EXCEPT ![r] = "backoff"]
  /\ Release(r)
  /\ ResetOnError
  /\ UNCHANGED <<round, running, loopId, sems, attempt, queue>>

AttemptFails(r) ==
  /\ status[r] = "sending"
  /\ attempt' = [attempt EXCEPT ![r] = @ + 1]
  /\ status' = [status EXCEPT ![r] =
                  IF attempt[r] + 1 < MaxRetries THEN "backoff" ELSE "fallback"]
  /\ Release(r)
  /\ ResetOnError
  /\ UNCHANGED <<round, running, loopId, sems, queue>>

LeaveQueue(r) ==
  IF status[r] = "queued"
    THEN \E k \in DOMAIN queue : queue[k] = r /\ queue' = RemoveAt(queue, k)
    ELSE UNCHANGED queue

\* generate_timeout of the tree engine cancels the coroutine wherever it waits
Cancel(r) ==
  /\ Deadline
  /\ status[r] \in Waiting
  /\ status' = [status EXCEPT ![r] = "cancelled"]
  /\ IF status[r] = "sending" THEN Release(r) ELSE UNCHANGED <<sem, holds>>
  /\ LeaveQueue(r)
  /\ UNCHANGED <<round, running, loopId, knownId, session, sems, attempt>>

Done == ~running /\ round = MaxRounds /\ UNCHANGED vars

Next ==
  \/ StartLoop
  \/ FinishLoop
  \/ \E r \in Requests : \/ Submit(r) \/ Retry(r) \/ Acquire(r)
                         \/ Respond(r) \/ AttemptFails(r) \/ Cancel(r)
  \/ Done

(***************************************************************************)
(* The event loop resumes a ready coroutine; a request in flight ends by   *)
(* an answer, an error or its own ClientTimeout, and a back-off expires.   *)
(***************************************************************************)
Fairness ==
  \A r \in Requests : /\ WF_vars(Submit(r))
                      /\ WF_vars(Retry(r))
                      /\ WF_vars(Acquire(r))
                      /\ WF_vars(Respond(r) \/ AttemptFails(r))

Spec == Init /\ [][Next]_vars /\ Fairness

-----------------------------------------------------------------------------

(* Every variable of the client stays in its range. *)
TypeOK ==
  /\ round \in Rounds
  /\ running \in BOOLEAN
  /\ loopId \in LoopIds \cup {NoId}
  /\ knownId \in LoopIds \cup {NoId}
  /\ session \in [loop : Rounds, id : LoopIds \cup {NoId}]
  /\ sem \in [gen : Nat, loop : Rounds, permits : 0..MaxConcurrent]
  /\ sems \in Nat
  /\ status \in [Requests -> Status]
  /\ attempt \in [Requests -> 0..MaxRetries]
  /\ holds \in [Requests -> Nat]
  /\ queue \in Seq(Requests)

(* However requests fail, are retried or are cancelled, and although the   *)
(* semaphore is created lazily and renewed per loop, no more than          *)
(* MaxConcurrent requests are on the wire.                                 *)
InFlightBound == Cardinality(Sending) <= MaxConcurrent

(* No way out of a request loses a permit or returns one twice: free       *)
(* permits and requests in flight always add up to the semaphore's size.   *)
PermitsConserved == sem.gen > 0 => sem.permits + Cardinality(Sending) = MaxConcurrent

(* A request on the wire uses a session and a semaphore of the loop it     *)
(* runs in, although loops are told apart by an address that may be that   *)
(* of an earlier loop.                                                     *)
LoopBound == Sending # {} => session.loop = round /\ sem.loop = round

(* The end-of-sequence fallback row is produced only after MaxRetries      *)
(* failed attempts, and a request in back-off has an attempt left.         *)
FallbackIsLast ==
  \A r \in Requests : /\ status[r] = "fallback" => attempt[r] = MaxRetries
                      /\ status[r] \in Waiting => attempt[r] < MaxRetries

(* Exactly the requests that wait for a permit are in the semaphore's      *)
(* queue, once each: a cancelled waiter is never handed a permit.          *)
QueueIsWaiters ==
  /\ \A r \in Requests : status[r] = "queued" <=> \E k \in DOMAIN queue : queue[k] = r
  /\ \A j, k \in DOMAIN queue : queue[j] = queue[k] => j = k

(* Semaphores that are created lazily, one per event loop, and requests    *)
(* that fail, come back and are cancelled anywhere, amount to one bounded  *)
(* first-come-first-served semaphore over all of them.                     *)
Sem == INSTANCE Semaphore WITH
         Users <- Requests, Permits <- MaxConcurrent, line <- queue, holding <- Sending

ActsAsOneSemaphore == Sem!Spec

(* Every request that is submitted is answered, given up or cancelled. *)
EventuallySettled == \A r \in Requests : status[r] \in Waiting ~> status[r] \in Final

=============================================================================
