---------------------------- MODULE ScriptWorker ----------------------------
(***************************************************************************)
(* Running generated programs: get_code_execution_output in the event loop *)
(* of the execution engine, and _worker_docker in the Ray actor.           *)
(*                                                                         *)
(* The wait for a Ray result polls with a blocking ray.wait of 0.1 s, so   *)
(* one waiting call stops every other coroutine of the engine; a sleep of  *)
(* 0.01 s after it lets the others have their turn.  A tick of time is one *)
(* such poll.  The actor works at its own pace.                            *)
(***************************************************************************)
EXTENDS Naturals, Sequences, FiniteSets

CONSTANTS
  Calls,  \* calls of get_code_execution_output
  Limit   \* total_timeout, in ticks

ASSUME WorkerAssumption == IsFiniteSet(Calls) /\ Limit \in Nat

N == Cardinality(Calls)

VARIABLES
  ready,  \* coroutines the loop runs next, in order
  call,   \* what each call is at
  age,    \* ticks since the call was submitted, until it is over
  cut,    \* calls whose step has timed out in the engine
  run,    \* the actor's side of each call
  proc,   \* its process
  dir,    \* its directory exists
  result  \* what run returns or raises

loop  == <<ready, call, age, cut>>
actor == <<run, proc, dir, result>>
vars  == <<loop, actor>>

None == "none"
MaxAge == Limit + N + 1  \* bound: older calls are not told apart

Init ==
  /\ ready = <<>>
  /\ call = [c \in Calls |-> "new"]
  /\ age = [c \in Calls |-> 0]
  /\ cut = {}
  /\ run = [c \in Calls |-> "new"]
  /\ proc = [c \in Calls |-> None]
  /\ dir = [c \in Calls |-> FALSE]
  /\ result = [c \in Calls |-> None]

-----------------------------------------------------------------------------
(* The event loop. *)

\* An agent's step reaches the call.
Schedule(c) ==
  /\ call[c] = "new"
  /\ call' = [call EXCEPT ![c] = "due"]
  /\ ready' = Append(ready, c)
  /\ UNCHANGED <<age, cut, actor>>

Runs(c) == ready # <<>> /\ c = Head(ready)

Leaves(c, how) ==
  /\ call' = [call EXCEPT ![c] = how]
  /\ ready' = Tail(ready)

\* ray_actor.run.remote; the first poll follows without a pause.
Submit(c) ==
  /\ Runs(c) /\ call[c] = "due"
  /\ call' = [call EXCEPT ![c] = "waiting"]
  /\ run' = [run EXCEPT ![c] = "sent"]
  /\ UNCHANGED <<ready, age, cut, proc, dir, result>>

\* The result is there, or arrives within the poll.
Answer(c) ==
  /\ Runs(c) /\ call[c] = "waiting" /\ c \notin cut
  /\ result[c] # None
  /\ Leaves(c, "answered")
  /\ UNCHANGED <<age, cut, actor>>

Older(d) == IF call[d] = "waiting" /\ age[d] < MaxAge THEN age[d] + 1 ELSE age[d]

\* mutant: no deadline
NeverGivesUp(c) ==
  /\ Runs(c) /\ call[c] = "waiting" /\ c \notin cut
  /\ result[c] = None
  /\ age' = [d \in Calls |-> Older(d)]
  /\ call' = call /\ ready' = Append(Tail(ready), c)
  /\ UNCHANGED <<cut, actor>>

\* mutant: the deadline is looked at before the poll
ChecksFirst(c) ==
  /\ Runs(c) /\ call[c] = "waiting" /\ c \notin cut
  /\ result[c] = None
  /\ age' = [d \in Calls |-> Older(d)]
  /\ \/ age[c] > Limit /\ Leaves(c, "late")
     \/ age[c] <= Limit /\ call' = call /\ ready' = Append(Tail(ready), c)
  /\ UNCHANGED <<cut, actor>>

\* A whole poll without a result, and the look at the time after it.
Poll(c) ==
  /\ Runs(c) /\ call[c] = "waiting" /\ c \notin cut
  /\ result[c] = None
  /\ age' = [d \in Calls |-> Older(d)]
  /\ \/ age'[c] > Limit /\ Leaves(c, "late")
     \/ age'[c] <= Limit /\ call' = call /\ ready' = Append(Tail(ready), c)
  /\ UNCHANGED <<cut, actor>>

\* wait_for gives the step of a sleeping call up; the actor is not told.
StepTimesOut(c) ==
  /\ call[c] = "waiting" /\ age[c] > 0
  /\ cut' = cut \cup {c}
  /\ UNCHANGED <<ready, call, age, actor>>

IsCancelled(c) ==
  /\ Runs(c) /\ c \in cut
  /\ Leaves(c, "cancelled")
  /\ UNCHANGED <<age, cut, actor>>

-----------------------------------------------------------------------------
(* The actor.  Its runs do not wait for each other. *)

\* The directory, the script and the process in a session of its own.
Begin(c) ==
  /\ run[c] = "sent"
  /\ run' = [run EXCEPT ![c] = "running"]
  /\ proc' = [proc EXCEPT ![c] = "alive"]
  /\ dir' = [dir EXCEPT ![c] = TRUE]
  /\ UNCHANGED <<loop, result>>

Ends(c, what, left) ==
  /\ run' = [run EXCEPT ![c] = "over"]
  /\ result' = [result EXCEPT ![c] = what]
  /\ dir' = [dir EXCEPT ![c] = left]
  /\ UNCHANGED loop

\* Writing the script or starting the process raises.
BeginFails(c) == run[c] = "sent" /\ Ends(c, "error", FALSE) /\ UNCHANGED proc

ProcessExits(c) ==
  /\ proc[c] = "alive"
  /\ proc' = [proc EXCEPT ![c] = "dead"]
  /\ UNCHANGED <<loop, run, dir, result>>

\* Its exit is noticed in time; what it printed is the result.
Collect(c) ==
  /\ run[c] = "running" /\ proc[c] = "dead"
  /\ Ends(c, "output", FALSE)
  /\ UNCHANGED proc

\* mutant: the process is not killed
LeavesProcess(c) ==
  /\ run[c] = "running"
  /\ UNCHANGED proc
  /\ \/ proc[c] = "alive" /\ Ends(c, "timeout", FALSE)
     \/ Ends(c, "error", TRUE)

(* The script's own timeout: killpg, killpg again in the finally clause,   *)
(* kill, and two seconds for the process to be gone.  When it is gone      *)
(* before one of the killpg, or not after the two seconds, the exception   *)
(* replaces the result and skips the removal of the directory.             *)
ScriptTimesOut(c) ==
  /\ run[c] = "running"
  /\ proc' = [proc EXCEPT ![c] = "dead"]
  /\ \/ proc[c] = "alive" /\ Ends(c, "timeout", FALSE)
     \/ Ends(c, "error", TRUE)

-----------------------------------------------------------------------------
Loop(c)  == Submit(c) \/ Answer(c) \/ Poll(c) \/ IsCancelled(c)
Actor(c) == Begin(c) \/ BeginFails(c) \/ ProcessExits(c) \/ Collect(c) \/ ScriptTimesOut(c)

Next == \E c \in Calls : Schedule(c) \/ StepTimesOut(c) \/ Loop(c) \/ Actor(c)

\* The loop runs what is ready.  Nothing is asked of the actor.
Fairness == \A c \in Calls : WF_vars(Loop(c))

Spec == Init /\ [][Next]_vars /\ Fairness

-----------------------------------------------------------------------------
\* The type invariant.
TypeOK ==
  /\ ready \in Seq(Calls)
  /\ call \in [Calls -> {"new", "due", "waiting", "answered", "late", "cancelled"}]
  /\ age \in [Calls -> 0..MaxAge]
  /\ cut \subseteq Calls
  /\ run \in [Calls -> {"new", "sent", "running", "over"}]
  /\ proc \in [Calls -> {None, "alive", "dead"}]
  /\ dir \in [Calls -> BOOLEAN]
  /\ result \in [Calls -> {None, "output", "timeout", "error"}]

(* "Maximum time to wait": a call is over at most one poll of every other  *)
(* call, and one of its own, after its timeout, although each of them      *)
(* blocks the loop and the time is only looked at between polls.           *)
ReturnsInTime == \A c \in Calls : age[c] <= Limit + N

(* No program outlives its run, whether its caller has waited for it, has  *)
(* given up or was cancelled; the directory of a run is only left behind   *)
(* by a kill that failed, which the caller hears of as an error.           *)
NothingIsLeft ==
  \A c \in Calls :
    run[c] = "over" => /\ proc[c] # "alive"
                       /\ dir[c] => result[c] = "error"

(* Every call comes back, also when its actor never does. *)
EveryCallReturns ==
  \A c \in Calls : call[c] = "due" ~> call[c] \in {"answered", "late", "cancelled"}

=============================================================================
