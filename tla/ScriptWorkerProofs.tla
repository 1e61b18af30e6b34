------------------------- MODULE ScriptWorkerProofs -------------------------
(***************************************************************************)
(* Theorems about ScriptWorker, for any number of calls and any timeout,   *)
(* and about AutoEvolTask, whose programs such an actor runs.              *)
(***************************************************************************)
EXTENDS ScriptWorker, AutoEvolTask, FiniteSetTheorems, TLAPS

(***************************************************************************)
(* A call at place i of the queue has i polls before its next look at the  *)
(* time, its own included, and was not over its timeout at the last one.   *)
(***************************************************************************)
QueueInv ==
  /\ \A i, j \in 1..Len(ready) : ready[i] = ready[j] => i = j
  /\ \A c \in Calls : call[c] \in {"due", "waiting"} <=> \E i \in 1..Len(ready) : ready[i] = c
AgeInv ==
  /\ \A i \in 1..Len(ready) : age[ready[i]] + i <= Limit + N
  /\ \A c \in Calls : call[c] \in {"new", "due"} => age[c] = 0
  /\ ReturnsInTime

IInv == TypeOK /\ QueueInv /\ AgeInv

-----------------------------------------------------------------------------
LEMMA Counts == N \in Nat
BY WorkerAssumption, FS_CardinalityType DEF N

(* A queue without repetitions is no longer than the calls are many. *)
LEMMA QueueLength ==
  ASSUME NEW q \in Seq(Calls), \A i, j \in 1..Len(q) : q[i] = q[j] => i = j
  PROVE  Len(q) <= N
<1>1. q \in [1..Len(q) -> Calls] /\ Len(q) \in Nat
  OBVIOUS
<1>2. q \in Injection(1..Len(q), Calls)
  BY <1>1 DEF Injection, IsInjective
<1>3. IsFiniteSet(1..Len(q)) /\ Cardinality(1..Len(q)) = Len(q)
  BY <1>1, FS_Interval, 1 > Len(q) => Len(q) = 0
<1>4. Cardinality(1..Len(q)) <= Cardinality(Calls)
  BY <1>2, FS_Injection, WorkerAssumption
<1>5. QED
  BY <1>3, <1>4 DEF N

LEMMA InitInv == Init => IInv
BY Counts, WorkerAssumption DEF Init, IInv, TypeOK, QueueInv, AgeInv, ReturnsInTime, MaxAge, None

(* What the loop's actions leave of the queue. *)
LEMMA HeadTail ==
  ASSUME NEW q \in Seq(Calls), q # <<>>
  PROVE  /\ Len(Tail(q)) = Len(q) - 1 /\ Len(q) \in Nat \ {0}
         /\ \A i \in 1..Len(q) - 1 : Tail(q)[i] = q[i + 1]
         /\ Head(q) = q[1] /\ Tail(q) \in Seq(Calls)
OBVIOUS

LEMMA Appended ==
  ASSUME NEW q \in Seq(Calls), NEW c \in Calls
  PROVE  /\ Len(Append(q, c)) = Len(q) + 1 /\ Len(q) \in Nat
         /\ \A i \in 1..Len(q) : Append(q, c)[i] = q[i]
         /\ Append(q, c)[Len(q) + 1] = c /\ Append(q, c) \in Seq(Calls)
OBVIOUS

LEMMA ScheduleKeepsInv ==
  ASSUME IInv, NEW c \in Calls, Schedule(c)
  PROVE  IInv'
<1>1. /\ TypeOK /\ QueueInv /\ AgeInv
      /\ call[c] = "new" /\ call' = [call EXCEPT ![c] = "due"] /\ ready' = Append(ready, c)
      /\ UNCHANGED <<age, cut, run, proc, dir, result>>
  BY DEF IInv, Schedule, actor
<1>2. TypeOK'
  BY <1>1, Appended DEF TypeOK
<1>3. \A i \in 1..Len(ready) : ready[i] # c
  BY <1>1 DEF QueueInv
<1>4. QueueInv'
  BY <1>1, <1>3, Appended DEF QueueInv, TypeOK
<1>5. Len(ready') <= N
  BY <1>2, <1>4, QueueLength DEF QueueInv, TypeOK
<1>6. AgeInv'
  BY <1>1, <1>5, Appended, Counts, WorkerAssumption DEF AgeInv, TypeOK, ReturnsInTime
<1>7. QED
  BY <1>2, <1>4, <1>6 DEF IInv

(* The head leaves the queue. *)
LEMMA TailQueue ==
  ASSUME TypeOK, QueueInv, ready # <<>>, NEW c \in Calls, c = Head(ready),
         NEW how \in {"answered", "cancelled", "late"}, Leaves(c, how)
  PROVE  QueueInv'
<1>1. call' = [call EXCEPT ![c] = how] /\ ready' = Tail(ready) /\ ready \in Seq(Calls)
  BY DEF Leaves, TypeOK
<1>2. /\ Len(Tail(ready)) = Len(ready) - 1 /\ Len(ready) \in Nat \ {0}
      /\ \A i \in 1..Len(ready) - 1 : Tail(ready)[i] = ready[i + 1]
      /\ c = ready[1]
  BY <1>1, HeadTail
<1>3. \A i, j \in 1..Len(Tail(ready)) : Tail(ready)[i] = Tail(ready)[j] => i = j
  BY <1>2 DEF QueueInv
<1>4. ASSUME NEW d \in Calls
      PROVE  call'[d] \in {"due", "waiting"} <=> \E i \in 1..Len(Tail(ready)) : Tail(ready)[i] = d
  <2>1. CASE d = c
    <3>1. call'[d] = how
      BY <1>1, <2>1 DEF TypeOK
    <3>2. \A i \in 1..Len(Tail(ready)) : Tail(ready)[i] # c
      BY <1>2 DEF QueueInv
    <3>3. QED
      BY <2>1, <3>1, <3>2
  <2>2. CASE d # c
    <3>1. call'[d] = call[d]
      BY <1>1, <2>2 DEF TypeOK
    <3>2. ASSUME NEW i \in 1..Len(ready), ready[i] = d
          PROVE  i - 1 \in 1..Len(Tail(ready)) /\ Tail(ready)[i - 1] = d
      BY <1>2, <2>2, <3>2
    <3>3. ASSUME NEW i \in 1..Len(Tail(ready)), Tail(ready)[i] = d
          PROVE  i + 1 \in 1..Len(ready) /\ ready[i + 1] = d
      BY <1>2, <3>3
    <3>4. (\E i \in 1..Len(ready) : ready[i] = d) <=> \E i \in 1..Len(Tail(ready)) : Tail(ready)[i] = d
      BY <3>2, <3>3
    <3>5. QED
      BY <3>1, <3>4 DEF QueueInv
  <2>3. QED
    BY <2>1, <2>2
<1>5. QED
  BY <1>1, <1>3, <1>4 DEF QueueInv

LEMMA LeaveKeepsInv ==
  ASSUME IInv, NEW c \in Calls, ready # <<>>, c = Head(ready),
         NEW how \in {"answered", "cancelled"}, Leaves(c, how),
         UNCHANGED <<age, cut, actor>>
  PROVE  IInv'
<1>1. /\ TypeOK /\ QueueInv /\ AgeInv
      /\ call' = [call EXCEPT ![c] = how] /\ ready' = Tail(ready)
      /\ UNCHANGED <<age, cut, run, proc, dir, result>>
  BY DEF IInv, Leaves, actor
<1>2. TypeOK'
  BY <1>1, HeadTail DEF TypeOK
<1>3. QueueInv'
  BY <1>1, TailQueue DEF TypeOK
<1>4. AgeInv'
  BY <1>1, HeadTail, Counts, WorkerAssumption DEF AgeInv, TypeOK, ReturnsInTime, MaxAge
<1>5. QED
  BY <1>2, <1>3, <1>4 DEF IInv

(* The head goes to the end of the queue. *)
Rotation(q, c) ==
  /\ q \in Seq(Calls) /\ Len(q) = Len(ready) /\ Len(ready) \in Nat \ {0}
  /\ \A i \in 1..Len(ready) - 1 : q[i] = ready[i + 1]
  /\ q[Len(ready)] = c /\ c = ready[1]
  /\ \A i, j \in 1..Len(q) : q[i] = q[j] => i = j
  /\ \A d \in Calls : (\E i \in 1..Len(ready) : ready[i] = d) <=> (\E i \in 1..Len(q) : q[i] = d)

LEMMA Rotated ==
  ASSUME TypeOK, QueueInv, ready # <<>>, NEW c \in Calls, c = Head(ready),
         NEW q, q = Append(Tail(ready), c)
  PROVE  Rotation(q, c)
<1>1. /\ q \in Seq(Calls) /\ Len(q) = Len(ready) /\ Len(ready) \in Nat \ {0}
      /\ \A i \in 1..Len(ready) - 1 : q[i] = ready[i + 1]
      /\ q[Len(ready)] = c /\ c = ready[1]
  <2>1. ready \in Seq(Calls)
    BY DEF TypeOK
  <2>2. Len(Tail(ready)) = Len(ready) - 1 /\ Tail(ready) \in Seq(Calls)
        /\ \A i \in 1..Len(ready) - 1 : Tail(ready)[i] = ready[i + 1]
        /\ c = ready[1] /\ Len(ready) \in Nat \ {0}
    BY <2>1, HeadTail
  <2>3. QED
    BY <2>2, Appended
<1>2. PICK n \in Nat \ {0} : n = Len(ready) /\ n = Len(q)
  BY <1>1
<1>3. /\ \A i \in 1..n - 1 : q[i] = ready[i + 1]
      /\ q[n] = c /\ c = ready[1]
  BY <1>1, <1>2
<1>4. \A i, j \in 1..n : ready[i] = ready[j] => i = j
  BY <1>2 DEF QueueInv
<1>5. ASSUME NEW i \in 1..n, NEW j \in 1..n, q[i] = q[j] PROVE i = j
  <2>1. CASE i = n /\ j = n
    BY <2>1
  <2>2. CASE i # n /\ j = n
    <3>1. i \in 1..n - 1 /\ i + 1 \in 1..n /\ 1 \in 1..n /\ i + 1 # 1
      BY <2>2
    <3>2. QED
      BY <1>3, <1>4, <1>5, <2>2, <3>1
  <2>3. CASE i = n /\ j # n
    <3>1. j \in 1..n - 1 /\ j + 1 \in 1..n /\ 1 \in 1..n /\ j + 1 # 1
      BY <2>3
    <3>2. QED
      BY <1>3, <1>4, <1>5, <2>3, <3>1
  <2>4. CASE i # n /\ j # n
    <3>1. /\ i \in 1..n - 1 /\ i + 1 \in 1..n
          /\ j \in 1..n - 1 /\ j + 1 \in 1..n
      BY <2>4
    <3>2. i + 1 = j + 1
      BY <1>3, <1>4, <1>5, <3>1
    <3>3. QED
      BY <3>2
  <2>5. QED
    BY <2>1, <2>2, <2>3, <2>4
<1>6. ASSUME NEW d \in Calls
      PROVE  (\E i \in 1..n : ready[i] = d) <=> (\E i \in 1..n : q[i] = d)
  <2>1. ASSUME NEW i \in 1..n, ready[i] = d PROVE \E j \in 1..n : q[j] = d
    <3>1. CASE i = 1
      BY <1>3, <2>1, <3>1, n \in 1..n
    <3>2. CASE i # 1
      <4>1. i - 1 \in 1..n - 1 /\ i - 1 \in 1..n /\ (i - 1) + 1 = i
        BY <3>2
      <4>2. q[i - 1] = d
        BY <1>3, <2>1, <4>1
      <4>3. QED
        BY <4>1, <4>2
    <3>3. QED
      BY <3>1, <3>2
  <2>2. ASSUME NEW i \in 1..n, q[i] = d PROVE \E j \in 1..n : ready[j] = d
    <3>1. CASE i = n
      BY <1>3, <2>2, <3>1, 1 \in 1..n
    <3>2. CASE i # n
      <4>1. i \in 1..n - 1 /\ i + 1 \in 1..n
        BY <3>2
      <4>2. ready[i + 1] = d
        BY <1>3, <2>2, <4>1
      <4>3. QED
        BY <4>1, <4>2
    <3>3. QED
      BY <3>1, <3>2
  <2>3. QED
    BY <2>1, <2>2
<1>7. QED
  BY <1>1, <1>2, <1>5, <1>6 DEF Rotation

LEMMA PollKeepsInv ==
  ASSUME IInv, NEW c \in Calls, Poll(c)
  PROVE  IInv'
<1>1. /\ TypeOK /\ QueueInv /\ AgeInv /\ ready # <<>> /\ c = Head(ready) /\ call[c] = "waiting"
      /\ age' = [d \in Calls |-> Older(d)] /\ UNCHANGED <<cut, run, proc, dir, result>>
      /\ \/ age'[c] > Limit /\ Leaves(c, "late")
         \/ age'[c] <= Limit /\ call' = call /\ ready' = Append(Tail(ready), c)
  BY DEF IInv, Poll, Runs, actor
<1>2. /\ age' \in [Calls -> 0..MaxAge] /\ N \in Nat /\ Limit \in Nat
      /\ \A d \in Calls : /\ age'[d] <= age[d] + 1
                          /\ call[d] # "waiting" => age'[d] = age[d]
                          /\ age[d] \in Nat /\ age'[d] \in Nat
  BY <1>1, Counts, WorkerAssumption DEF TypeOK, Older, MaxAge
<1>3. ready \in Seq(Calls) /\ Len(ready) \in Nat \ {0} /\ c = ready[1] /\ Len(ready) <= N
  BY <1>1, HeadTail, QueueLength DEF TypeOK, QueueInv
<1>4. \A d \in Calls : age'[d] <= Limit + N
  <2> SUFFICES ASSUME NEW d \in Calls PROVE age'[d] <= Limit + N
    OBVIOUS
  <2>1. CASE call[d] = "waiting"
    <3>1. PICK i \in 1..Len(ready) : ready[i] = d
      BY <1>1, <2>1 DEF QueueInv
    <3>2. age[d] + i <= Limit + N
      BY <1>1, <3>1 DEF AgeInv
    <3>3. age'[d] <= age[d] + 1 /\ age[d] \in Nat /\ age'[d] \in Nat /\ i \in Nat \ {0}
      BY <1>2, <1>3
    <3>4. QED
      BY <1>2, <3>2, <3>3
  <2>2. CASE call[d] # "waiting"
    <3>1. age'[d] = age[d]
      BY <1>2, <2>2
    <3>2. QED
      BY <1>1, <3>1 DEF AgeInv, ReturnsInTime
  <2>3. QED
    BY <2>1, <2>2
<1>5. CASE Leaves(c, "late")
  <2>1. call' = [call EXCEPT ![c] = "late"] /\ ready' = Tail(ready)
    BY <1>5 DEF Leaves
  <2>2. TypeOK'
    BY <1>1, <1>2, <2>1, HeadTail DEF TypeOK, MaxAge
  <2>3. QueueInv'
    BY <1>1, <1>5, TailQueue
  <2>4. \A i \in 1..Len(ready') : age'[ready'[i]] + i <= Limit + N
    <3> SUFFICES ASSUME NEW i \in 1..Len(ready') PROVE age'[ready'[i]] + i <= Limit + N
      OBVIOUS
    <3>1. i + 1 \in 1..Len(ready) /\ ready'[i] = ready[i + 1] /\ ready[i + 1] \in Calls
      BY <1>1, <1>3, <2>1, HeadTail
    <3>2. age[ready[i + 1]] + (i + 1) <= Limit + N
      BY <1>1, <3>1 DEF AgeInv
    <3>3. \A d \in Calls : age[d] + (i + 1) <= Limit + N => age'[d] + i <= Limit + N
      BY <1>2, <1>3, <2>1, HeadTail, <1>1
    <3>4. QED
      BY <3>1, <3>2, <3>3
  <2>5. \A d \in Calls : call'[d] \in {"new", "due"} => age'[d] = 0
    <3>1. \A d \in Calls : call'[d] \in {"new", "due"} => call[d] \in {"new", "due"}
      BY <1>1, <2>1 DEF TypeOK
    <3>2. \A d \in Calls : call[d] \in {"new", "due"} => call[d] # "waiting" /\ age[d] = 0
      BY <1>1 DEF AgeInv
    <3>3. QED
      BY <1>2, <3>1, <3>2
  <2>6. QED
    BY <1>4, <2>2, <2>3, <2>4, <2>5 DEF IInv, AgeInv, ReturnsInTime
<1>6. CASE age'[c] <= Limit /\ call' = call /\ ready' = Append(Tail(ready), c)
  <2>1. /\ ready' \in Seq(Calls) /\ Len(ready') = Len(ready)
        /\ \A i \in 1..Len(ready) - 1 : ready'[i] = ready[i + 1]
        /\ ready'[Len(ready)] = c
        /\ \A i, j \in 1..Len(ready') : ready'[i] = ready'[j] => i = j
        /\ \A d \in Calls : (\E i \in 1..Len(ready) : ready[i] = d)
                              <=> (\E i \in 1..Len(ready') : ready'[i] = d)
    <3> DEFINE q == Append(Tail(ready), c)
    <3>0. TypeOK /\ QueueInv /\ ready # <<>> /\ c = Head(ready) /\ q = Append(Tail(ready), c)
      BY <1>1
    <3> HIDE DEF q
    <3>1. Rotation(q, c)
      BY <3>0, Rotated
    <3>2. ready' = q
      BY <1>6 DEF q
    <3>3. QED
      BY <3>1, <3>2 DEF Rotation
  <2>2. TypeOK'
    BY <1>1, <1>2, <1>6, <2>1 DEF TypeOK, MaxAge
  <2>3. QueueInv'
    BY <1>1, <1>6, <2>1 DEF QueueInv
  <2>4. \A i \in 1..Len(ready') : age'[ready'[i]] + i <= Limit + N
    <3> SUFFICES ASSUME NEW i \in 1..Len(ready') PROVE age'[ready'[i]] + i <= Limit + N
      OBVIOUS
    <3>1. CASE i = Len(ready)
      <4>1. ready'[i] = c /\ i <= N /\ age'[c] \in Nat /\ i \in Nat
        BY <1>2, <1>3, <2>1, <3>1
      <4>2. QED
        BY <1>2, <1>6, <4>1
    <3>2. CASE i # Len(ready)
      <4>1. i + 1 \in 1..Len(ready) /\ ready'[i] = ready[i + 1] /\ ready[i + 1] \in Calls
        BY <1>3, <2>1, <3>2
      <4>2. age[ready[i + 1]] + (i + 1) <= Limit + N
        BY <1>1, <4>1 DEF AgeInv
      <4>3. \A d \in Calls : age[d] + (i + 1) <= Limit + N => age'[d] + i <= Limit + N
        BY <1>2, <1>3, <2>1
      <4>4. QED
        BY <4>1, <4>2, <4>3
    <3>3. QED
      BY <3>1, <3>2
  <2>5. \A d \in Calls : call'[d] \in {"new", "due"} => age'[d] = 0
    <3>1. \A d \in Calls : call[d] \in {"new", "due"} => call[d] # "waiting" /\ age[d] = 0
      BY <1>1 DEF AgeInv
    <3>2. QED
      BY <1>2, <1>6, <3>1
  <2>6. QED
    BY <1>4, <2>2, <2>3, <2>4, <2>5 DEF IInv, AgeInv, ReturnsInTime
<1>7. QED
  BY <1>1, <1>5, <1>6

(* A step that leaves queue, ages and the loop's side of the calls alone.  *)
LEMMA SameLoop ==
  ASSUME IInv, TypeOK', UNCHANGED <<ready, call, age>>
  PROVE  IInv'
BY DEF IInv, QueueInv, AgeInv, ReturnsInTime

LEMMA ActorKeepsInv ==
  ASSUME IInv, NEW c \in Calls, Actor(c)
  PROVE  IInv'
<1>1. TypeOK /\ UNCHANGED <<ready, call, age, cut>>
  BY DEF IInv, Actor, Begin, BeginFails, ProcessExits, Collect, ScriptTimesOut, Ends, loop
<1>2. TypeOK'
  <2>1. CASE Begin(c)
    BY <1>1, <2>1 DEF TypeOK, Begin, MaxAge
  <2>2. CASE BeginFails(c)
    BY <1>1, <2>2 DEF TypeOK, BeginFails, Ends, MaxAge
  <2>3. CASE ProcessExits(c)
    BY <1>1, <2>3 DEF TypeOK, ProcessExits, MaxAge
  <2>4. CASE Collect(c)
    BY <1>1, <2>4 DEF TypeOK, Collect, Ends, MaxAge
  <2>5. CASE ScriptTimesOut(c)
    BY <1>1, <2>5 DEF TypeOK, ScriptTimesOut, Ends, MaxAge
  <2>6. QED
    BY <2>1, <2>2, <2>3, <2>4, <2>5 DEF Actor
<1>3. QED
  BY <1>1, <1>2, SameLoop

LEMMA SubmitKeepsInv ==
  ASSUME IInv, NEW c \in Calls, Submit(c)
  PROVE  IInv'
<1>1. /\ TypeOK /\ QueueInv /\ AgeInv /\ call[c] = "due"
      /\ call' = [call EXCEPT ![c] = "waiting"] /\ run' = [run EXCEPT ![c] = "sent"]
      /\ UNCHANGED <<ready, age, cut, proc, dir, result>>
  BY DEF IInv, Submit
<1>2. TypeOK'
  BY <1>1 DEF TypeOK, MaxAge
<1>3. QueueInv' /\ AgeInv'
  BY <1>1 DEF TypeOK, QueueInv, AgeInv, ReturnsInTime
<1>4. QED
  BY <1>2, <1>3 DEF IInv

LEMMA NextInv == IInv /\ [Next]_vars => IInv'
<1> SUFFICES ASSUME IInv, [Next]_vars PROVE IInv'
  OBVIOUS
<1>1. ASSUME NEW c \in Calls, StepTimesOut(c) PROVE IInv'
  <2>1. TypeOK'
    BY <1>1 DEF IInv, TypeOK, StepTimesOut, actor, MaxAge
  <2>2. QED
    BY <1>1, <2>1, SameLoop DEF StepTimesOut
<1>2. ASSUME NEW c \in Calls, Loop(c) PROVE IInv'
  <2>1. CASE Answer(c)
    BY <2>1, LeaveKeepsInv DEF Answer, Runs
  <2>2. CASE IsCancelled(c)
    BY <2>2, LeaveKeepsInv DEF IsCancelled, Runs
  <2>3. QED
    BY <1>2, <2>1, <2>2, SubmitKeepsInv, PollKeepsInv DEF Loop
<1>3. CASE UNCHANGED vars
  <2>1. TypeOK'
    BY <1>3 DEF IInv, TypeOK, vars, loop, actor, MaxAge
  <2>2. QED
    BY <1>3, <2>1, SameLoop DEF vars, loop
<1>4. QED
  BY <1>1, <1>2, <1>3, ScheduleKeepsInv, ActorKeepsInv DEF Next

THEOREM TypeCorrect == Spec => []TypeOK
<1>1. IInv => TypeOK
  BY DEF IInv
<1>2. QED
  BY <1>1, InitInv, NextInv, PTL DEF Spec

(* However many calls wait in one event loop, none of them is over its     *)
(* timeout by more than one poll of each.                                  *)
THEOREM Overshoot == Spec => []ReturnsInTime
<1>1. IInv => ReturnsInTime
  BY DEF IInv, AgeInv
<1>2. QED
  BY <1>1, InitInv, NextInv, PTL DEF Spec

-----------------------------------------------------------------------------
(* A process is only alive while its run is running. *)
ActorInv ==
  /\ \A c \in Calls : proc[c] = "alive" => run[c] = "running"
  /\ \A c \in Calls : run[c] \in {"new", "sent"} => ~dir[c]
  /\ \A c \in Calls : call[c] \in {"new", "due"} => run[c] = "new"
  /\ NothingIsLeft

LEMMA ActorStep == TypeOK /\ ActorInv /\ [Next]_vars => ActorInv'
<1> SUFFICES ASSUME TypeOK, ActorInv, [Next]_vars PROVE ActorInv'
  OBVIOUS
<1>1. ASSUME NEW c \in Calls, Actor(c) PROVE ActorInv'
  <2>1. CASE Begin(c)
    BY <2>1 DEF TypeOK, ActorInv, NothingIsLeft, Begin, loop
  <2>2. CASE BeginFails(c)
    BY <2>2 DEF TypeOK, ActorInv, NothingIsLeft, BeginFails, Ends, loop
  <2>3. CASE ProcessExits(c)
    BY <2>3 DEF TypeOK, ActorInv, NothingIsLeft, ProcessExits, loop
  <2>4. CASE Collect(c)
    BY <2>4 DEF TypeOK, ActorInv, NothingIsLeft, Collect, Ends, loop
  <2>5. CASE ScriptTimesOut(c)
    <3>1. /\ run[c] = "running" /\ run' = [run EXCEPT ![c] = "over"]
          /\ proc' = [proc EXCEPT ![c] = "dead"] /\ UNCHANGED call
      BY <2>5 DEF ScriptTimesOut, Ends, loop
    <3>2. PICK what \in {"timeout", "error"}, left \in BOOLEAN :
            /\ result' = [result EXCEPT ![c] = what] /\ dir' = [dir EXCEPT ![c] = left]
            /\ left => what = "error"
      BY <2>5 DEF ScriptTimesOut, Ends
    <3>3. QED
      BY <3>1, <3>2 DEF TypeOK, ActorInv, NothingIsLeft
  <2>6. QED
    BY <1>1, <2>1, <2>2, <2>3, <2>4, <2>5 DEF Actor
<1>2. ASSUME NEW c \in Calls, Submit(c) PROVE ActorInv'
  <2>1. /\ call[c] = "due" /\ call' = [call EXCEPT ![c] = "waiting"]
        /\ run[c] = "new" /\ run' = [run EXCEPT ![c] = "sent"]
        /\ UNCHANGED <<proc, dir, result>>
    BY <1>2 DEF Submit, ActorInv
  <2>2. QED
    BY <2>1 DEF TypeOK, ActorInv, NothingIsLeft
<1>3. ASSUME NEW c \in Calls, Schedule(c) \/ StepTimesOut(c) \/ Answer(c) \/ Poll(c) \/ IsCancelled(c)
      PROVE  ActorInv'
  <2>1. UNCHANGED actor
    BY <1>3 DEF Schedule, StepTimesOut, Answer, Poll, IsCancelled
  <2>2. \A d \in Calls : call'[d] \in {"new", "due"} => call[d] \in {"new", "due"}
    BY <1>3 DEF TypeOK, Schedule, StepTimesOut, Answer, Poll, IsCancelled, Leaves
  <2>3. QED
    BY <2>1, <2>2 DEF ActorInv, NothingIsLeft, actor
<1>4. CASE UNCHANGED vars
  BY <1>4 DEF ActorInv, NothingIsLeft, vars, loop, actor
<1>5. QED
  BY <1>1, <1>2, <1>3, <1>4 DEF Next, Loop

(* Programs and directories, for any number of runs at once. *)
THEOREM NoLeftovers == Spec => []NothingIsLeft
<1>1. Init => ActorInv
  BY DEF Init, ActorInv, NothingIsLeft, None
<1>2. ActorInv => NothingIsLeft
  BY DEF ActorInv
<1>3. QED
  BY <1>1, <1>2, TypeCorrect, ActorStep, PTL DEF Spec

-----------------------------------------------------------------------------
(***************************************************************************)
(* The tasks of AutoEvolTask hand their programs to this actor: one call   *)
(* and one run of it for every batch.  Their invariants are proved for any *)
(* number of batches.                                                      *)
(*                                                                         *)
(* Batches before the current one are over, those after it untouched.      *)
(* While no step before the current one has been given up, the programs    *)
(* of those steps are over or were never sent: the file is the current     *)
(* program's alone, from the moment it opens it.                           *)
(***************************************************************************)
PhaseInv ==
  \A k \in Batches :
    /\ k > batch => task[k] = "new"
    /\ k < batch => Over(k)
    /\ task[k] \in {"new", "designed"} => prog[k] = "new"
    /\ task[k] = "heard" => reported[k] # NoReport
    /\ rows[k] # {} => task[k] = "heard"
    /\ Saving(k) \/ k \in saved => k \in answered
    /\ k \in saved => prog[k] \in {"through", "over"}

FileInv ==
  ~GaveUpBefore(batch) =>
    /\ Saving(batch) => file \subseteq {batch}
    /\ batch \in saved => file = {batch}

TaskInv == TaskTypeOK /\ PhaseInv /\ FileInv /\ RowsAreOwn /\ StrangersNeedSilence

LEMMA TaskInitInv == TaskInit => TaskInv
BY BatchesAssumption DEF TaskInv, TaskInit, TaskTypeOK, NoReport, PhaseInv, FileInv,
       Batches, Over, Saving, RowsAreOwn, StrangersNeedSilence

LEMMA BatchNumbers ==
  ASSUME TaskInv
  PROVE  /\ batch \in Nat \ {0} /\ Batches = 1..NumBatches
         /\ \A k \in Batches : k \in Nat \ {0}
         /\ batch < NumBatches => batch + 1 \in Batches
         /\ file \subseteq 1..batch /\ 1..batch \subseteq 1..(batch + 1)
         /\ 1..batch \subseteq Batches
<1>1. batch \in Batches /\ file \subseteq 1..batch
  BY DEF TaskInv, TaskTypeOK
<1>2. QED
  BY <1>1, BatchesAssumption DEF Batches

(* With no step given up before, only the current program may still run. *)
LEMMA OthersAreStill ==
  ASSUME TaskInv, ~GaveUpBefore(batch), NEW k \in Batches, k # batch
  PROVE  prog[k] \in {"new", "over"}
<1>1. batch \in Nat /\ k \in Nat \ {0}
  BY BatchNumbers DEF Batches
<1>2. CASE k > batch
  BY <1>2 DEF TaskInv, PhaseInv
<1>3. CASE k < batch
  <2>1. k \in 1..(batch - 1)
    BY <1>1, <1>3
  <2>2. task[k] # "gave up"
    BY <2>1 DEF GaveUpBefore
  <2>3. task[k] = "heard"
    BY <1>3, <2>2 DEF TaskInv, PhaseInv, Over
  <2>4. task[k] = "heard" => prog[k] = "over"
    BY DEF TaskInv, PhaseInv, TaskTypeOK, NoReport, Batches
  <2>5. QED
    BY <2>3, <2>4 DEF TaskInv, PhaseInv
<1>4. QED
  BY <1>1, <1>2, <1>3

LEMMA TaskTypeStep ==
  ASSUME TaskInv, [TaskNext]_taskVars
  PROVE  TaskTypeOK'
<1> USE DEF Batches
<1>0. taskVars' = taskVars \/ TaskNext
  OBVIOUS
<1>1. CASE Engine
  <2> USE DEF TaskInv, TaskTypeOK, PhaseInv
  <2>1. CASE Generate
    BY <2>1 DEF Generate, program
  <2>2. CASE Send
    BY <2>2 DEF Send, NoReport
  <2>3. CASE Hear
    <3>1. Loads \subseteq SUBSET file
      BY DEF Loads
    <3>2. \A lines \in Loads : lines \subseteq 1..batch
      BY <3>1
    <3>3. PICK lines \in Loads :
            rows' = [rows EXCEPT ![batch] =
                       IF reported[batch] = "ok" /\ batch \in answered THEN lines ELSE {}]
      BY <2>3 DEF Hear
    <3>4. rows' \in [Batches -> SUBSET Batches]
          /\ \A k \in Batches : rows'[k] \subseteq 1..k
      <4>1. lines \subseteq Batches
        <5>1. 1..batch \subseteq Batches
          BY BatchNumbers
        <5>2. QED
          BY <3>2, <5>1
      <4>2. QED
        BY <3>2, <3>3, <4>1
    <3>5. /\ task' = [task EXCEPT ![batch] = "heard"]
          /\ UNCHANGED <<batch, answered, prog, reported, saved, file>>
      BY <2>3 DEF Hear, program
    <3>6. QED
      BY <3>4, <3>5
  <2>4. CASE GiveUp
    BY <2>4 DEF GiveUp, program
  <2>5. CASE NextBatch
    <3>1. /\ batch' = batch + 1 /\ batch' \in Batches
          /\ UNCHANGED <<task, answered, prog, reported, saved, file, rows>>
      BY <2>5, BatchNumbers DEF NextBatch, program
    <3>2. file \subseteq 1..batch /\ 1..batch \subseteq 1..(batch + 1)
      BY BatchNumbers
    <3>3. QED
      BY <3>1, <3>2
  <2>6. QED
    BY <1>1, <2>1, <2>2, <2>3, <2>4, <2>5 DEF Engine
<1>2. ASSUME NEW k \in Batches, Program(k) PROVE TaskTypeOK'
  <2>1. k <= batch \/ prog[k] = "new"
    BY BatchNumbers DEF TaskInv, PhaseInv
  <2>2. prog[k] # "new" => k \in 1..batch
    BY <2>1, BatchNumbers
  <2> USE DEF TaskInv, TaskTypeOK, engine
  <2>3. CASE Start(k)
    BY <2>3 DEF Start
  <2>4. CASE Open(k)
    BY <2>4 DEF Open
  <2>5. CASE Flush(k)
    BY <2>5, <2>2 DEF Flush, Saving
  <2>6. CASE Save(k)
    BY <2>6, <2>2 DEF Save, Saving
  <2>7. CASE SaveFails(k)
    BY <2>7 DEF SaveFails, Saving
  <2>8. ASSUME NEW what \in {"ok", "error", "timeout"}, EndsAs(k, what) PROVE TaskTypeOK'
    BY <2>8 DEF EndsAs, NoReport
  <2>9. QED
    BY <1>2, <2>3, <2>4, <2>5, <2>6, <2>7, <2>8 DEF Program, Exit, Fail
<1>3. CASE UNCHANGED taskVars
  BY <1>3 DEF taskVars, program, engine, TaskInv, TaskTypeOK
<1>4. QED
  BY <1>0, <1>1, <1>2, <1>3 DEF TaskNext

(* Programs are sent once, by the task of the current batch. *)
LEMMA PhaseStep ==
  ASSUME TaskInv, [TaskNext]_taskVars
  PROVE  PhaseInv'
<1> USE DEF Batches, Over, Saving
<1>0. taskVars' = taskVars \/ TaskNext
  OBVIOUS
<1>1. CASE Engine
  <2>0. batch \in Batches /\ batch \in Nat /\ \A k \in Batches : k \in Nat
    BY BatchNumbers DEF TaskInv, TaskTypeOK
  <2>00. \A k \in Batches : /\ k > batch + 1 => k > batch
                            /\ k < batch + 1 => k < batch \/ k = batch
    BY <2>0
  <2> USE DEF TaskInv, TaskTypeOK, PhaseInv, NoReport, program
  <2>1. CASE Generate
    BY <2>0, <2>1 DEF Generate
  <2>2. CASE Send
    BY <2>0, <2>2 DEF Send
  <2>3. CASE Hear
    BY <2>0, <2>3 DEF Hear
  <2>4. CASE GiveUp
    <3>1. /\ task[batch] \in {"designed", "waiting"} /\ task' = [task EXCEPT ![batch] = "gave up"]
          /\ UNCHANGED <<batch, answered, rows, prog, reported, saved, file>>
      BY <2>4 DEF GiveUp
    <3>2. rows[batch] = {}
      BY <2>0, <3>1
    <3>3. QED
      BY <2>0, <3>1, <3>2
  <2>5. CASE NextBatch
    <3>1. /\ batch' = batch + 1 /\ Over(batch)
          /\ UNCHANGED <<task, answered, rows, prog, reported, saved, file>>
      BY <2>5 DEF NextBatch
    <3>2. QED
      BY <2>00, <3>1
  <2>6. QED
    BY <1>1, <2>1, <2>2, <2>3, <2>4, <2>5 DEF Engine
<1>2. ASSUME NEW k \in Batches, Program(k) PROVE PhaseInv'
  <2> USE DEF TaskInv, TaskTypeOK, PhaseInv, engine, NoReport
  <2>3. CASE Start(k)
    BY <2>3 DEF Start
  <2>4. CASE Open(k)
    BY <2>4 DEF Open
  <2>5. CASE Flush(k)
    BY <2>5 DEF Flush
  <2>6. CASE Save(k)
    <3>1. /\ prog[k] \in {"saving", "clipped"} /\ saved \subseteq saved' /\ saved' \subseteq saved \cup {k}
          /\ prog' = [prog EXCEPT ![k] = "through"]
          /\ UNCHANGED <<batch, task, answered, reported, rows>>
      BY <2>6 DEF Save
    <3>2. QED
      BY <3>1
  <2>7. CASE SaveFails(k)
    BY <2>7 DEF SaveFails
  <2>8. ASSUME NEW what \in {"ok", "error", "timeout"}, prog[k] # "new", EndsAs(k, what)
        PROVE  PhaseInv'
    BY <2>8 DEF EndsAs
  <2>9. QED
    BY <1>2, <2>3, <2>4, <2>5, <2>6, <2>7, <2>8
       DEF Program, Exit, Fail, Running
<1>3. CASE UNCHANGED taskVars
  BY <1>3 DEF taskVars, program, engine, TaskInv, PhaseInv
<1>4. QED
  BY <1>0, <1>1, <1>2, <1>3 DEF TaskNext

(* Only the current task moves on. *)
LEMMA TasksBefore ==
  ASSUME TaskInv, [TaskNext]_taskVars
  PROVE  \A k \in Batches : k <= batch => (GaveUpBefore(k)' <=> GaveUpBefore(k))
<1>1. \A i \in Batches : i # batch => task'[i] = task[i]
  BY DEF TaskNext, Engine, Generate, Send, Hear,
     GiveUp, NextBatch, Program, Start, Open, Flush, Save,
     SaveFails, Exit, Fail, EndsAs, engine, taskVars, program, TaskInv, TaskTypeOK
<1>2. ASSUME NEW k \in Batches, k <= batch
      PROVE  \A i \in 1..(k - 1) : i \in Batches /\ i # batch
  BY <1>2, BatchNumbers
<1>3. QED
  BY <1>1, <1>2 DEF GaveUpBefore

LEMMA FileStep ==
  ASSUME TaskInv, [TaskNext]_taskVars
  PROVE  FileInv'
<1> USE DEF Batches, Saving
<1>0. taskVars' = taskVars \/ TaskNext
  OBVIOUS
<1>1. batch \in Batches /\ batch \in Nat
  BY BatchNumbers DEF TaskInv, TaskTypeOK
<1>2. batch' = batch => (GaveUpBefore(batch)' <=> GaveUpBefore(batch))
  <2>1. PICK b \in Batches : b = batch
    BY <1>1
  <2>2. GaveUpBefore(b)' <=> GaveUpBefore(b)
    BY <1>1, <2>1, TasksBefore
  <2>3. QED
    BY <2>1, <2>2 DEF GaveUpBefore
<1>3. CASE Engine
  <2>1. CASE NextBatch
    <3>1. /\ batch' = batch + 1 /\ batch' \in Batches
          /\ UNCHANGED <<prog, saved>>
      BY <2>1, BatchNumbers DEF NextBatch, program
    <3>2. prog[batch + 1] = "new" /\ batch + 1 \notin saved
      BY <1>1, <3>1 DEF TaskInv, PhaseInv
    <3>3. QED
      BY <3>1, <3>2 DEF FileInv
  <2>2. CASE Send
    <3>1. /\ UNCHANGED <<batch, saved, file>>
          /\ prog'[batch] = "sent" /\ prog[batch] = "new"
      BY <1>1, <2>2 DEF Send, TaskInv, TaskTypeOK, PhaseInv
    <3>2. QED
      BY <1>1, <1>2, <3>1 DEF FileInv, TaskInv, PhaseInv
  <2>3. CASE Generate \/ Hear \/ GiveUp
    <3>1. UNCHANGED <<batch, prog, saved, file>>
      BY <2>3 DEF Generate, Hear, GiveUp, program
    <3>2. QED
      BY <1>2, <3>1 DEF FileInv, TaskInv
  <2>4. QED
    BY <1>3, <2>1, <2>2, <2>3 DEF Engine
<1>4. ASSUME NEW k \in Batches, Program(k) PROVE FileInv'
  <2>1. UNCHANGED batch
    BY <1>4 DEF Program, Start, Open, Flush, Save, SaveFails,
       Exit, Fail, EndsAs, engine
  <2> SUFFICES ASSUME ~GaveUpBefore(batch) 
               PROVE  (Saving(batch) => file \subseteq {batch})' /\ (batch \in saved => file = {batch})'
    BY <1>2, <2>1 DEF FileInv
  <2>2. k = batch
    <3>1. prog[k] \notin {"new", "over"}
      BY <1>4 DEF Program, Start, Open, Flush, Save, SaveFails,
         Exit, Fail, Running
    <3>2. QED
      BY <3>1, OthersAreStill
  <2>3. /\ prog[batch] \in {"saving", "clipped"} => file \subseteq {batch}
        /\ batch \in saved => file = {batch} /\ prog[batch] \in {"through", "over"}
        /\ prog \in [Batches -> {"new", "sent", "running", "saving", "clipped", "through", "over"}]
    BY <1>1 DEF TaskInv, FileInv, PhaseInv, TaskTypeOK
  <2> HIDE DEF TaskInv
  <2>4. CASE Start(k)
    BY <1>1, <2>1, <2>2, <2>3, <2>4 DEF Start
  <2>5. CASE Open(k)
    BY <1>1, <2>1, <2>2, <2>3, <2>5 DEF Open
  <2>6. CASE Flush(k)
    BY <1>1, <2>1, <2>2, <2>3, <2>6 DEF Flush
  <2>7. CASE Save(k)
    <3>1. file' = {batch}
      BY <1>1, <2>1, <2>2, <2>3, <2>7 DEF Save
    <3>2. QED
      BY <3>1, <2>1
  <2>8. CASE SaveFails(k)
    BY <1>1, <2>1, <2>2, <2>3, <2>8 DEF SaveFails
  <2>9. ASSUME NEW what, EndsAs(k, what), prog[k] # "new"
        PROVE  (Saving(batch) => file \subseteq {batch})' /\ (batch \in saved => file = {batch})'
    BY <1>1, <2>1, <2>2, <2>3, <2>9 DEF EndsAs
  <2>10. QED
    BY <1>4, <2>4, <2>5, <2>6, <2>7, <2>8, <2>9 DEF Program, Exit, Fail, Running
<1>5. CASE UNCHANGED taskVars
  <2>1. UNCHANGED <<batch, prog, saved, file>>
    BY <1>5 DEF taskVars, program, engine
  <2>2. QED
    BY <1>2, <2>1 DEF FileInv, TaskInv
<1>6. QED
  BY <1>0, <1>3, <1>4, <1>5 DEF TaskNext

(***************************************************************************)
(* What a batch has heard stays, with all that the properties compare it   *)
(* to: its task moves no more, and a program that has ended does nothing.  *)
(***************************************************************************)
LEMMA HeardStays ==
  ASSUME TaskInv, [TaskNext]_taskVars,
         NEW k \in Batches, task[k] = "heard"
  PROVE  /\ task'[k] = "heard" /\ rows'[k] = rows[k] /\ reported'[k] = reported[k]
         /\ k \in saved' <=> k \in saved
         /\ GaveUpBefore(k)' <=> GaveUpBefore(k)
<1> USE DEF Batches
<1>0. taskVars' = taskVars \/ TaskNext
  OBVIOUS
<1>1. prog[k] = "over" /\ k <= batch
  <2>1. prog[k] = "over"
    BY DEF TaskInv, PhaseInv, TaskTypeOK, NoReport
  <2>2. k <= batch
    BY BatchNumbers DEF TaskInv, PhaseInv
  <2>3. QED
    BY <2>1, <2>2
<1>2. GaveUpBefore(k)' <=> GaveUpBefore(k)
  BY <1>1, TasksBefore
<1>3. CASE Engine
  BY <1>2, <1>3 DEF Engine, Generate, Send, Hear,
     GiveUp, NextBatch, program, TaskInv, TaskTypeOK
<1>4. ASSUME NEW i \in Batches, Program(i)
      PROVE  task' = task /\ rows' = rows /\ reported'[k] = reported[k] /\ (k \in saved' <=> k \in saved)
  <2>1. i # k
    BY <1>1, <1>4 DEF Program, Start, Open, Flush, Save, SaveFails,
       Exit, Fail, Running, Saving
  <2>2. QED
    BY <1>4, <2>1 DEF Program, Start, Open, Flush, Save, SaveFails,
       Exit, Fail, EndsAs, engine, TaskInv, TaskTypeOK
<1>5. CASE UNCHANGED taskVars
  BY <1>2, <1>5 DEF taskVars, program, engine
<1>6. QED
  BY <1>0, <1>2, <1>3, <1>4, <1>5 DEF TaskNext

(* What a batch hears is its own, or its program has saved nothing. *)
LEMMA WhatIsHeard ==
  ASSUME TaskInv, Hear, NEW k \in Batches, k = batch
  PROVE  /\ reported[k] = "ok" /\ k \in saved /\ ~GaveUpBefore(k) => rows'[k] = {k}
         /\ rows'[k] # {} => reported[k] = "ok"
         /\ UNCHANGED <<reported, saved>> /\ (GaveUpBefore(k)' <=> GaveUpBefore(k))
         /\ \A i \in Batches : i # k => task'[i] = task[i]
<1>1. PICK lines \in Loads :
        rows' = [rows EXCEPT ![batch] =
                   IF reported[batch] = "ok" /\ batch \in answered THEN lines ELSE {}]
  BY DEF Hear
<1>2. rows'[k] = IF reported[k] = "ok" /\ k \in answered THEN lines ELSE {}
  BY <1>1 DEF TaskInv, TaskTypeOK
<1>3. /\ UNCHANGED <<reported, saved>>
      /\ \A i \in Batches : i # k => task'[i] = task[i]
  BY DEF Hear, program, TaskInv, TaskTypeOK
<1>4. GaveUpBefore(k)' <=> GaveUpBefore(k)
  <2>1. TaskNext
    BY DEF TaskNext, Engine
  <2>2. k <= batch
    BY BatchNumbers
  <2>3. QED
    BY <2>1, <2>2, TasksBefore
<1>5. ASSUME k \in saved, ~GaveUpBefore(k) PROVE lines = {k}
  <2>1. file = {k}
    BY <1>5 DEF TaskInv, FileInv
  <2>2. Loads = {file}
    BY <1>5, <2>1 DEF Loads
  <2>3. QED
    BY <1>1, <2>1, <2>2
<1>6. k \in saved => k \in answered
  BY DEF TaskInv, PhaseInv, Batches
<1>7. QED
  BY <1>2, <1>3, <1>4, <1>5, <1>6

(* The rows of a batch, as the properties tell of them. *)
RowsOf(k) ==
  /\ task[k] = "heard" /\ reported[k] = "ok" /\ k \in saved /\ ~GaveUpBefore(k) => rows[k] = {k}
  /\ \A j \in rows[k] \ {k} : reported[k] = "ok" /\ (k \notin saved \/ GaveUpBefore(k))

LEMMA RowsOfBatches ==
  (\A k \in Batches : RowsOf(k)) <=> RowsAreOwn /\ StrangersNeedSilence
BY DEF RowsOf, RowsAreOwn, StrangersNeedSilence, GaveUpBefore

LEMMA RowsStep ==
  ASSUME TaskInv, [TaskNext]_taskVars
  PROVE  RowsAreOwn' /\ StrangersNeedSilence'
<1>1. SUFFICES ASSUME NEW k \in Batches PROVE RowsOf(k)'
  BY DEF RowsOf, RowsAreOwn, StrangersNeedSilence, GaveUpBefore
<1>2. RowsOf(k)
  BY RowsOfBatches DEF TaskInv
<1>3. CASE task[k] = "heard"
  BY <1>2, <1>3, HeardStays DEF RowsOf
<1>4. CASE Hear /\ k = batch
  BY <1>4, WhatIsHeard DEF RowsOf
<1>5. CASE task[k] # "heard" /\ ~(Hear /\ k = batch)
  <2>1. PhaseInv'
    BY PhaseStep
  <2>2. task'[k] # "heard"
    BY <1>5 DEF TaskNext, Engine, Generate, Send, Hear,
     GiveUp, NextBatch, Program, Start, Open, Flush, Save,
     SaveFails, Exit, Fail, EndsAs, engine, taskVars, program, TaskInv, TaskTypeOK
  <2>3. rows'[k] = {}
    BY <2>1, <2>2 DEF PhaseInv, Batches
  <2>4. QED
    BY <2>2, <2>3 DEF RowsOf
<1>6. QED
  BY <1>3, <1>4, <1>5

(* Inductive: the three properties of AutoEvolTask with the two invariants above. *)
LEMMA TaskInvariant == TaskSpec => []TaskInv
<1>1. TaskInit => TaskInv
  BY TaskInitInv
<1>2. TaskInv /\ [TaskNext]_taskVars => TaskInv'
  <2> SUFFICES ASSUME TaskInv, [TaskNext]_taskVars PROVE TaskInv'
    BY DEF taskVars, engine, program
  <2>1. TaskTypeOK' /\ PhaseInv' /\ FileInv' /\ RowsAreOwn' /\ StrangersNeedSilence'
    BY TaskTypeStep, PhaseStep, FileStep, RowsStep
  <2>2. QED
    BY <2>1 DEF TaskInv
<1>3. QED
  BY <1>1, <1>2, PTL DEF TaskSpec

(* A program has a result exactly when it is over, whichever batches still run. *)
THEOREM TasksTypeCorrect == TaskSpec => []TaskTypeOK
<1>1. TaskInv => TaskTypeOK
  BY DEF TaskInv
<1>2. QED
  BY <1>1, TaskInvariant, PTL

(* A rollout whose program saved and ended well trains on that program's conversations. *)
THEOREM RowsAreAlwaysOwn == TaskSpec => []RowsAreOwn
<1>1. TaskInv => RowsAreOwn
  BY DEF TaskInv
<1>2. QED
  BY <1>1, TaskInvariant, PTL

(* Conversations of another program come in only where the own one saved none or a step was given up. *)
THEOREM StrangersAlwaysNeedSilence ==
  TaskSpec => []StrangersNeedSilence
<1>1. TaskInv => StrangersNeedSilence
  BY DEF TaskInv
<1>2. QED
  BY <1>1, TaskInvariant, PTL

=============================================================================
