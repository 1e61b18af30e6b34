------------------------- MODULE CodeRolloutProofs -------------------------
(***************************************************************************)
(* Theorems about CodeRollout, for every set of programs and suites, every *)
(* scoring, every number of turns, failures and cancelled steps.           *)
(***************************************************************************)
EXTENDS CodeRollout, SequenceTheorems, TLAPS

Given(a) == IF a = Coder THEN Coded ELSE Tested

(***************************************************************************)
(* k counts the agents that have acted; done is set by the last of them,   *)
(* so the program and the suite that agreed are still there when the turn  *)
(* is over.                                                                *)
(***************************************************************************)
PhaseInv == /\ pc \in {"generate", "done"} => k = 0
            /\ pc = "step" => k \in {0, 1}
            /\ pc = "reward" => k = 2
            /\ k = 0 <=> verdict = "none"
ReplyInv == \A a \in Agents : /\ replies[a] \in {Pending} \cup Given(a)
                              /\ pc \in {"step", "reward"} => replies[a] \in Given(a)
DoneInv  == /\ env.done => /\ pc \in {"reward", "done"}
                           /\ env.code # NoCode
                           /\ <<env.code, env.suite>> \in Agree
            /\ pc = "done" => env.done \/ turn = MaxTurns - 1

EnvType == [code : AllCodes, suite : AllSuites, match : 0..Full, done : BOOLEAN,
            success : BOOLEAN]
RowSet  == [turn : Turns, agent : Agents, reward : Nat]
PlaySet == [code : AllCodes, verdict : Verdicts]

IInv == TypeOK /\ PhaseInv /\ ReplyInv /\ DoneInv

-----------------------------------------------------------------------------

LEMMA AgentsDiffer == Coder # Tester /\ Coder \in Agents /\ Tester \in Agents
BY DEF Coder, Tester, Agents

LEMMA OrderOf == Len(Order) = 2 /\ Order[1] = Coder /\ Order[2] = Tester
BY DEF Order

LEMMA ReplyTypes ==
  ASSUME NEW a \in Agents
  PROVE  Failed(a) \in Given(a) /\ Answers(a) \subseteq Given(a)
BY DEF Failed, Answers, Given, Coded, Tested, AllCodes, AllSuites

LEMMA GivenInType ==
  ASSUME NEW a \in Agents, NEW p \in Given(a)
  PROVE  p \in {Pending} \cup Coded \cup Tested
BY DEF Given

LEMMA InitInv == Init => IInv
<1> SUFFICES ASSUME Init PROVE IInv
  OBVIOUS
<1>1. replies \in [Agents -> {Pending} \cup Coded \cup Tested]
  BY DEF Init, NoReplies
<1>2. env \in EnvType
  BY CodeAssumption DEF Init, FreshEnv, AllCodes, AllSuites, EnvType
<1>3. rows \in Seq(RowSet) /\ played \in [Turns -> PlaySet] /\ verdict \in Verdicts
  BY DEF Init, PlaySet, Unplayed, AllCodes, Verdicts
<1>4. TypeOK
  BY <1>1, <1>2, <1>3, CodeAssumption
  DEF Init, TypeOK, Pcs, Turns, EnvType, RowSet, PlaySet
<1>5. PhaseInv /\ ReplyInv /\ DoneInv
  BY DEF Init, PhaseInv, ReplyInv, DoneInv, NoReplies, FreshEnv
<1>6. QED
  BY <1>4, <1>5 DEF IInv

(* A reply, given or failed, touches nothing but the agent's own entry.    *)
LEMMA ReplyKeepsInv ==
  ASSUME IInv, NEW a \in Agents, NEW p \in Given(a), Reply(a, p), faults' \in 0..MaxFaults
  PROVE  IInv'
<1>1. /\ pc = "generate" /\ replies' = [replies EXCEPT ![a] = p]
      /\ pc' \in {"generate", "step"}
      /\ pc' = "step" => \A b \in Agents \ {a} : replies[b] # Pending
      /\ UNCHANGED <<turn, k, env, rows, verdict, played>>
  BY DEF Reply
<1>2. p \in {Pending} \cup Coded \cup Tested
  BY GivenInType
<1>3. TypeOK'
  BY <1>1, <1>2 DEF IInv, TypeOK, Pcs
<1>4. PhaseInv'
  BY <1>1 DEF IInv, PhaseInv
<1>5. ReplyInv'
  BY <1>1 DEF IInv, TypeOK, ReplyInv
<1>6. DoneInv'
  BY <1>1 DEF IInv, DoneInv
<1>7. QED
  BY <1>3, <1>4, <1>5, <1>6 DEF IInv

LEMMA FaultType == ASSUME TypeOK, Fault PROVE faults' \in 0..MaxFaults
BY CodeAssumption DEF TypeOK, Fault

LEMMA GenerateInv ==
  ASSUME IInv, NEW a \in Agents, Generate(a) \/ GenerateFails(a) PROVE IInv'
<1>1. CASE Generate(a)
  <2>1. PICK p \in Answers(a) : Reply(a, p) /\ UNCHANGED faults
    BY <1>1 DEF Generate
  <2>2. QED
    BY <2>1, ReplyTypes, ReplyKeepsInv DEF IInv, TypeOK
<1>2. CASE GenerateFails(a)
  BY <1>2, ReplyTypes, ReplyKeepsInv, FaultType DEF IInv, GenerateFails
<1>3. QED
  BY <1>1, <1>2

(* A step leads to the next agent, or to the rewards after the last one.   *)
LEMMA NextAgentPhase ==
  ASSUME IInv, pc = "step", NextAgent
  PROVE  /\ k = 0 => Order[k + 1] = Coder /\ k' = 1 /\ pc' = "step"
         /\ k = 1 => Order[k + 1] = Tester /\ k' = 2 /\ pc' = "reward"
         /\ k \in {0, 1}
BY OrderOf DEF IInv, PhaseInv, NextAgent

(* What the coder's step leaves: its program, and what was reported of it. *)
LEMMA CodeStepEffect ==
  ASSUME IInv, CodeStep
  PROVE  /\ pc = "step" /\ k = 0 /\ k' = 1 /\ pc' = "step"
         /\ env'.code = replies[Coder].code /\ env'.code \in AllCodes
         /\ env'.done = env.done /\ env' \in EnvType
         /\ env'.success <=> env'.match = Full
         /\ \/ verdict' = "clean" /\ env'.match = Score[env'.code]
            \/ verdict' = "short" /\ env'.match < Score[env'.code]
         /\ faults' \in 0..MaxFaults /\ verdict' \in Verdicts
         /\ UNCHANGED <<turn, replies, rows, played>>
<1> DEFINE c == replies[Coder].code
<1>1. pc = "step" /\ k = 0 /\ k' = 1 /\ pc' = "step"
  BY NextAgentPhase, AgentsDiffer DEF CodeStep, Acts
<1>2. c \in AllCodes
  BY <1>1, AgentsDiffer DEF IInv, ReplyInv, Given, Coded
<1>3. PICK m \in 0..Full :
         /\ Evaluated(c, m)
         /\ env' = [[env EXCEPT !.code = c] EXCEPT !.match = m, !.success = (m = Full)]
  BY DEF CodeStep, WithCode, IInv, TypeOK
<1> HIDE DEF c
<1>4. /\ env' = [code |-> c, suite |-> env.suite, match |-> m, done |-> env.done,
                 success |-> (m = Full)]
  BY <1>3 DEF IInv, TypeOK
<1>5. /\ env'.code = c /\ env'.match = m /\ env'.done = env.done
      /\ env'.success <=> env'.match = Full
  BY <1>4
<1>6. env' \in EnvType
  BY <1>2, <1>4 DEF EnvType, IInv, TypeOK
<1>7. /\ \/ verdict' = "clean" /\ m = Score[c]
         \/ verdict' = "short" /\ m < Score[c]
      /\ faults' \in 0..MaxFaults /\ verdict' \in Verdicts
  BY <1>3, FaultType DEF Evaluated, IInv, TypeOK, Verdicts
<1>8. c = replies[Coder].code
  BY DEF c
<1>9. QED
  BY <1>1, <1>2, <1>5, <1>6, <1>7, <1>8 DEF CodeStep

LEMMA CodeStepInv ==
  ASSUME IInv, CodeStep PROVE IInv'
<1>1. TypeOK'
  BY CodeStepEffect DEF IInv, TypeOK, Pcs, EnvType
<1>2. ~env.done /\ ~env'.done
  BY CodeStepEffect DEF IInv, TypeOK, DoneInv
<1>3. PhaseInv' /\ ReplyInv' /\ DoneInv'
  BY <1>2, CodeStepEffect DEF IInv, PhaseInv, ReplyInv, DoneInv
<1>4. QED
  BY <1>1, <1>3 DEF IInv

LEMMA SuiteStepEffect ==
  ASSUME IInv, SuiteStep
  PROVE  /\ pc = "step" /\ k = 1 /\ k' = 2 /\ pc' = "reward"
         /\ env' \in EnvType
         /\ env'.code = env.code /\ env'.match = env.match
         /\ env'.success = env.success
         /\ env'.done => env.code # NoCode /\ <<env.code, env'.suite>> \in Agree
         /\ faults' \in 0..MaxFaults
         /\ UNCHANGED <<turn, replies, rows, verdict, played>>
<1> DEFINE s == replies[Tester].suite
<1>1. pc = "step" /\ k = 1 /\ k' = 2 /\ pc' = "reward"
  BY NextAgentPhase, AgentsDiffer DEF SuiteStep, Acts
<1>2. s \in AllSuites
  BY <1>1, AgentsDiffer DEF IInv, ReplyInv, Given, Tested
<1>3. env.done = FALSE
  BY <1>1 DEF IInv, TypeOK, DoneInv
<1>4. PICK ends \in BOOLEAN :
         /\ env' = [env EXCEPT !.suite = s, !.done = ends]
         /\ ends => Agreed
  <2>1. Agreed \in BOOLEAN
    BY DEF Agreed, Runs
  <2>2. CASE env' = [WithSuite EXCEPT !.done = @ \/ Agreed]
    <3>1. env' = [env EXCEPT !.suite = s, !.done = Agreed]
      BY <1>3, <2>1, <2>2 DEF WithSuite, IInv, TypeOK
    <3>2. QED
      BY <2>1, <3>1
  <2>3. CASE env' = WithSuite
    <3>1. env' = [env EXCEPT !.suite = s, !.done = FALSE]
      BY <1>3, <2>3 DEF WithSuite, IInv, TypeOK
    <3>2. QED
      BY <3>1
  <2>4. QED
    BY <2>2, <2>3 DEF SuiteStep
<1>5. Agreed => env.code # NoCode /\ <<env.code, s>> \in Agree
  BY DEF Agreed, Runs, WithSuite, IInv, TypeOK
<1> HIDE DEF s
<1>6. env' = [code |-> env.code, suite |-> s, match |-> env.match, done |-> ends,
              success |-> env.success]
  BY <1>4 DEF IInv, TypeOK
<1>7. env' \in EnvType
  BY <1>2, <1>6 DEF EnvType, IInv, TypeOK
<1>8. /\ env'.code = env.code /\ env'.match = env.match
      /\ env'.success = env.success /\ env'.suite = s /\ env'.done = ends
  BY <1>6
<1>9. faults' \in 0..MaxFaults
  BY FaultType DEF SuiteStep, IInv, TypeOK
<1>10. QED
  BY <1>1, <1>4, <1>5, <1>7, <1>8, <1>9 DEF SuiteStep

LEMMA SuiteStepInv ==
  ASSUME IInv, SuiteStep PROVE IInv'
<1>1. TypeOK'
  BY SuiteStepEffect DEF IInv, TypeOK, Pcs, EnvType
<1>2. PhaseInv' /\ ReplyInv' /\ DoneInv'
  BY SuiteStepEffect DEF IInv, PhaseInv, ReplyInv, DoneInv
<1>3. QED
  BY <1>1, <1>2 DEF IInv

LEMMA TimesOutEffect ==
  ASSUME IInv, StepTimesOut
  PROVE  /\ pc = "step" /\ UNCHANGED <<turn, replies, rows, played>>
         /\ env' \in EnvType /\ ~env'.done
         /\ env'.match = env.match /\ env'.success = env.success
         /\ faults' \in 0..MaxFaults /\ verdict' \in Verdicts
         /\ \/ /\ k = 0 /\ k' = 1 /\ pc' = "step" /\ verdict' = "late"
               /\ env'.code = replies[Coder].code
            \/ /\ k = 1 /\ k' = 2 /\ pc' = "reward" /\ verdict' = verdict
               /\ env'.code = env.code
<1>1. pc = "step" /\ UNCHANGED <<turn, replies, rows, played>> /\ faults' \in 0..MaxFaults
  BY FaultType DEF StepTimesOut, IInv
<1>2. replies[Coder].code \in AllCodes /\ replies[Tester].suite \in AllSuites
  BY <1>1, AgentsDiffer DEF IInv, ReplyInv, Given, Coded, Tested
<1>3. ~env.done
  BY <1>1 DEF IInv, DoneInv
<1>4. verdict' \in Verdicts
  BY DEF StepTimesOut, IInv, TypeOK, Verdicts
<1>5. CASE Acts(Coder) /\ env' = WithCode /\ verdict' = "late"
  <2>1. k = 0 /\ k' = 1 /\ pc' = "step"
    BY <1>1, <1>5, NextAgentPhase, AgentsDiffer DEF StepTimesOut, Acts
  <2>2. env' = [env EXCEPT !.code = replies[Coder].code]
    BY <1>5 DEF WithCode
  <2>3. env' \in EnvType
    BY <1>2, <2>2 DEF EnvType, IInv, TypeOK
  <2>4. /\ env'.match = env.match /\ env'.success = env.success
        /\ env'.done = env.done /\ env'.code = replies[Coder].code
    BY <2>2 DEF IInv, TypeOK
  <2>5. QED
    BY <1>1, <1>3, <1>4, <1>5, <2>1, <2>3, <2>4
<1>6. CASE Acts(Tester) /\ env' = WithSuite /\ UNCHANGED verdict
  <2>1. k = 1 /\ k' = 2 /\ pc' = "reward"
    BY <1>1, <1>6, NextAgentPhase, AgentsDiffer DEF StepTimesOut, Acts
  <2>2. env' = [env EXCEPT !.suite = replies[Tester].suite]
    BY <1>6 DEF WithSuite
  <2>3. env' \in EnvType
    BY <1>2, <2>2 DEF EnvType, IInv, TypeOK
  <2>4. /\ env'.match = env.match /\ env'.success = env.success
        /\ env'.done = env.done /\ env'.code = env.code
    BY <2>2 DEF IInv, TypeOK
  <2>5. QED
    BY <1>1, <1>3, <1>4, <1>6, <2>1, <2>3, <2>4
<1>7. QED
  BY <1>5, <1>6 DEF StepTimesOut

LEMMA StepTimesOutInv ==
  ASSUME IInv, StepTimesOut PROVE IInv'
<1>1. TypeOK'
  BY TimesOutEffect DEF IInv, TypeOK, Pcs, EnvType
<1>2. PhaseInv' /\ ReplyInv' /\ DoneInv'
  BY TimesOutEffect DEF IInv, PhaseInv, ReplyInv, DoneInv
<1>3. QED
  BY <1>1, <1>2 DEF IInv

LEMMA Singleton ==
  ASSUME NEW S, NEW x \in S
  PROVE  <<x>> \in Seq(S) /\ <<>> \in Seq(S)
OBVIOUS

(* The rows a turn adds are rows of its agents.                            *)
LEMMA NewRowsAre ==
  ASSUME TypeOK, NEW lost
  PROVE  /\ NewRows(lost) \in Seq(RowSet)
         /\ \A j \in 1..Len(NewRows(lost)) : \E a \in Agents : NewRows(lost)[j] = Row(a)
<1> DEFINE RowIfAny(a) == IF a \in Answered \ lost THEN <<Row(a)>> ELSE <<>>
           S == {Row(a) : a \in Agents}
<1>1. ASSUME NEW a \in Agents PROVE Row(a) \in RowSet
  <2>1. Reward(a) \in Nat
    BY CodeAssumption DEF TypeOK, Reward
  <2>2. QED
    BY <2>1 DEF TypeOK, Row, RowSet
<1>2. S \subseteq RowSet
  BY <1>1
<1>3. \A a \in Agents : Row(a) \in S
  OBVIOUS
<1> HIDE DEF S
<1>4. ASSUME NEW a \in Agents PROVE RowIfAny(a) \in Seq(S)
  <2>1. <<Row(a)>> \in Seq(S) /\ <<>> \in Seq(S)
    BY <1>3, Singleton
  <2>2. QED
    BY <2>1
<1>5. NewRows(lost) = RowIfAny(Coder) \o RowIfAny(Tester)
  BY OrderOf DEF NewRows
<1> HIDE DEF RowIfAny
<1>6. NewRows(lost) \in Seq(S)
  BY <1>4, <1>5, AgentsDiffer
<1>7. \A j \in 1..Len(NewRows(lost)) : NewRows(lost)[j] \in S
  BY <1>6, ElementOfSeq
<1>8. NewRows(lost) \in Seq(RowSet)
  BY <1>2, <1>6
<1>9. QED
  BY <1>7, <1>8 DEF S

(* ... and they are appended to the rows of the turns before. *)
LEMMA RewardedRows ==
  ASSUME TypeOK, RewardAll
  PROVE  /\ rows' \in Seq(RowSet) /\ faults' \in 0..MaxFaults
         /\ \A i \in DOMAIN rows' :
              \/ i \in DOMAIN rows /\ rows'[i] = rows[i]
              \/ \E a \in Agents : rows'[i] = Row(a)
<1>1. PICK lost \in SUBSET Answered :
              /\ rows' = rows \o NewRows(lost)
              /\ IF lost = {} THEN UNCHANGED faults ELSE Fault
  BY DEF RewardAll
<1> DEFINE new == NewRows(lost)
<1>2. rows \in Seq(RowSet) /\ new \in Seq(RowSet)
  BY NewRowsAre DEF TypeOK, RowSet
<1>3. \A j \in 1..Len(new) : \E a \in Agents : new[j] = Row(a)
  BY NewRowsAre
<1>4. rows' = rows \o new
  BY <1>1
<1> HIDE DEF new
<1>5. /\ rows' \in Seq(RowSet) /\ Len(rows') = Len(rows) + Len(new)
      /\ \A i \in 1..(Len(rows) + Len(new)) :
            rows'[i] = IF i <= Len(rows) THEN rows[i] ELSE new[i - Len(rows)]
  BY <1>2, <1>4, ConcatProperties
<1>6. /\ DOMAIN rows = 1..Len(rows) /\ DOMAIN rows' = 1..Len(rows')
      /\ Len(rows) \in Nat /\ Len(new) \in Nat
  BY <1>2, <1>5, LenProperties
<1>7. ASSUME NEW i \in DOMAIN rows', i \notin DOMAIN rows
      PROVE  \E a \in Agents : rows'[i] = Row(a)
  <2>1. i - Len(rows) \in 1..Len(new) /\ rows'[i] = new[i - Len(rows)]
    BY <1>5, <1>6, <1>7
  <2>2. QED
    BY <1>3, <2>1
<1>8. ASSUME NEW i \in DOMAIN rows', i \in DOMAIN rows
      PROVE  rows'[i] = rows[i]
  BY <1>5, <1>6, <1>8
<1>9. faults' \in 0..MaxFaults
  BY <1>1, FaultType DEF TypeOK
<1>10. QED
  BY <1>5, <1>7, <1>8, <1>9

(* A finished turn is recorded, and the record of no other turn touched.   *)
LEMMA PlayedOne ==
  ASSUME IInv, RewardAll
  PROVE  /\ turn \in Nat /\ turn \in Turns
         /\ played' \in [Turns -> PlaySet]
         /\ played'[turn] = [code |-> env.code, verdict |-> verdict]
         /\ \A i \in 0..(turn - 1) : played'[i] = played[i]
<1>1. turn \in Nat /\ turn \in Turns /\ played \in [Turns -> PlaySet]
  BY CodeAssumption DEF IInv, TypeOK, Turns, PlaySet
<1>2. [code |-> env.code, verdict |-> verdict] \in PlaySet
  BY DEF IInv, TypeOK, PlaySet
<1>3. played' = [played EXCEPT ![turn] = [code |-> env.code, verdict |-> verdict]]
  BY DEF RewardAll
<1>4. \A i \in 0..(turn - 1) : i \in Turns /\ i # turn
  BY <1>1, CodeAssumption DEF Turns
<1>5. QED
  BY <1>1, <1>2, <1>3, <1>4

LEMMA RewardAllInv ==
  ASSUME IInv, RewardAll PROVE IInv'
<1>1. /\ pc = "reward" /\ AfterTurn
      /\ k' = 0 /\ replies' = NoReplies /\ verdict' = "none" /\ UNCHANGED env
      /\ verdict' \in Verdicts
  BY DEF RewardAll, Verdicts
<1>2. /\ turn' \in Turns /\ pc' \in {"generate", "done"}
      /\ pc' = "generate" => ~env.done
      /\ pc' = "done" => env.done \/ turn' = MaxTurns - 1
  BY <1>1, CodeAssumption DEF AfterTurn, IInv, TypeOK, Turns
<1>3. replies' \in [Agents -> {Pending} \cup Coded \cup Tested]
  BY <1>1 DEF NoReplies
<1>4. rows' \in Seq(RowSet) /\ faults' \in 0..MaxFaults /\ played' \in [Turns -> PlaySet]
  BY RewardedRows, PlayedOne DEF IInv
<1>5. TypeOK'
  BY <1>1, <1>2, <1>3, <1>4 DEF IInv, TypeOK, Pcs, RowSet, PlaySet
<1>6. PhaseInv' /\ ReplyInv'
  BY <1>1, <1>2 DEF PhaseInv, ReplyInv, NoReplies
<1>7. DoneInv'
  BY <1>1, <1>2 DEF IInv, DoneInv
<1>8. QED
  BY <1>5, <1>6, <1>7 DEF IInv

LEMMA NextInv == IInv /\ [Next]_vars => IInv'
<1> SUFFICES ASSUME IInv, [Next]_vars PROVE IInv'
  OBVIOUS
<1>1. ASSUME NEW a \in Agents, Generate(a) \/ GenerateFails(a) PROVE IInv'
  BY <1>1, GenerateInv
<1>2. CASE CodeStep
  BY <1>2, CodeStepInv
<1>3. CASE SuiteStep
  BY <1>3, SuiteStepInv
<1>4. CASE StepTimesOut
  BY <1>4, StepTimesOutInv
<1>5. CASE RewardAll
  BY <1>5, RewardAllInv
<1>6. CASE UNCHANGED vars
  BY <1>6 DEF vars, IInv, TypeOK, PhaseInv, ReplyInv, DoneInv
<1>7. QED
  BY <1>1, <1>2, <1>3, <1>4, <1>5, <1>6 DEF Next, Returned

LEMMA Inductive == Spec => []IInv
BY InitInv, NextInv, PTL DEF Spec

-----------------------------------------------------------------------------

(***************************************************************************)
(* Where the match ratio comes from.  In the turn of a finished coder's    *)
(* step it is what that step's evaluation reported; before that step, and  *)
(* when it was cancelled, what the turns before have left.                 *)
(***************************************************************************)
SourceInv ==
  /\ k > 0 => env.code = replies[Coder].code
  /\ verdict \in {"none", "late"} =>
       MeasuredBy(IF pc = "done" THEN turn ELSE turn - 1, env.match)
  /\ verdict = "clean" => env.match = Score[env.code]
  /\ verdict = "short" => env.match < Score[env.code]
  /\ env.success <=> env.match = Full

LEMMA SourceReply ==
  ASSUME IInv, SourceInv, NEW a \in Agents, Generate(a) \/ GenerateFails(a)
  PROVE  SourceInv'
<1>1. /\ pc = "generate" /\ k = 0 /\ pc' \in {"generate", "step"}
      /\ UNCHANGED <<turn, k, env, rows, verdict, played>>
  BY DEF Generate, GenerateFails, Reply, IInv, PhaseInv
<1>2. QED
  BY <1>1 DEF SourceInv, MeasuredBy, LastMeasured

LEMMA SourceCodeStep ==
  ASSUME IInv, SourceInv, CodeStep
  PROVE  SourceInv'
BY CodeStepEffect DEF SourceInv

LEMMA SourceSuiteStep ==
  ASSUME IInv, SourceInv, SuiteStep
  PROVE  SourceInv'
BY SuiteStepEffect DEF SourceInv, MeasuredBy, LastMeasured

LEMMA SourceTimesOut ==
  ASSUME IInv, SourceInv, StepTimesOut
  PROVE  SourceInv'
<1>1. MeasuredBy(turn - 1, env.match) => MeasuredBy(turn - 1, env.match)'
  BY TimesOutEffect DEF MeasuredBy, LastMeasured
<1>2. k = 0 => verdict = "none"
  BY DEF IInv, PhaseInv
<1>3. QED
  BY <1>1, <1>2, TimesOutEffect DEF SourceInv

(* A finished turn makes its own evaluation the last one, or passes on     *)
(* what the turns before it have left.                                     *)
LEMMA SourcePlayed ==
  ASSUME IInv, SourceInv, RewardAll, NEW n, n = turn
  PROVE  MeasuredBy(n, env.match)'
<1>1. /\ pc = "reward" /\ verdict \in {"clean", "short", "late"}
      /\ n \in Nat /\ env' = env
      /\ played'[n].code = env.code /\ played'[n].verdict = verdict
      /\ \A i \in 0..(n - 1) : played'[i] = played[i]
  BY PlayedOne DEF RewardAll, IInv, PhaseInv, TypeOK, Verdicts
<1>2. CASE verdict # "late"
  <2>1. LastMeasured(n, n)'
    BY <1>1, <1>2 DEF LastMeasured
  <2>2. IF played'[n].verdict = "clean" THEN env.match = Score[played'[n].code]
                                        ELSE env.match < Score[played'[n].code]
    BY <1>1, <1>2 DEF SourceInv
  <2>3. QED
    BY <1>1, <2>1, <2>2 DEF MeasuredBy
<1>3. CASE verdict = "late"
  <2>1. MeasuredBy(n - 1, env.match)
    BY <1>1, <1>3 DEF SourceInv
  <2>2. CASE env.match = 0 /\ \A i \in 0..(n - 1) : played[i].verdict = "late"
    BY <1>1, <1>3, <2>2 DEF MeasuredBy
  <2>3. CASE \E i \in 0..(n - 1) : /\ LastMeasured(i, n - 1)
                                   /\ IF played[i].verdict = "clean"
                                        THEN env.match = Score[played[i].code]
                                        ELSE env.match < Score[played[i].code]
    <3>1. PICK i \in 0..(n - 1) : /\ LastMeasured(i, n - 1)
                                  /\ IF played[i].verdict = "clean"
                                       THEN env.match = Score[played[i].code]
                                       ELSE env.match < Score[played[i].code]
      BY <2>3
    <3>2. \A j \in (i + 1)..n : played'[j].verdict = "late"
      BY <1>1, <1>3, <3>1 DEF LastMeasured
    <3>3. LastMeasured(i, n)' /\ i \in 0..n
      BY <1>1, <3>1, <3>2 DEF LastMeasured
    <3>4. QED
      BY <1>1, <3>1, <3>3 DEF MeasuredBy
  <2>4. QED
    BY <2>1, <2>2, <2>3 DEF MeasuredBy
<1>4. QED
  BY <1>2, <1>3

LEMMA SourceRewardAll ==
  ASSUME IInv, SourceInv, RewardAll
  PROVE  SourceInv'
<1>1. pc = "reward" /\ AfterTurn /\ k' = 0 /\ verdict' = "none" /\ env' = env
  BY DEF RewardAll
<1>2. PICK n : n = turn /\ n \in Nat
  BY PlayedOne
<1>3. MeasuredBy(n, env.match)'
  BY <1>2, SourcePlayed
<1>4. n = IF pc' = "done" THEN turn' ELSE turn' - 1
  BY <1>1, <1>2 DEF AfterTurn
<1>5. MeasuredBy(IF pc = "done" THEN turn ELSE turn - 1, env.match)'
  BY <1>3, <1>4 DEF MeasuredBy, LastMeasured
<1>6. QED
  BY <1>1, <1>5 DEF SourceInv

LEMMA SourceInvariant == Spec => []SourceInv
<1>1. Init => SourceInv
  BY CodeAssumption DEF Init, SourceInv, FreshEnv, MeasuredBy
<1>2. IInv /\ SourceInv /\ [Next]_vars => SourceInv'
  <2> SUFFICES ASSUME IInv, SourceInv, [Next]_vars PROVE SourceInv'
    OBVIOUS
  <2>1. CASE UNCHANGED vars
    BY <2>1 DEF vars, SourceInv, MeasuredBy, LastMeasured
  <2>2. QED
    BY <2>1, SourceReply, SourceCodeStep, SourceSuiteStep, SourceTimesOut, SourceRewardAll
    DEF Next, Returned
<1>3. QED
  BY <1>1, <1>2, Inductive, PTL DEF Spec

(***************************************************************************)
(* The rows of a turn are rewarded from that match ratio.                  *)
(***************************************************************************)
Explained(r) == \E m \in 0..Full : /\ MeasuredBy(r.turn, m)
                                   /\ r.reward = IF r.agent = Coder THEN m + m ELSE m
RowsInv == \A i \in DOMAIN rows :
             /\ rows[i].turn \in 0..(IF pc = "done" THEN turn ELSE turn - 1)
             /\ Explained(rows[i])

LEMMA MeasuredStays ==
  ASSUME IInv, RewardAll, NEW n \in 0..(turn - 1), NEW m, MeasuredBy(n, m)
  PROVE  MeasuredBy(n, m)'
<1>1. \A i \in 0..n : played'[i] = played[i]
  BY PlayedOne
<1>2. \A i \in 0..n : \A j \in (i + 1)..n : j \in 0..n
  BY PlayedOne
<1>3. QED
  BY <1>1, <1>2 DEF MeasuredBy, LastMeasured

LEMMA RowsStep ==
  ASSUME IInv, SourceInv, RowsInv, [Next]_vars
  PROVE  RowsInv'
<1>1. CASE RewardAll
  <2>1. /\ pc = "reward" /\ turn \in Nat /\ env' = env
        /\ turn = IF pc' = "done" THEN turn' ELSE turn' - 1
    <3>1. turn \in Nat
      BY <1>1, PlayedOne
    <3>2. pc = "reward" /\ AfterTurn /\ env' = env
      BY <1>1 DEF RewardAll
    <3>3. PICK n : n = turn /\ n \in Nat
      BY <3>1
    <3>4. n = IF pc' = "done" THEN turn' ELSE turn' - 1
      BY <3>2, <3>3 DEF AfterTurn
    <3>5. QED
      BY <3>1, <3>2, <3>3, <3>4
  <2> SUFFICES ASSUME NEW i \in DOMAIN rows'
               PROVE  rows'[i].turn \in 0..turn /\ Explained(rows[i])'
    BY <2>1 DEF RowsInv
  <2>2. CASE i \in DOMAIN rows /\ rows'[i] = rows[i]
    <3>1. rows[i].turn \in 0..(turn - 1) /\ Explained(rows[i])
      BY <2>1, <2>2 DEF RowsInv
    <3>2. PICK m \in 0..Full :
               /\ MeasuredBy(rows[i].turn, m)
               /\ rows[i].reward = IF rows[i].agent = Coder THEN m + m ELSE m
      BY <3>1 DEF Explained
    <3>3. PICK n \in 0..(turn - 1) : n = rows[i].turn
      BY <3>1
    <3>4. MeasuredBy(n, m)
      BY <3>2, <3>3
    <3>5. MeasuredBy(n, m)'
      BY <1>1, <3>4, MeasuredStays
    <3>6. MeasuredBy(rows[i].turn, m)'
      BY <2>2, <3>3, <3>5 DEF MeasuredBy, LastMeasured
    <3>7. QED
      BY <2>1, <2>2, <3>1, <3>2, <3>6 DEF Explained
  <2>3. CASE \E a \in Agents : rows'[i] = Row(a)
    <3>1. PICK a \in Agents : rows'[i] = Row(a)
      BY <2>3
    <3>2. /\ rows'[i].turn = turn /\ rows'[i].agent = a
          /\ rows'[i].reward = IF a = Coder THEN env.match + env.match ELSE env.match
      BY <3>1 DEF Row, Reward
    <3>3. PICK n : n = turn
      OBVIOUS
    <3>4. MeasuredBy(n, env.match)'
      BY <1>1, <3>3, SourcePlayed
    <3>5. MeasuredBy(rows[i].turn, env.match)'
      BY <3>2, <3>3, <3>4 DEF MeasuredBy, LastMeasured
    <3>6. PICK m : m = env'.match /\ m \in 0..Full
      BY <2>1 DEF IInv, TypeOK
    <3>7. rows'[i].reward = IF rows'[i].agent = Coder THEN m + m ELSE m
      BY <2>1, <3>2, <3>6
    <3>8. MeasuredBy(rows[i].turn, m)'
      BY <3>5, <3>6 DEF MeasuredBy, LastMeasured
    <3>9. Explained(rows[i])'
      BY <3>6, <3>7, <3>8 DEF Explained
    <3>10. \A t \in Nat : t \in 0..t
      OBVIOUS
    <3>11. turn \in Nat /\ rows'[i].turn = turn
      BY <2>1, <3>2
    <3>12. turn \in 0..turn
      BY <3>10, <3>11
    <3>13. QED
      BY <3>9, <3>11, <3>12
  <2>4. QED
    BY <1>1, <2>2, <2>3, RewardedRows DEF IInv
<1>2. CASE UNCHANGED <<rows, played, turn>> /\ (pc' = "done" <=> pc = "done")
  BY <1>2 DEF RowsInv, Explained, MeasuredBy, LastMeasured
<1>3. CASE UNCHANGED vars
  BY <1>2, <1>3 DEF vars
<1>4. ASSUME NEW a \in Agents, Generate(a) \/ GenerateFails(a)
      PROVE  UNCHANGED <<rows, played, turn>> /\ (pc' = "done" <=> pc = "done")
  BY <1>4 DEF Generate, GenerateFails, Reply
<1>5. ASSUME CodeStep \/ SuiteStep \/ StepTimesOut
      PROVE  UNCHANGED <<rows, played, turn>> /\ (pc' = "done" <=> pc = "done")
  BY <1>5, CodeStepEffect, SuiteStepEffect, TimesOutEffect
<1>6. QED
  BY <1>1, <1>2, <1>3, <1>4, <1>5 DEF Next, Returned

-----------------------------------------------------------------------------

(* Every variable of an episode keeps its type. *)
THEOREM TypeCorrect == Spec => []TypeOK
<1>1. IInv => TypeOK
  BY DEF IInv
<1>2. QED
  BY <1>1, Inductive, PTL

(* Whatever is answered, fails or is cancelled, an episode that ends       *)
(* before max_turns ends with a program that passes the suite generated in *)
(* the same turn.                                                          *)
THEOREM EndsByAgreement == Spec => []StopsOnAgreement
<1>1. IInv => StopsOnAgreement
  BY CodeAssumption DEF IInv, TypeOK, DoneInv, StopsOnAgreement, Turns
<1>2. QED
  BY <1>1, Inductive, PTL

(* Whatever is cancelled or fails, a row is paid for the program of the    *)
(* last turn, up to its own, whose evaluation ended, and with nothing when *)
(* there is no such turn.                                                  *)
THEOREM RewardsHaveASource == Spec => []RewardSource
<1>1. Init => RowsInv
  BY DEF Init, RowsInv
<1>2. IInv /\ SourceInv /\ RowsInv /\ [Next]_vars => RowsInv'
  BY RowsStep
<1>3. RowsInv => RewardSource
  BY DEF RowsInv, Explained, RewardSource
<1>4. QED
  BY <1>1, <1>2, <1>3, Inductive, SourceInvariant, PTL DEF Spec

(* What validation counts as a success: the last program whose evaluation  *)
(* ended, in whatever turn, was evaluated without errors and passes all    *)
(* ground truth tests.                                                     *)
THEOREM SuccessHasASource == Spec => []SuccessSource
<1>1. ASSUME IInv, SourceInv, k = 0
      PROVE  env.success <=> MeasuredBy(IF pc = "done" THEN turn ELSE turn - 1, Full)
  <2> DEFINE n == IF pc = "done" THEN turn ELSE turn - 1
  <2>1. MeasuredBy(n, env.match)
    BY <1>1 DEF IInv, PhaseInv, SourceInv
  <2>2. \A i \in 0..n : Score[played[i].code] \in 0..Full
    <3>1. \A i \in 0..n : i \in Turns
      BY <1>1, CodeAssumption DEF IInv, TypeOK, Turns
    <3>2. QED
      BY <1>1, <3>1, CodeAssumption DEF IInv, TypeOK
  <2>3. n \in Int
    BY <1>1, CodeAssumption DEF IInv, TypeOK, Turns
  <2> HIDE DEF n
  <2>4. ASSUME MeasuredBy(n, Full) PROVE env.match = Full
    <3>1. Full \in Nat \ {0}
      BY CodeAssumption
    <3>2. PICK i \in 0..n :
         /\ LastMeasured(i, n)
         /\ IF played[i].verdict = "clean" THEN Full = Score[played[i].code]
                                           ELSE Full < Score[played[i].code]
      BY <2>4, <3>1 DEF MeasuredBy
    <3>3. played[i].verdict = "clean" /\ Score[played[i].code] = Full
      BY <2>2, <3>1, <3>2
    <3>4. ASSUME NEW j \in 0..n, LastMeasured(j, n) PROVE j = i
      BY <2>3, <3>2, <3>4 DEF LastMeasured
    <3>5. ~ \A j \in 0..n : played[j].verdict = "late"
      BY <3>3
    <3>6. PICK j \in 0..n :
         /\ LastMeasured(j, n)
         /\ IF played[j].verdict = "clean" THEN env.match = Score[played[j].code]
                                           ELSE env.match < Score[played[j].code]
      BY <2>1, <3>5 DEF MeasuredBy
    <3>7. QED
      BY <3>3, <3>4, <3>6
  <2>5. env.success <=> env.match = Full
    BY <1>1 DEF SourceInv
  <2>6. QED
    BY <2>1, <2>4, <2>5 DEF n
<1>2. IInv /\ SourceInv => SuccessSource
  BY <1>1 DEF SuccessSource, IInv, PhaseInv
<1>3. QED
  BY <1>2, Inductive, SourceInvariant, PTL

=============================================================================
