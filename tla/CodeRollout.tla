---------------------------- MODULE CodeRollout ----------------------------
(***************************************************************************)
(* One single (non-tree) rollout of the coding task: generate_single_      *)
(* rollout driving a code generator and a unit test generator that share   *)
(* one CodeEnv.                                                            *)
(*                                                                         *)
(* In a turn all agents first generate, then act one after the other, then *)
(* are rewarded.  A step writes its answer into the environment, awaits    *)
(* the execution of the code, and only then records the outcome: when      *)
(* step_timeout cancels it in between, the old outcome stays next to the   *)
(* new answer.  An execution that fails, in its worker or as a whole, is   *)
(* no failure of the step: the tests concerned count as not passed.  The   *)
(* code generator is scored on the hidden ground truth tests; it is        *)
(* agreement with the GENERATED tests that sets env.done.                  *)
(***************************************************************************)
EXTENDS Naturals, SequencesExt

CONSTANTS
  MaxTurns,
  Codes,      \* programs an answer may hold
  NoCode,     \* generated_code None or "": nothing that can be run
  Garbage,    \* what update_from_model stores when there is no code block
  Suites,     \* sets of generated test cases
  NoSuite,    \* no test case could be extracted
  Full,       \* number of ground truth tests
  Score,      \* ground truth tests a program passes
  Agree,      \* pairs of a program and a generated suite it passes
  MaxFaults   \* bound: failures explored in one behaviour

Coder  == "code_generator"
Tester == "test_generator"
Agents == {Coder, Tester}
Order  == <<Coder, Tester>>   \* turn_order of the two-agent configurations

AllCodes  == Codes \cup {NoCode, Garbage}
AllSuites == Suites \cup {NoSuite}

ASSUME CodeAssumption ==
  /\ MaxTurns \in Nat \ {0}
  /\ {NoCode, Garbage} \cap Codes = {} /\ NoCode # Garbage
  /\ NoSuite \notin Suites
  /\ Full \in Nat \ {0}
  /\ Score \in [AllCodes -> 0..Full]
  /\ Score[NoCode] = 0 /\ Score[Garbage] = 0
  /\ Agree \subseteq AllCodes \X Suites
  /\ MaxFaults \in Nat

VARIABLES
  pc,       \* phase of the turn loop
  turn,     \* turn_idx
  k,        \* agents of Order that have acted in this turn
  replies,  \* output of generate_agent_response, by agent
  env,      \* self.envs[rollout_idx]
  rows,     \* rows of the trajectory, in the order they were concatenated
  verdict,  \* how the coder's step of this turn ended (history)
  played,   \* program and verdict of each turn (history)
  faults    \* failures so far

vars == <<pc, turn, k, replies, env, rows, verdict, played, faults>>

Pcs   == {"generate", "step", "reward", "done"}
Turns == 0..(MaxTurns - 1)

(***************************************************************************)
(* A reply: whether a response row exists (output_dpr is not None), and    *)
(* what update_from_model takes from its text.                             *)
(***************************************************************************)
Pending == [state |-> "pending"]
Coded   == [state : {"answer", "failed"}, code : AllCodes]
Tested  == [state : {"answer", "failed"}, suite : AllSuites]

Failed(a) == IF a = Coder THEN [state |-> "failed", code |-> Garbage]
                          ELSE [state |-> "failed", suite |-> NoSuite]

Answers(a) == IF a = Coder THEN {p \in Coded : p.state = "answer"}
                           ELSE {p \in Tested : p.state = "answer"}

NoReplies == [a \in Agents |-> Pending]

(***************************************************************************)
(* match is ground_truth_test_vs_generated_code_match_ratio in tests       *)
(* passed.                                                                 *)
(***************************************************************************)
Unplayed == [code |-> NoCode, verdict |-> "none"]
FreshEnv == [code |-> NoCode, suite |-> NoSuite, match |-> 0, done |-> FALSE,
             success |-> FALSE]

Init ==
  /\ pc = "generate"
  /\ turn = 0
  /\ k = 0
  /\ replies = NoReplies
  /\ env = FreshEnv
  /\ rows = <<>>
  /\ verdict = "none"
  /\ played = [t \in Turns |-> Unplayed]
  /\ faults = 0

(***************************************************************************)
(* generate_agent_response of all agents, gathered or one by one: the      *)
(* environment stays as the previous turn left it.                         *)
(***************************************************************************)
Reply(a, p) ==
  /\ pc = "generate"
  /\ replies[a] = Pending
  /\ replies' = [replies EXCEPT ![a] = p]
  /\ pc' = IF \E b \in Agents \ {a} : replies[b] = Pending THEN "generate" ELSE "step"
  /\ UNCHANGED <<turn, k, env, rows, verdict, played>>

Generate(a) == \E p \in Answers(a) : Reply(a, p) /\ UNCHANGED faults

Fault == faults < MaxFaults /\ faults' = faults + 1

GenerateFails(a) == Reply(a, Failed(a)) /\ Fault

NextAgent ==
  /\ k' = k + 1
  /\ pc' = IF k + 1 = Len(Order) THEN "reward" ELSE "step"

Acts(a) == pc = "step" /\ Order[k + 1] = a

\* the part of an agent's step before its await
WithCode  == [env EXCEPT !.code = replies[Coder].code]
WithSuite == [env EXCEPT !.suite = replies[Tester].suite]

(***************************************************************************)
(* evaluate_code_against_tests: a clean one counts the tests the program   *)
(* passes.  A worker that fails or takes too long is a test not passed,    *)
(* and an exception of the whole evaluation is a ratio of 0.               *)
(***************************************************************************)
Evaluated(c, m) ==
  \/ m = Score[c] /\ verdict' = "clean" /\ UNCHANGED faults
  \/ m < Score[c] /\ verdict' = "short" /\ Fault

\* mutant: the environment's success flag is never withdrawn
KeepsSuccess ==
  /\ Acts(Coder)
  /\ \E m \in 0..Full : /\ Evaluated(WithCode.code, m)
                        /\ env' = [WithCode EXCEPT !.match   = m,
                                                   !.success = @ \/ m = Full]
  /\ NextAgent
  /\ UNCHANGED <<turn, replies, rows, played>>

\* mutant: the code of the turn before is executed
ScoresOldCode ==
  /\ Acts(Coder)
  /\ \E m \in 0..Full : /\ Evaluated(env.code, m)
                        /\ env' = [WithCode EXCEPT !.match   = m,
                                                   !.success = (m = Full)]
  /\ NextAgent
  /\ UNCHANGED <<turn, replies, rows, played>>

\* CodeGenerationAgent.step
CodeStep ==
  /\ Acts(Coder)
  /\ \E m \in 0..Full : /\ Evaluated(WithCode.code, m)
                        /\ env' = [WithCode EXCEPT !.match   = m,
                                                   !.success = (m = Full)]
  /\ NextAgent
  /\ UNCHANGED <<turn, replies, rows, played>>

\* UnitTestGenerationAgent.step; the golden code is never there to be run
Runs(e) == e.suite # NoSuite /\ e.code # NoCode

\* mutant: any generated suite ends the episode
EndsOnAnySuite ==
  /\ Acts(Tester)
  /\ env' = [WithSuite EXCEPT !.done = @ \/ Runs(WithSuite)]
  /\ NextAgent
  /\ UNCHANGED <<turn, replies, rows, verdict, played, faults>>

Agreed == Runs(WithSuite) /\ <<WithSuite.code, WithSuite.suite>> \in Agree

\* an evaluation that fails misses an agreement
SuiteStep ==
  /\ Acts(Tester)
  /\ \/ env' = [WithSuite EXCEPT !.done = @ \/ Agreed] /\ UNCHANGED faults
     \/ Agreed /\ env' = WithSuite /\ Fault
  /\ NextAgent
  /\ UNCHANGED <<turn, replies, rows, verdict, played>>

\* asyncio.wait_for cancels the step while the program runs
StepTimesOut ==
  /\ pc = "step"
  /\ \/ Acts(Coder) /\ env' = WithCode /\ verdict' = "late"
     \/ Acts(Tester) /\ Runs(WithSuite) /\ env' = WithSuite /\ UNCHANGED verdict
  /\ Fault
  /\ NextAgent
  /\ UNCHANGED <<turn, replies, rows, played>>

\* calculate_reward: the tester has no part of its own without golden code
Reward(a) == IF a = Coder THEN env.match + env.match ELSE env.match

Row(a) == [turn |-> turn, agent |-> a, reward |-> Reward(a)]

(***************************************************************************)
(* One row for each reply that has one.  The first row becomes the         *)
(* trajectory; a later one is lost when its concatenation raises, which    *)
(* is swallowed.                                                           *)
(***************************************************************************)
Answered == {a \in Agents : replies[a].state = "answer"}

MayLose(lost) == rows # <<>> \/ (Coder \notin lost /\ Coder \in Answered) \/ lost = {}

NewRows(lost) == LET RowIfAny(a) == IF a \in Answered \ lost THEN <<Row(a)>> ELSE <<>>
                 IN  RowIfAny(Order[1]) \o RowIfAny(Order[2])

\* mutant: after the last turn only env.done ends the episode
WaitsForDone ==
  IF env.done THEN pc' = "done" /\ UNCHANGED turn
  ELSE IF turn = MaxTurns - 1 THEN UNCHANGED <<pc, turn>>
  ELSE pc' = "generate" /\ turn' = turn + 1

AfterTurn ==
  IF env.done \/ turn = MaxTurns - 1
    THEN pc' = "done" /\ UNCHANGED turn
    ELSE pc' = "generate" /\ turn' = turn + 1

RewardAll ==
  /\ pc = "reward"
  /\ \E lost \in SUBSET Answered : /\ MayLose(lost)
                                   /\ rows' = rows \o NewRows(lost)
                                   /\ IF lost = {} THEN UNCHANGED faults ELSE Fault
  /\ AfterTurn
  /\ k' = 0
  /\ replies' = NoReplies
  /\ verdict' = "none"
  /\ played' = [played EXCEPT ![turn] = [code |-> env.code, verdict |-> verdict]]
  /\ UNCHANGED env

Returned == pc = "done" /\ UNCHANGED vars

Next ==
  \/ \E a \in Agents : Generate(a) \/ GenerateFails(a)
  \/ CodeStep
  \/ SuiteStep
  \/ StepTimesOut
  \/ RewardAll
  \/ Returned

(***************************************************************************)
(* A request ends by an answer or an error (LlmClient), a step by its      *)
(* result or step_timeout.                                                 *)
(***************************************************************************)
Fairness == /\ WF_vars(\E a \in Agents : Generate(a) \/ GenerateFails(a))
            /\ WF_vars(CodeStep \/ SuiteStep \/ StepTimesOut)
            /\ WF_vars(RewardAll)

Spec == Init /\ [][Next]_vars /\ Fairness

-----------------------------------------------------------------------------

Verdicts == {"none", "clean", "short", "late"}

(* Every variable of the rollout stays in its range. *)
TypeOK ==
  /\ pc \in Pcs
  /\ turn \in Turns
  /\ k \in 0..2
  /\ replies \in [Agents -> {Pending} \cup Coded \cup Tested]
  /\ env \in [code : AllCodes, suite : AllSuites, match : 0..Full, done : BOOLEAN,
              success : BOOLEAN]
  /\ rows \in Seq([turn : Turns, agent : Agents, reward : Nat])
  /\ verdict \in Verdicts
  /\ played \in [Turns -> [code : AllCodes, verdict : Verdicts]]
  /\ faults \in 0..MaxFaults

(* An episode that ends before max_turns ends because the program of that  *)
(* turn passes the suite of that turn, even if a step of the turn was      *)
(* cancelled half way.                                                     *)
StopsOnAgreement ==
  pc = "done" /\ turn < MaxTurns - 1 =>
    env.code # NoCode /\ <<env.code, env.suite>> \in Agree

\* up to turn n, i is the last whose program was evaluated to the end
LastMeasured(i, n) == /\ i \in 0..n
                      /\ played[i].verdict # "late"
                      /\ \A j \in (i + 1)..n : played[j].verdict = "late"

\* m, in tests passed, is what the turns up to n can have left as match ratio
MeasuredBy(n, m) ==
  \/ /\ m = 0
     /\ \A i \in 0..n : played[i].verdict = "late"
  \/ \E i \in 0..n : /\ LastMeasured(i, n)
                     /\ IF played[i].verdict = "clean" THEN m = Score[played[i].code]
                                                       ELSE m < Score[played[i].code]

(* Both rows of a turn are paid for the program of that turn, exactly what *)
(* it earns unless its evaluation failed in parts, or, when the coder's    *)
(* step was cancelled, for the program of the last turn in which it was    *)
(* not; with nothing when there is no such turn.                           *)
RewardSource ==
  \A i \in DOMAIN rows :
    \E m \in 0..Full : /\ MeasuredBy(rows[i].turn, m)
                       /\ rows[i].reward = IF rows[i].agent = Coder THEN m + m ELSE m

(* env.success, which validation counts, is about the last program that    *)
(* was evaluated to the end, in whatever turn: it holds exactly when that  *)
(* evaluation was clean and the program passes every ground truth test.    *)
SuccessSource ==
  /\ pc = "generate" => (env.success <=> MeasuredBy(turn - 1, Full))
  /\ pc = "done"     => (env.success <=> MeasuredBy(turn, Full))

(* The episode ends, whatever fails. *)
Terminates == <>(pc = "done")

=============================================================================
