---------------------------- MODULE MathRollout ----------------------------
(***************************************************************************)
(* One single rollout of the math task: generate_single_rollout driving a  *)
(* tool agent, which writes and runs a program, and a reasoning agent.     *)
(*                                                                         *)
(* The episode ends when the two answers agree, right or wrong; success is *)
(* what the reasoning agent's last answer is.  A step of the tool agent    *)
(* that is cancelled leaves its old answer, which the reasoning agent is   *)
(* compared with, and its old reward, to which this turn's share is added. *)
(* What the agents are asked, and that every request is answered in some   *)
(* way, is left to the client: a turn begins with the tool agent's step.   *)
(***************************************************************************)
EXTENDS Integers

CONSTANTS
  MaxTurns,
  Answers,   \* what parse extracts, Nothing included
  Nothing,   \* parse found no answer: []
  Truth,     \* ground_truth_answer
  Equal,     \* pairs of a gold and a target answer that verify accepts
  MaxFaults  \* bound: exceptions and step timeouts explored

Tool      == "tool_generator"
Reasoner  == "reasoning_generator"
Agents    == {Tool, Reasoner}   \* turn_order: the tool agent acts first

Unset == "None"
Error == "error"   \* the text of an exception, in the place of an answer

ASSUME MathAssumption ==
  /\ MaxTurns \in Nat \ {0}
  /\ {Nothing, Truth} \subseteq Answers /\ Nothing # Truth
  /\ {Unset, Error} \cap Answers = {}
  /\ Equal \subseteq (Answers \ {Nothing}) \X (Answers \ {Nothing})
  /\ MaxFaults \in Nat

VARIABLES
  pc,      \* phase of the turn; "raised" is a lost rollout
  turn,    \* turn_idx
  env,     \* self.envs[rollout_idx]
  pay,     \* agent_reward of each agent
  late,    \* the tool agent's step of this turn was cancelled
  lates,   \* turns in which it was
  faults   \* exceptions and timeouts so far

vars == <<pc, turn, env, pay, late, lates, faults>>

Verify(gold, target) == <<gold, target>> \in Equal
Point(b) == IF b THEN 1 ELSE 0

Init ==
  /\ pc = "generate"
  /\ turn = 0
  /\ env = [code |-> Unset, reason |-> Unset, done |-> FALSE, success |-> FALSE]
  /\ pay = [a \in Agents |-> 0]
  /\ late = FALSE
  /\ lates = 0
  /\ faults = 0

Fault == faults < MaxFaults /\ faults' = faults + 1

\* generate_agent_response of both; a failed one answers with an empty text.
Generate ==
  /\ pc = "generate"
  /\ pc' = "tool"
  /\ late' = FALSE
  /\ UNCHANGED <<turn, env, pay, lates, faults>>

-----------------------------------------------------------------------------
(* ToolAgent.step. *)

Runs == pc = "tool" /\ pc' = "reason" /\ UNCHANGED turn

ToolAnswers ==
  /\ Runs
  /\ \E a \in Answers :
       /\ env' = [env EXCEPT !.code = a]
       /\ pay' = [pay EXCEPT ![Tool] = Point(Verify(a, Truth))]
  /\ UNCHANGED <<late, lates, faults>>

\* mutant: the exception leaves the pay of the turn before
ToolRaisesUnpaid ==
  /\ Runs /\ Fault
  /\ env' = [env EXCEPT !.code = Error]
  /\ UNCHANGED <<pay, late, lates>>

\* parse or verify raises; the answer may have been stored before.
ToolRaises ==
  /\ Runs /\ Fault
  /\ env' = [env EXCEPT !.code = Error]
  /\ pay' = [pay EXCEPT ![Tool] = -1]
  /\ UNCHANGED <<late, lates>>

\* wait_for cancels the step while the program runs.
ToolIsLate ==
  /\ Runs /\ Fault
  /\ late' = TRUE
  /\ lates' = lates + 1
  /\ UNCHANGED <<env, pay>>

-----------------------------------------------------------------------------
(* ReasoningAgent.step.  It awaits nothing and cannot be cancelled.        *)
(* reasoning_is_correct is env.success once there is an answer.            *)

\* mutant: the episode ends when the answer is right
EndsWhenRight(a) ==
  [env EXCEPT !.reason = a, !.success = Verify(a, Truth), !.done = env.done \/ Verify(a, Truth)]

Reasoned(a) ==
  [env EXCEPT !.reason = a, !.success = Verify(a, Truth), !.done = env.done \/ Verify(env.code, a)]

ReasonerAnswers ==
  /\ pc = "reason"
  /\ \E a \in Answers : env' = Reasoned(a)
  /\ pc' = "reward"
  /\ UNCHANGED <<turn, pay, late, lates, faults>>

\* Without the tool agent's except clause the exception ends the rollout.
ReasonerRaises ==
  /\ pc = "reason" /\ Fault
  /\ pc' = "raised"
  /\ UNCHANGED <<turn, env, pay, late, lates>>

-----------------------------------------------------------------------------
(* calculate_reward of both agents, in turn order.                         *)

Reward ==
  /\ pc = "reward"
  /\ pay' = [pay EXCEPT ![Tool]     = @ + Point(env.success),
                        ![Reasoner] = 2 * Point(env.success)]
  /\ pc' = "paid"
  /\ UNCHANGED <<turn, env, late, lates, faults>>

NextTurn ==
  /\ pc = "paid"
  /\ IF env.done \/ turn = MaxTurns - 1
     THEN pc' = "over" /\ UNCHANGED turn
     ELSE pc' = "generate" /\ turn' = turn + 1
  /\ UNCHANGED <<env, pay, late, lates, faults>>

Ended == pc \in {"over", "raised"} /\ UNCHANGED vars

Next ==
  \/ Generate \/ ToolAnswers \/ ToolRaises \/ ToolIsLate
  \/ ReasonerAnswers \/ ReasonerRaises
  \/ Reward \/ NextTurn \/ Ended

Spec == Init /\ [][Next]_vars

-----------------------------------------------------------------------------
\* The type invariant.
TypeOK ==
  /\ pc \in {"generate", "tool", "reason", "reward", "paid", "over", "raised"}
  /\ turn \in 0..(MaxTurns - 1)
  /\ env \in [code : Answers \cup {Unset, Error}, reason : Answers \cup {Unset},
              done : BOOLEAN, success : BOOLEAN]
  /\ pay \in [Agents -> Int]
  /\ late \in BOOLEAN
  /\ lates \in Nat
  /\ faults \in 0..MaxFaults

(* An episode ends before max_turns exactly when the reasoning agent has   *)
(* just given the answer the tool agent's last program printed, in this    *)
(* turn or in an earlier one; an exception or an empty answer agrees with  *)
(* nothing.  Only the reasoning agent's last answer makes it a success.    *)
StopsOnAgreement ==
  pc = "over" =>
    /\ env.done <=> Verify(env.code, env.reason)
    /\ ~env.done => turn = MaxTurns - 1
    /\ env.success <=> Verify(env.reason, Truth)

(* Whatever fails, a turn pays at most 2 and what its own answers earn,    *)
(* except that each cancelled step of the tool agent carries the pay of    *)
(* before and may add one to it.                                           *)
PayIsEarned ==
  /\ pc = "paid" =>
       /\ ~late => pay[Tool] = (IF env.code = Error THEN -1 ELSE Point(Verify(env.code, Truth)))
                                + Point(Verify(env.reason, Truth))
       /\ pay[Reasoner] = 2 * Point(Verify(env.reason, Truth))
  /\ pay[Tool] \in -1..(2 + lates)

=============================================================================
