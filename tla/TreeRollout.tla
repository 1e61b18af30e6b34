---------------------------- MODULE TreeRollout ----------------------------
(***************************************************************************)
(* One tree-sampled rollout group: the coroutine generate_env_idx_rollout  *)
(* of the execution engine.  N sibling rollouts of one problem advance     *)
(* together.  In a turn all agents generate for all siblings, then every   *)
(* agent steps the environments, then agent by agent the outputs are       *)
(* scored, appended to the trajectory, and the best sibling is deep-copied *)
(* over the others.                                                        *)
(*                                                                         *)
(* The heart of the module is object identity.  envs is self.envs, the     *)
(* objects that steps are applied to.  views is the coroutine's local      *)
(* envs_list, the objects that prompts, rewards and the done test read.    *)
(* They are the same objects only until the first deepcopy.  The agents    *)
(* are copied as well, and with them the agent_reward that a step leaves   *)
(* in an agent and that some agents' calculate_reward adds to.             *)
(***************************************************************************)
EXTENDS Integers

CONSTANTS
  N,          \* rollouts per problem (train_sample_num)
  NumAgents,  \* length of turn_order
  MaxTurns,   \* config.env.max_turns
  Qualities,  \* abstract quality of a model output; 0 is that of an empty one
  Parallel,   \* engine.parallel: generate for all agents at once
  IfGreedy,   \* config.if_greedy: keep the best sibling, else the first
  MaxFaults,  \* bound: timeouts and exceptions explored in one behaviour
  Pays,       \* what a step may leave in its agent's agent_reward
  Adding,     \* agents whose calculate_reward adds to agent_reward
  Score(_, _) \* calculate_reward: what agent a reads off an environment

ASSUME CountsAssumption ==
  /\ N \in Nat \ {0}
  /\ NumAgents \in Nat \ {0}
  /\ MaxTurns \in Nat \ {0}
ASSUME FlagsAssumption ==
  /\ Qualities \subseteq Nat
  /\ 0 \in Qualities
  /\ Parallel \in BOOLEAN
  /\ IfGreedy \in BOOLEAN
  /\ MaxFaults \in Nat

Idx    == 1..N
Agents == 1..NumAgents
Turns  == 1..MaxTurns

(***************************************************************************)
(* What an environment remembers of the last evaluated output of an agent: *)
(* the turn and the sibling it came from and its quality.                  *)
(***************************************************************************)
Work   == [turn : 0..MaxTurns, idx : Idx, q : Qualities]
NoWork == [turn |-> 0, idx |-> 1, q |-> 0]
Env    == [work : [Agents -> Work], done : BOOLEAN]
FreshEnv == [work |-> [a \in Agents |-> NoWork], done |-> FALSE]

ASSUME ScoreAssumption ==
  /\ Pays \subseteq Int
  /\ Adding \subseteq Agents
  /\ \A e \in Env, a \in Agents : Score(e, a) \in Int

(***************************************************************************)
(* The result of one generation.  A failed one has no training data (dpr   *)
(* is FALSE) but still becomes an empty response that is stepped.          *)
(***************************************************************************)
Result  == [kind : {"pending", "answer", "failed"}, q : Qualities]
Pending == [kind |-> "pending", q |-> 0]
Failed  == [kind |-> "failed", q |-> 0]
Answer(q) == [kind |-> "answer", q |-> q]

VARIABLES
  pc,       \* "generate", "step", "score", "done" or "failed"
  turn,     \* turn_idx + 1
  agent,    \* loop variable of the step and of the score loop
  idx,      \* loop variable of the step loop
  results,  \* all_agents_results, per agent and sibling
  envs,     \* self.envs of the group: the objects that step() mutates
  views,    \* envs_list: the objects prompts, rewards and done read
  aliased,  \* TRUE while envs_list still holds the objects of self.envs
  actions,  \* agent_groups: current_action of each sibling's agents
  pays,     \* agent_groups: agent_reward of each sibling's agents
  rows,     \* trajectory_per_task_dict: the rows kept for training
  faults    \* failures so far, bounded by MaxFaults

vars == <<pc, turn, agent, idx, results, envs, views, aliased, actions, pays,
          rows, faults>>

Row(a, i, r) == [turn |-> turn, agent |-> a, idx |-> i,
                 own |-> results[a][i].q, reward |-> r]

NoResults == [a \in Agents |-> [i \in Idx |-> Pending]]

Init ==
  /\ pc = "generate"
  /\ turn = 1
  /\ agent = 1
  /\ idx = 1
  /\ results = NoResults
  /\ envs = [i \in Idx |-> FreshEnv]
  /\ views = envs
  /\ aliased = TRUE
  /\ actions = [i \in Idx |-> [a \in Agents |-> 0]]
  /\ pays = actions
  /\ rows = {}
  /\ faults = 0

Fault ==
  /\ faults < MaxFaults
  /\ faults' = faults + 1

(***************************************************************************)
(* Generation.  In sequential mode an agent waits for the gather over the  *)
(* siblings of the previous agent; in neither mode for its step.           *)
(***************************************************************************)
MayGenerate(a, i) ==
  /\ pc = "generate"
  /\ results[a][i] = Pending
  /\ Parallel \/ \A b \in 1..(a - 1), j \in Idx : results[b][j] # Pending

Generate(a, i) ==
  /\ MayGenerate(a, i)
  /\ \E q \in Qualities : results' = [results EXCEPT ![a][i] = Answer(q)]
  /\ UNCHANGED <<pc, turn, agent, idx, envs, views, aliased, actions, pays, rows, faults>>

\* asyncio.TimeoutError of generate_with_timeout, or an exception before the call
GenerateFails(a, i) ==
  /\ MayGenerate(a, i)
  /\ Fault
  /\ results' = [results EXCEPT ![a][i] = Failed]
  /\ UNCHANGED <<pc, turn, agent, idx, envs, views, aliased, actions, pays, rows>>

AllGenerated ==
  /\ pc = "generate"
  /\ \A a \in Agents, i \in Idx : results[a][i] # Pending
  /\ pc' = "step"
  /\ agent' = 1
  /\ idx' = 1
  /\ UNCHANGED <<turn, results, envs, views, aliased, actions, pays, rows, faults>>

(***************************************************************************)
(* The step loop: for each agent, for each sibling, update_from_model and  *)
(* then step on self.envs, never on envs_list.  The agent that steps is    *)
(* the sibling's own, and the step may set its agent_reward (the math tool *)
(* agent, the stateful agents) or leave it (the code agents).              *)
(***************************************************************************)
NextStepOffByOne ==   \* mutant: one iteration too many
  IF idx <= N THEN /\ idx' = idx + 1
                   /\ UNCHANGED <<pc, agent>>
  ELSE /\ idx' = 1
       /\ pc' = "score"
       /\ UNCHANGED agent

NextStep ==
  IF idx < N THEN /\ idx' = idx + 1
                  /\ UNCHANGED <<pc, agent>>
  ELSE /\ idx' = 1
       /\ IF agent < NumAgents THEN /\ agent' = agent + 1
                                    /\ UNCHANGED pc
          ELSE /\ agent' = 1
               /\ pc' = "score"

UpdateFromModel == actions' = [actions EXCEPT ![idx][agent] = results[agent][idx].q]

SetPay == \E p \in Pays \cup {pays[idx][agent]} :
            pays' = [pays EXCEPT ![idx][agent] = p]

Stepped(e, ends) ==
  [work |-> [e.work EXCEPT ![agent] =
               [turn |-> turn, idx |-> idx, q |-> results[agent][idx].q]],
   done |-> e.done \/ ends]

StepOnViews ==        \* mutant: the step is given envs_list[idx]
  /\ pc = "step"
  /\ UpdateFromModel
  /\ SetPay
  /\ \E ends \in BOOLEAN : views' = [views EXCEPT ![idx] = Stepped(@, ends)]
  /\ envs' = IF aliased THEN views' ELSE envs
  /\ NextStep
  /\ UNCHANGED <<turn, results, aliased, rows, faults>>

Step ==
  /\ pc = "step"
  /\ UpdateFromModel
  /\ SetPay
  /\ \E ends \in BOOLEAN : envs' = [envs EXCEPT ![idx] = Stepped(@, ends)]
  /\ views' = IF aliased THEN envs' ELSE views
  /\ NextStep
  /\ UNCHANGED <<turn, results, aliased, rows, faults>>

\* wait_for cuts the step before its evaluation is recorded; the error is swallowed
StepTimesOut ==
  /\ pc = "step"
  /\ Fault
  /\ UpdateFromModel
  /\ SetPay
  /\ NextStep
  /\ UNCHANGED <<turn, results, envs, views, aliased, rows>>

\* any other exception leaves the coroutine: the group's task fails
StepRaises ==
  /\ pc = "step"
  /\ Fault
  /\ pc' = "failed"
  /\ UpdateFromModel
  /\ SetPay
  /\ UNCHANGED <<turn, agent, idx, results, envs, views, aliased, rows>>

(***************************************************************************)
(* Score, collect and select for one agent.  There is no await in this     *)
(* part of the loop, so it is one action.  calculate_reward overwrites     *)
(* agent_reward (the code agents, the math reasoning agent) or adds to it  *)
(* (the math tool agent, the stateful agents).  np.argmax returns the      *)
(* first maximum.                                                          *)
(***************************************************************************)
Reward(i) == Score(views[i], agent) + IF agent \in Adding THEN pays[i][agent] ELSE 0

IsWorst(i) ==         \* mutant: argmin for argmax
  \A j \in Idx : Reward(i) <= Reward(j)

IsBest(i) ==
  IF IfGreedy THEN /\ \A j \in Idx : Reward(j) <= Reward(i)
                   /\ \A j \in 1..(i - 1) : Reward(j) < Reward(i)
  ELSE i = 1

RowsOfAll ==          \* mutant: output_dpr is not tested for None
  {Row(agent, i, Reward(i)) : i \in Idx}

NewRows == {Row(agent, i, Reward(i)) : i \in {j \in Idx : results[agent][j].kind = "answer"}}

GroupsKept(best) ==   \* mutant: only envs_list is replaced by copies
  /\ views' = [i \in Idx |-> views[best]]
  /\ pays' = [i \in Idx |-> [pays[i] EXCEPT ![agent] = Reward(i)]]
  /\ aliased' = FALSE
  /\ UNCHANGED actions

Broadcast(best) ==
  /\ views' = [i \in Idx |-> views[best]]
  /\ actions' = [i \in Idx |-> actions[best]]
  /\ pays' = [i \in Idx |-> [pays[best] EXCEPT ![agent] = Reward(best)]]
  /\ aliased' = FALSE

TurnNotAdvanced(done) ==   \* mutant: the turn counter is not advanced
  \/ /\ done
     /\ pc' = "done"
     /\ UNCHANGED <<turn, agent, results>>
  \/ /\ ~done
     /\ pc' = "generate"
     /\ agent' = 1
     /\ results' = NoResults
     /\ UNCHANGED turn

AfterSelection(done) ==
  \/ /\ done \/ (agent = NumAgents /\ turn = MaxTurns)
     /\ pc' = "done"
     /\ UNCHANGED <<turn, agent, results>>
  \/ /\ ~done
     /\ agent < NumAgents
     /\ agent' = agent + 1
     /\ UNCHANGED <<pc, turn, results>>
  \/ /\ ~done
     /\ agent = NumAgents
     /\ turn < MaxTurns
     /\ pc' = "generate"
     /\ turn' = turn + 1
     /\ agent' = 1
     /\ results' = NoResults

ScoreAndSelect ==
  /\ pc = "score"
  /\ rows' = rows \cup NewRows
  /\ \E best \in Idx : /\ IsBest(best)
                       /\ Broadcast(best)
                       /\ AfterSelection(views[best].done)
  /\ UNCHANGED <<idx, envs, faults>>

Stopped == pc \in {"done", "failed"} /\ UNCHANGED vars

Next ==
  \/ \E a \in Agents, i \in Idx : Generate(a, i) \/ GenerateFails(a, i)
  \/ AllGenerated
  \/ Step
  \/ StepTimesOut
  \/ StepRaises
  \/ ScoreAndSelect
  \/ Stopped

(***************************************************************************)
(* generate_timeout and step_timeout bound every await, so a coroutine the *)
(* event loop schedules always has a next step.                            *)
(***************************************************************************)
Fairness ==
  /\ \A a \in Agents, i \in Idx : WF_vars(Generate(a, i))
  /\ WF_vars(AllGenerated)
  /\ WF_vars(Step)
  /\ WF_vars(ScoreAndSelect)

Spec == Init /\ [][Next]_vars /\ Fairness

-----------------------------------------------------------------------------

RowType == [turn : Turns, agent : Agents, idx : Idx, own : Qualities, reward : Int]

(* Every variable of the rollout group stays in its range. *)
TypeOK ==
  /\ pc \in {"generate", "step", "score", "done", "failed"}
  /\ turn \in Turns
  /\ agent \in Agents
  /\ idx \in Idx
  /\ results \in [Agents -> [Idx -> Result]]
  /\ envs \in [Idx -> Env]
  /\ views \in [Idx -> Env]
  /\ aliased \in BOOLEAN
  /\ actions \in [Idx -> [Agents -> Qualities]]
  /\ pays \in [Idx -> [Agents -> Int]]
  /\ rows \subseteq RowType
  /\ faults \in 0..MaxFaults

FirstChoice(r) == r.turn = 1 /\ r.agent = 1

(* Once the first agent of a turn has been selected, its siblings are      *)
(* copies of one group, and no step falls between the selections of a      *)
(* turn: all rows that an agent after the first has in a turn carry one    *)
(* and the same reward.  And once the very first choice is made, steps no  *)
(* longer reach what rewards read: all later rows of an agent that only    *)
(* reads the environment carry one reward, over all siblings and turns.    *)
(* Such groups have no variance, whatever their own outputs were worth.    *)
RewardsCollapse ==
  \A r, s \in rows :
     /\ r.agent = s.agent
     /\ \/ r.turn = s.turn /\ r.agent # 1
        \/ r.agent \notin Adding /\ ~FirstChoice(r) /\ ~FirstChoice(s)
     => r.reward = s.reward

(* The group that the later agents and turns go on from is one whose agent *)
(* was rewarded most: at every choice of the turn, no row of the agent     *)
(* chosen for has more than the agent_reward that every sibling was left   *)
(* with.                                                                   *)
BestIsKept ==
  IfGreedy =>
    \A r \in rows : r.turn = turn => \A i \in Idx : r.reward <= pays[i][r.agent]

(* A group ends right after its first choice, or runs through all turns    *)
(* and agents: after that choice, done is read from a copy that no step    *)
(* can reach.                                                              *)
StopsFirstOrLast ==
  pc = "done" => \/ turn = 1 /\ agent = 1
                 \/ turn = MaxTurns /\ agent = NumAgents

(* A generation the engine gave up (a timeout or an exception around the   *)
(* call) is never trained on, and a generated output is left out of the    *)
(* trajectory only when an earlier agent's selection of the same turn      *)
(* ended the rollout.  A request that failed inside the client is an       *)
(* answer here: the client makes an end-of-text row of it.                 *)
RowOf(a, i) == \E r \in rows : r.turn = turn /\ r.agent = a /\ r.idx = i
RowsAreTheAnswers ==
  /\ pc \in {"generate", "step"} => \A a \in Agents, i \in Idx : ~RowOf(a, i)
  /\ pc = "done" =>
       \A a \in Agents, i \in Idx :
         RowOf(a, i) <=> results[a][i].kind = "answer" /\ a <= agent

(* Every rollout group ends: it returns its rows or its task fails. *)
Terminates == <>(pc \in {"done", "failed"})

=============================================================================
