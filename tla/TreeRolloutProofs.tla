------------------------- MODULE TreeRolloutProofs -------------------------
(***************************************************************************)
(* Theorems about TreeRollout, for every number of siblings, agents and    *)
(* turns and for every reward function of the environment.                 *)
(***************************************************************************)
EXTENDS TreeRollout, TLAPS

Running == {"generate", "step", "score"}

(***************************************************************************)
(* Before the first selection nothing has been collected; after it all     *)
(* siblings read equal copies, which are not done while the rollout runs,  *)
(* and between two selections of a turn their agents are equal copies too. *)
(***************************************************************************)
AliasInv   == aliased => /\ rows = {}
                         /\ turn = 1
                         /\ pc = "score" => agent = 1
                         /\ pc # "done"
UniformInv == ~aliased => \A i, j \in Idx : views[i] = views[j]
DoneInv    == ~aliased /\ pc \in Running => \A i \in Idx : ~views[i].done
PaysInv    == pc = "score" /\ agent # 1 => \A i, j \in Idx : pays[i] = pays[j]
RewardInv  == \A r \in rows : ~FirstChoice(r) /\ r.agent \notin Adding =>
                               r.reward = Score(views[1], r.agent)

IInv == /\ TypeOK
        /\ AliasInv
        /\ UniformInv
        /\ DoneInv
        /\ PaysInv
        /\ RewardInv
        /\ StopsFirstOrLast

(***************************************************************************)
(* On top of IInv: the rows of the current turn are those of the agents    *)
(* the score loop has left behind.                                         *)
(***************************************************************************)
CollectedInv ==
  /\ \A r \in rows : r.turn <= turn
  /\ pc \in {"generate", "step"} => \A r \in rows : r.turn < turn
  /\ pc = "score" =>
       \A a \in Agents, i \in Idx :
         RowOf(a, i) <=> results[a][i].kind = "answer" /\ a < agent
  /\ pc = "done" =>
       \A a \in Agents, i \in Idx :
         RowOf(a, i) <=> results[a][i].kind = "answer" /\ a <= agent

-----------------------------------------------------------------------------

LEMMA FreshEnvType == FreshEnv \in Env
BY CountsAssumption, FlagsAssumption DEF FreshEnv, Env, Work, NoWork, Idx, Agents

LEMMA ResultTypes ==
  /\ Pending \in Result
  /\ Failed \in Result
  /\ \A q \in Qualities : Answer(q) \in Result
  /\ NoResults \in [Agents -> [Idx -> Result]]
BY FlagsAssumption DEF Pending, Failed, Answer, Result, NoResults

LEMMA SteppedType ==
  ASSUME TypeOK, NEW e \in Env, NEW ends \in BOOLEAN
  PROVE  Stepped(e, ends) \in Env
<1>1. results[agent][idx].q \in Qualities
  BY DEF TypeOK, Result
<1>2. turn \in 0..MaxTurns
  BY CountsAssumption DEF TypeOK, Turns
<1>3. [turn |-> turn, idx |-> idx, q |-> results[agent][idx].q] \in Work
  BY <1>1, <1>2 DEF Work, TypeOK
<1>4. QED
  BY <1>3 DEF Stepped, Env

LEMMA NextStepType ==
  ASSUME TypeOK, pc = "step", NextStep
  PROVE  /\ pc' \in {"step", "score"}
         /\ pc' = "score" => agent' = 1
         /\ agent' \in Agents
         /\ idx' \in Idx
BY CountsAssumption DEF TypeOK, NextStep, Agents, Idx

LEMMA UpdateType ==
  ASSUME TypeOK, UpdateFromModel
  PROVE  actions' \in [Idx -> [Agents -> Qualities]]
<1>1. results[agent][idx].q \in Qualities
  BY DEF TypeOK, Result
<1>2. QED
  BY <1>1 DEF TypeOK, UpdateFromModel

LEMMA SetPayType ==
  ASSUME TypeOK, SetPay
  PROVE  pays' \in [Idx -> [Agents -> Int]]
<1>1. PICK p \in Pays \cup {pays[idx][agent]} : pays' = [pays EXCEPT ![idx][agent] = p]
  BY DEF SetPay
<1>2. p \in Int
  BY ScoreAssumption DEF TypeOK
<1>3. QED
  BY <1>1, <1>2 DEF TypeOK

LEMMA RewardType ==
  ASSUME TypeOK, NEW i \in Idx
  PROVE  /\ Reward(i) \in Int
         /\ agent \notin Adding => Reward(i) = Score(views[i], agent)
<1>1. Score(views[i], agent) \in Int /\ pays[i][agent] \in Int
  BY ScoreAssumption DEF TypeOK
<1>2. QED
  BY <1>1 DEF Reward

LEMMA FaultType ==
  ASSUME TypeOK, Fault
  PROVE  faults' \in 0..MaxFaults
BY FlagsAssumption DEF TypeOK, Fault

LEMMA NewRowsType ==
  ASSUME TypeOK, pc = "score"
  PROVE  NewRows \subseteq RowType
<1> SUFFICES ASSUME NEW i \in Idx
             PROVE  Row(agent, i, Reward(i)) \in RowType
  BY DEF NewRows
<1>1. results[agent][i].q \in Qualities
  BY DEF TypeOK, Result
<1>2. Reward(i) \in Int
  BY RewardType
<1>3. QED
  BY <1>1, <1>2 DEF Row, RowType, TypeOK

LEMMA InitInv == Init => IInv
<1> SUFFICES ASSUME Init PROVE IInv
  OBVIOUS
<1>1. TypeOK
  <2>1. pays \in [Idx -> [Agents -> Int]]
    BY DEF Init
  <2>2. QED
    BY <2>1, FreshEnvType, ResultTypes, CountsAssumption, FlagsAssumption
    DEF Init, TypeOK, Turns, Agents, Idx
<1>2. QED
  BY <1>1 DEF Init, IInv, AliasInv, UniformInv, DoneInv, PaysInv, RewardInv, StopsFirstOrLast

-----------------------------------------------------------------------------

LEMMA GenerateInv ==
  ASSUME IInv, NEW a \in Agents, NEW i \in Idx, Generate(a, i) \/ GenerateFails(a, i)
  PROVE  IInv'
<1>1. results' \in [Agents -> [Idx -> Result]]
  <2>1. PICK r \in Result : results' = [results EXCEPT ![a][i] = r]
    <3>1. CASE Generate(a, i)
      BY <3>1, ResultTypes DEF Generate
    <3>2. CASE GenerateFails(a, i)
      BY <3>2, ResultTypes DEF GenerateFails
    <3>3. QED
      BY <3>1, <3>2
  <2>2. QED
    BY <2>1 DEF IInv, TypeOK
<1>2. faults' \in 0..MaxFaults
  BY FaultType DEF IInv, TypeOK, Generate, GenerateFails
<1>3. UNCHANGED <<pc, turn, agent, idx, envs, views, aliased, actions, pays, rows>>
  BY DEF Generate, GenerateFails
<1>4. TypeOK'
  BY <1>1, <1>2, <1>3 DEF IInv, TypeOK
<1>5. QED
  BY <1>3, <1>4
  DEF IInv, AliasInv, UniformInv, DoneInv, PaysInv, RewardInv, StopsFirstOrLast, FirstChoice, Running

LEMMA AllGeneratedInv ==
  ASSUME IInv, AllGenerated
  PROVE  IInv'
<1>1. TypeOK'
  BY CountsAssumption DEF IInv, TypeOK, AllGenerated, Agents, Idx
<1>2. QED
  BY <1>1
  DEF AllGenerated, IInv, AliasInv, UniformInv, DoneInv, PaysInv, RewardInv, StopsFirstOrLast,
      FirstChoice, Running

LEMMA StepInv ==
  ASSUME IInv, Step
  PROVE  IInv'
<1>1. PICK ends \in BOOLEAN : envs' = [envs EXCEPT ![idx] = Stepped(@, ends)]
  BY DEF Step
<1>2. envs' \in [Idx -> Env]
  BY <1>1, SteppedType DEF IInv, TypeOK
<1>3. TypeOK'
  BY <1>2, NextStepType, UpdateType, SetPayType DEF IInv, TypeOK, Step
<1>4. /\ ~aliased => views' = views
      /\ UNCHANGED <<turn, aliased, rows>>
      /\ pc = "step"
  BY DEF Step
<1>5. /\ pc' \in {"step", "score"}
      /\ pc' = "score" => agent' = 1
  BY NextStepType DEF IInv, Step
<1>6. AliasInv' /\ UniformInv' /\ DoneInv' /\ PaysInv' /\ StopsFirstOrLast'
  BY <1>4, <1>5 DEF IInv, AliasInv, UniformInv, DoneInv, PaysInv, StopsFirstOrLast, Running
<1>7. RewardInv'
  BY <1>4 DEF IInv, AliasInv, RewardInv, FirstChoice
<1>8. QED
  BY <1>3, <1>6, <1>7 DEF IInv

LEMMA StepTimesOutInv ==
  ASSUME IInv, StepTimesOut
  PROVE  IInv'
<1>1. TypeOK'
  BY NextStepType, UpdateType, SetPayType, FaultType DEF IInv, TypeOK, StepTimesOut
<1>2. /\ pc' \in {"step", "score"}
      /\ pc' = "score" => agent' = 1
  BY NextStepType DEF IInv, StepTimesOut
<1>3. QED
  BY <1>1, <1>2
  DEF StepTimesOut, IInv, AliasInv, UniformInv, DoneInv, PaysInv, RewardInv, StopsFirstOrLast,
      FirstChoice, Running

LEMMA StepRaisesInv ==
  ASSUME IInv, StepRaises
  PROVE  IInv'
<1>1. TypeOK'
  BY UpdateType, SetPayType, FaultType DEF IInv, TypeOK, StepRaises
<1>2. QED
  BY <1>1
  DEF StepRaises, IInv, AliasInv, UniformInv, DoneInv, PaysInv, RewardInv, StopsFirstOrLast,
      FirstChoice, Running

(***************************************************************************)
(* The step that matters: a selection made while the siblings still read   *)
(* self.envs is that of the first agent in the first turn; every other one *)
(* scores equal copies, so it adds equal rewards unless the agents' own    *)
(* agent_reward tells them apart, and broadcasts the environment that is   *)
(* already there.                                                          *)
(***************************************************************************)
LEMMA ScoreAndSelectInv ==
  ASSUME IInv, ScoreAndSelect
  PROVE  IInv'
<1>1. PICK best \in Idx : Broadcast(best) /\ AfterSelection(views[best].done)
  BY DEF ScoreAndSelect
<1>2. /\ pc = "score"
      /\ rows' = rows \cup NewRows
      /\ UNCHANGED <<idx, envs, faults>>
      /\ aliased' = FALSE
      /\ views' = [i \in Idx |-> views[best]]
  BY <1>1 DEF ScoreAndSelect, Broadcast
<1>3. 1 \in Idx
  BY CountsAssumption DEF Idx
<1>4. TypeOK'
  <2>1. rows' \subseteq RowType
    BY <1>2, NewRowsType DEF IInv, TypeOK
  <2>2. /\ views' \in [Idx -> Env]
        /\ actions' \in [Idx -> [Agents -> Qualities]]
        /\ pays' \in [Idx -> [Agents -> Int]]
    BY <1>1, RewardType DEF Broadcast, IInv, TypeOK
  <2>3. /\ pc' \in {"generate", "score", "done"}
        /\ turn' \in Turns
        /\ agent' \in Agents
        /\ results' \in [Agents -> [Idx -> Result]]
    BY <1>1, <1>2, ResultTypes, CountsAssumption
    DEF AfterSelection, IInv, TypeOK, Turns, Agents
  <2>4. QED
    BY <1>2, <2>1, <2>2, <2>3 DEF IInv, TypeOK
<1>5. UniformInv' /\ AliasInv' /\ PaysInv'
  BY <1>1, <1>2 DEF UniformInv, AliasInv, PaysInv, Broadcast
<1>6. DoneInv'
  BY <1>1, <1>2 DEF AfterSelection, DoneInv, Running
<1>7. RewardInv'
  <2> SUFFICES ASSUME NEW r \in rows', ~FirstChoice(r), r.agent \notin Adding
               PROVE  r.reward = Score(views'[1], r.agent)
    BY DEF RewardInv, FirstChoice
  <2>1. CASE aliased
    <3>1. turn = 1 /\ agent = 1 /\ rows = {}
      BY <1>2, <2>1 DEF IInv, AliasInv
    <3>2. FirstChoice(r)
      BY <1>2, <3>1 DEF NewRows, Row, FirstChoice
    <3>3. QED
      BY <3>2
  <2>2. CASE ~aliased
    <3>1. \A i \in Idx : views[i] = views[1]
      BY <1>3, <2>2 DEF IInv, UniformInv
    <3>2. views'[1] = views[1]
      BY <1>2, <1>3, <3>1
    <3>3. CASE r \in rows
      BY <3>2, <3>3 DEF IInv, RewardInv
    <3>4. CASE r \in NewRows
      <4>1. PICK i \in Idx : r = Row(agent, i, Reward(i))
        BY <3>4 DEF NewRows
      <4>2. r.reward = Score(views[i], agent) /\ r.agent = agent
        BY <4>1, RewardType DEF Row, IInv
      <4>3. QED
        BY <3>1, <3>2, <4>2
    <3>5. QED
      BY <1>2, <3>3, <3>4
  <2>3. QED
    BY <2>1, <2>2
<1>8. StopsFirstOrLast'
  <2>1. CASE views[best].done
    <3>1. turn = 1 /\ agent = 1
      BY <1>2, <2>1 DEF IInv, DoneInv, AliasInv, Running
    <3>2. turn' = turn /\ agent' = agent
      BY <1>1, <2>1 DEF AfterSelection
    <3>3. QED
      BY <3>1, <3>2 DEF StopsFirstOrLast
  <2>2. CASE ~views[best].done
    BY <1>1, <1>2, <2>2 DEF AfterSelection, StopsFirstOrLast
  <2>3. QED
    BY <2>1, <2>2
<1>9. QED
  BY <1>4, <1>5, <1>6, <1>7, <1>8 DEF IInv

LEMMA NextInv == IInv /\ [Next]_vars => IInv'
<1> SUFFICES ASSUME IInv, [Next]_vars PROVE IInv'
  OBVIOUS
<1>1. CASE UNCHANGED vars
  BY <1>1
  DEF vars, IInv, TypeOK, AliasInv, UniformInv, DoneInv, PaysInv, RewardInv, StopsFirstOrLast,
      FirstChoice
<1>2. CASE Next
  BY <1>1, <1>2, GenerateInv, AllGeneratedInv, StepInv, StepTimesOutInv, StepRaisesInv,
     ScoreAndSelectInv
  DEF Next, Stopped
<1>3. QED
  BY <1>1, <1>2

LEMMA Inductive == Spec => []IInv
<1>1. QED
  BY InitInv, NextInv, PTL DEF Spec

-----------------------------------------------------------------------------

(***************************************************************************)
(* The trajectory of a turn.                                               *)
(***************************************************************************)
LEMMA CollectedQuiet ==
  ASSUME TypeOK, CollectedInv, UNCHANGED <<turn, rows>>, pc \in {"generate", "step"},
         pc' \in {"generate", "step", "score", "failed"},
         pc' = "score" => agent' = 1
  PROVE  CollectedInv'
<1>1. turn \in Nat
  BY CountsAssumption DEF TypeOK, Turns
<1>2. \A r \in rows : r.turn < turn
  BY DEF CollectedInv
<1>3. \A a \in Agents, i \in Idx : ~RowOf(a, i)'
  BY <1>1, <1>2 DEF RowOf, TypeOK, RowType, Turns
<1>4. \A a \in Agents : ~(a < 1)
  BY CountsAssumption DEF Agents
<1>5. QED
  BY <1>1, <1>2, <1>3, <1>4 DEF CollectedInv

LEMMA CollectedSelected ==
  ASSUME IInv, CollectedInv, ScoreAndSelect
  PROVE  CollectedInv'
<1>1. PICK best \in Idx : AfterSelection(views[best].done)
  BY DEF ScoreAndSelect
<1>2. pc = "score" /\ rows' = rows \cup NewRows
  BY DEF ScoreAndSelect
<1>3. turn \in Nat /\ agent \in Nat /\ agent \in Agents
  BY CountsAssumption DEF IInv, TypeOK, Turns, Agents
<1>4. \A r \in rows : r.turn \in Nat
  BY CountsAssumption DEF IInv, TypeOK, RowType, Turns
<1>5. \A r \in NewRows : r.turn = turn
  BY DEF NewRows, Row
<1>6. \A r \in rows' : r.turn \in Nat /\ r.turn <= turn
  BY <1>2, <1>3, <1>4, <1>5 DEF CollectedInv
<1>7. ASSUME NEW a \in Agents, NEW i \in Idx
      PROVE  (\E r \in rows' : r.turn = turn /\ r.agent = a /\ r.idx = i)
               <=> results[a][i].kind = "answer" /\ a <= agent
  <2>1. a \in Nat
    BY <1>7 DEF Agents
  <2>2. (\E r \in rows : r.turn = turn /\ r.agent = a /\ r.idx = i)
          <=> results[a][i].kind = "answer" /\ a < agent
    BY <1>2, <1>7 DEF CollectedInv, RowOf
  <2>3. (\E r \in NewRows : r.turn = turn /\ r.agent = a /\ r.idx = i)
          <=> results[a][i].kind = "answer" /\ a = agent
    <3>1. ASSUME NEW r \in NewRows, r.agent = a, r.idx = i
          PROVE  results[a][i].kind = "answer" /\ a = agent
      BY <3>1 DEF NewRows, Row
    <3>2. ASSUME results[a][i].kind = "answer", a = agent
          PROVE  /\ Row(agent, i, Reward(i)) \in NewRows
                 /\ Row(agent, i, Reward(i)).turn = turn
                 /\ Row(agent, i, Reward(i)).agent = a
                 /\ Row(agent, i, Reward(i)).idx = i
      BY <3>2, <1>7 DEF NewRows, Row
    <3>3. QED
      BY <3>1, <3>2
  <2>4. QED
    BY <1>2, <1>3, <2>1, <2>2, <2>3
<1>8. CASE pc' = "done" /\ UNCHANGED <<turn, agent, results>>
  BY <1>6, <1>7, <1>8 DEF CollectedInv, RowOf
<1>9. CASE agent' = agent + 1 /\ UNCHANGED <<pc, turn, results>>
  <2>1. \A a \in Agents : a < agent + 1 <=> a <= agent
    BY <1>3 DEF Agents
  <2>2. QED
    BY <1>2, <1>6, <1>7, <1>9, <2>1 DEF CollectedInv, RowOf
<1>10. CASE pc' = "generate" /\ turn' = turn + 1
  <2>1. \A r \in rows' : r.turn < turn + 1 /\ r.turn <= turn + 1
    BY <1>3, <1>6
  <2>2. QED
    BY <1>10, <2>1 DEF CollectedInv
<1>11. QED
  BY <1>1, <1>8, <1>9, <1>10 DEF AfterSelection

LEMMA CollectedNext ==
  ASSUME IInv, CollectedInv, [Next]_vars
  PROVE  CollectedInv'
<1> TypeOK
  BY DEF IInv
<1>1. CASE UNCHANGED vars
  BY <1>1 DEF vars, CollectedInv, RowOf
<1>2. ASSUME NEW a \in Agents, NEW i \in Idx, Generate(a, i) \/ GenerateFails(a, i)
      PROVE  CollectedInv'
  BY <1>2, CollectedQuiet DEF Generate, GenerateFails, MayGenerate
<1>3. CASE AllGenerated
  BY <1>3, CollectedQuiet DEF AllGenerated
<1>4. CASE Step
  BY <1>4, CollectedQuiet, NextStepType DEF Step
<1>5. CASE StepTimesOut
  BY <1>5, CollectedQuiet, NextStepType DEF StepTimesOut
<1>6. CASE StepRaises
  BY <1>6, CollectedQuiet DEF StepRaises
<1>7. CASE ScoreAndSelect
  BY <1>7, CollectedSelected
<1>8. QED
  BY <1>1, <1>2, <1>3, <1>4, <1>5, <1>6, <1>7 DEF Next, Stopped

LEMMA CollectedInvariant == Spec => []CollectedInv
<1>1. Init => CollectedInv
  BY DEF Init, CollectedInv
<1>2. IInv /\ CollectedInv /\ [Next]_vars => CollectedInv'
  BY CollectedNext
<1>3. QED
  BY <1>1, <1>2, Inductive, PTL DEF Spec

-----------------------------------------------------------------------------

(***************************************************************************)
(* The rewards of a turn.  Only a selection adds rows, and agent_reward    *)
(* changes only when the turn has no rows yet or when a selection copies   *)
(* one sibling's agents over the others.                                   *)
(***************************************************************************)
LEMMA SelectedRows ==
  ASSUME IInv, CollectedInv, ScoreAndSelect
  PROVE  /\ rows' = rows \cup NewRows
         /\ \A r \in NewRows : /\ r.turn = turn /\ r.agent = agent
                               /\ \E i \in Idx : r.reward = Reward(i)
         /\ \A r \in rows : /\ r.agent \in Agents /\ r.turn \in Nat
                            /\ r.turn <= turn
                            /\ r.turn = turn => r.agent < agent
<1>1. pc = "score" /\ rows' = rows \cup NewRows
  BY DEF ScoreAndSelect
<1>2. \A r \in NewRows : /\ r.turn = turn /\ r.agent = agent
                         /\ \E i \in Idx : r.reward = Reward(i)
  BY DEF NewRows, Row
<1>3. \A r \in rows : /\ r.agent \in Agents /\ r.idx \in Idx /\ r.turn \in Nat
                      /\ r.turn <= turn
  BY CountsAssumption DEF IInv, TypeOK, RowType, Turns, CollectedInv
<1>4. \A r \in rows : r.turn = turn => r.agent < agent
  BY <1>1, <1>3 DEF CollectedInv, RowOf
<1>5. QED
  BY <1>1, <1>2, <1>3, <1>4

LEMMA CollapseSelected ==
  ASSUME IInv, CollectedInv, RewardsCollapse, ScoreAndSelect, RewardInv'
  PROVE  RewardsCollapse'
<1> SUFFICES ASSUME NEW r \in rows', NEW s \in rows', r.agent = s.agent,
                    r.turn = s.turn, r.agent # 1
             PROVE  r.reward = s.reward
  BY DEF RewardsCollapse, RewardInv, FirstChoice
<1>1. agent \in Nat /\ turn \in Nat /\ Agents \subseteq Nat
  BY CountsAssumption DEF IInv, TypeOK, Agents, Turns
<1>2. CASE r \in rows /\ s \in rows
  BY <1>2 DEF RewardsCollapse
<1>3. CASE r \in NewRows /\ s \in NewRows
  <2>1. PICK i \in Idx, j \in Idx : r.reward = Reward(i) /\ s.reward = Reward(j)
    BY <1>3, SelectedRows
  <2>2. pc = "score" /\ agent # 1
    BY <1>3, SelectedRows DEF ScoreAndSelect
  <2>3. ~aliased
    BY <2>2 DEF IInv, AliasInv
  <2>4. views[i] = views[j] /\ pays[i] = pays[j]
    BY <2>2, <2>3 DEF IInv, UniformInv, PaysInv
  <2>5. QED
    BY <2>1, <2>4 DEF Reward
<1>4. CASE (r \in rows /\ s \in NewRows) \/ (r \in NewRows /\ s \in rows)
  BY <1>1, <1>4, SelectedRows
<1>5. QED
  BY <1>2, <1>3, <1>4, SelectedRows

LEMMA BestSelected ==
  ASSUME IInv, CollectedInv, BestIsKept, ScoreAndSelect
  PROVE  BestIsKept'
<1>1. PICK best \in Idx : IsBest(best) /\ Broadcast(best) /\ AfterSelection(views[best].done)
  BY DEF ScoreAndSelect
<1>2. agent \in Nat /\ turn \in Nat /\ Agents \subseteq Nat /\ agent \in Agents
  BY CountsAssumption DEF IInv, TypeOK, Agents, Turns
<1>3. pays' = [i \in Idx |-> [pays[best] EXCEPT ![agent] = Reward(best)]]
  BY <1>1 DEF Broadcast
<1>4. turn' = turn \/ turn' = turn + 1
  BY <1>1 DEF AfterSelection
<1> SUFFICES ASSUME IfGreedy, NEW r \in rows', r.turn = turn', NEW i \in Idx
             PROVE  r.reward <= pays'[i][r.agent]
  BY DEF BestIsKept
<1>5. turn' = turn
  BY <1>2, <1>4, SelectedRows
<1>6. CASE r \in rows
  <2>1. r.agent \in Agents /\ r.agent # agent /\ r.turn = turn
    BY <1>2, <1>5, <1>6, SelectedRows
  <2>2. pays'[i][r.agent] = pays[best][r.agent]
    BY <1>3, <2>1 DEF IInv, TypeOK
  <2>3. QED
    BY <1>6, <2>1, <2>2 DEF BestIsKept
<1>7. CASE r \in NewRows
  <2>1. PICK j \in Idx : r.reward = Reward(j)
    BY <1>7, SelectedRows
  <2>2. Reward(j) <= Reward(best)
    BY <1>1 DEF IsBest
  <2>3. r.agent = agent
    BY <1>7, SelectedRows
  <2>4. pays'[i][agent] = Reward(best)
    BY <1>2, <1>3 DEF IInv, TypeOK
  <2>5. QED
    BY <2>1, <2>2, <2>3, <2>4
<1>8. QED
  BY <1>6, <1>7, SelectedRows

LEMMA RewardsNext ==
  ASSUME IInv, CollectedInv, RewardsCollapse, BestIsKept, [Next]_vars, RewardInv'
  PROVE  RewardsCollapse' /\ BestIsKept'
<1>1. CASE ScoreAndSelect
  BY <1>1, CollapseSelected, BestSelected
<1>2. CASE UNCHANGED vars
  BY <1>2 DEF vars, RewardsCollapse, BestIsKept, FirstChoice
<1>3. CASE UNCHANGED <<turn, rows>> /\ pc \in {"generate", "step"}
  <2>1. \A r \in rows : r.turn # turn
    BY <1>3, CountsAssumption DEF CollectedInv, IInv, TypeOK, RowType, Turns
  <2>2. QED
    BY <1>3, <2>1 DEF RewardsCollapse, BestIsKept, FirstChoice
<1>4. ASSUME NEW a \in Agents, NEW i \in Idx, Generate(a, i) \/ GenerateFails(a, i)
      PROVE  UNCHANGED <<turn, rows>> /\ pc \in {"generate", "step"}
  BY <1>4 DEF Generate, GenerateFails, MayGenerate
<1>5. ASSUME AllGenerated \/ Step \/ StepTimesOut \/ StepRaises
      PROVE  UNCHANGED <<turn, rows>> /\ pc \in {"generate", "step"}
  BY <1>5 DEF AllGenerated, Step, StepTimesOut, StepRaises
<1>6. QED
  BY <1>1, <1>2, <1>3, <1>4, <1>5 DEF Next, Stopped

LEMMA RewardsInvariant == Spec => [](RewardsCollapse /\ BestIsKept)
<1>1. Init => RewardsCollapse /\ BestIsKept
  BY DEF Init, RewardsCollapse, BestIsKept
<1>2. IInv' => RewardInv'
  BY DEF IInv
<1>3. IInv /\ CollectedInv /\ RewardsCollapse /\ BestIsKept /\ [Next]_vars /\ RewardInv'
        => RewardsCollapse' /\ BestIsKept'
  BY RewardsNext
<1>4. QED
  BY <1>1, <1>2, <1>3, Inductive, CollectedInvariant, PTL DEF Spec

-----------------------------------------------------------------------------

(* Every variable of the rollout group stays in its range. *)
THEOREM TypeCorrect == Spec => []TypeOK
<1>1. IInv => TypeOK
  BY DEF IInv
<1>2. QED
  BY Inductive, <1>1, PTL

(* Whatever steps leave in agent_reward and calculate_reward reads off an  *)
(* environment: in one turn all rows of an agent after the first carry one *)
(* reward, and an agent that only reads the environment has one reward for *)
(* all siblings and turns but the first agent's first turn.                *)
THEOREM RewardsAlwaysCollapse == Spec => []RewardsCollapse
<1>1. QED
  BY RewardsInvariant, PTL

(* generate_env_idx_rollout leaves its loops after the very first choice   *)
(* or not before the last one.                                             *)
THEOREM StopsAtFirstOrLastChoice == Spec => []StopsFirstOrLast
<1>1. IInv => StopsFirstOrLast
  BY DEF IInv
<1>2. QED
  BY Inductive, <1>1, PTL

(* Whatever the rewards are, greedy selection keeps what it chose: at any  *)
(* choice of the turn, no row of the chosen agent has more than the        *)
(* agent_reward that every sibling of the group goes on with.              *)
THEOREM BestIsAlwaysKept == Spec => []BestIsKept
<1>1. QED
  BY RewardsInvariant, PTL

(* The trajectory of a finished turn holds one row for each answer of the  *)
(* agents that were scored before the rollout ended, and none for a        *)
(* generation that was given up.                                           *)
THEOREM RowsAreAlwaysTheAnswers == Spec => []RowsAreTheAnswers
<1>1. TypeOK /\ CollectedInv => RowsAreTheAnswers
  <2>1. ASSUME TypeOK, CollectedInv, pc \in {"generate", "step"},
               NEW a \in Agents, NEW i \in Idx, RowOf(a, i)
        PROVE  FALSE
    BY <2>1, CountsAssumption DEF CollectedInv, RowOf, TypeOK, RowType, Turns
  <2>2. QED
    BY <2>1 DEF CollectedInv, RowsAreTheAnswers
<1>2. QED
  BY TypeCorrect, CollectedInvariant, <1>1, PTL

=============================================================================
