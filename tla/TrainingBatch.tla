--------------------------- MODULE TrainingBatch ---------------------------
(***************************************************************************)
(* From the rollouts of one policy to the batches its actor is updated     *)
(* with: generate_multiple_rollouts_concurrent collects the rows of the    *)
(* rollout tasks in the order they finish, fit pads them to the number of  *)
(* workers, _assign_consistent_uids groups and filters them, and           *)
(* _update_parameters drops untrained agents, pads again and hands one     *)
(* batch (or one per LoRA agent) to update_actor.                          *)
(*                                                                         *)
(* A uid is a fresh uuid per grouping key, so it is modelled by the key.   *)
(* Filtering keeps a set of indices, as keep_indices does in the code.     *)
(***************************************************************************)
EXTENDS Naturals, FiniteSets, SequencesExt

CONSTANTS
  NumProblems,  \* gen_batch_size
  SampleNum,    \* train_sample_num
  MaxTurns,
  NumAgents,
  Rewards,      \* a set of naturals
  Tree,         \* rollout_mode = "tree", else "no_tree"
  Methods,      \* filter_method of the trainer's configuration
  Percents,     \* filter_ratio of the configuration, in hundredths
  Untrained,    \* agent_untrained
  LoraDiffer,   \* lora_differ_mode: one update per agent
  WorldSize,    \* actor_rollout_wg.world_size
  MaxRows       \* bound: rows of one task

ASSUME BatchAssumption ==
  /\ {NumProblems, SampleNum, MaxTurns, NumAgents, WorldSize} \subseteq Nat \ {0}
  /\ Rewards \subseteq Nat
  /\ Tree \in BOOLEAN /\ LoraDiffer \in BOOLEAN
  /\ Methods \subseteq {"dapo", "std", "mean", "uid"}
  /\ Percents \subseteq 0..99
  /\ MaxRows \in Nat

VARIABLES
  pc,       \* how far fit is in the current step
  task,     \* what became of each rollout task
  rows,     \* the rows of the policy, in the order they were concatenated
  config,   \* filter_method and filter_ratio of the policy's trainer
  kept,     \* indices of the rows that survive the filters
  updates   \* batches handed to update_actor

vars == <<pc, task, rows, config, kept, updates>>

Agents   == 0..(NumAgents - 1)
Problems == 0..(NumProblems - 1)

\* One task per problem, or one per rollout.
Tasks == IF Tree THEN Problems ELSE 0..(NumProblems * SampleNum - 1)

\* A row of the trajectory.  "copy" is a ghost: was it added as padding?
Row == [env : Problems, sample : 0..(SampleNum - 1), turn : 0..(MaxTurns - 1),
        agent : Agents, reward : Rewards, mask : {0, 1}, copy : BOOLEAN]

Statuses == {"pending", "completed", "failed"}
Pcs      == {"collect", "padded", "assigned", "updated", "skipped", "crashed"}
NoConfig == [method |-> "uid", percent |-> 0]
Configs  == [method : Methods, percent : Percents]

Init ==
  /\ pc = "collect"
  /\ task = [t \in Tasks |-> "pending"]
  /\ rows = <<>>
  /\ config = NoConfig
  /\ kept = {}
  /\ updates = {}

-----------------------------------------------------------------------------
(* Collection: as_completed over the rollout tasks. *)

\* Place of a row in the nested loops over turns, agents and samples.
Slot(r) == (r.turn * NumAgents + r.agent) * SampleNum + r.sample

TaskRows(t) ==
  {r \in Row : /\ ~r.copy /\ r.mask = 1
               /\ IF Tree THEN r.env = t
                          ELSE /\ r.env = t \div SampleNum
                               /\ r.sample = t % SampleNum}

\* A slot whose generation failed leaves no row.
Results(t) ==
  {s \in SeqOf(TaskRows(t), MaxRows) :
     \A i, j \in DOMAIN s : i < j => Slot(s[i]) < Slot(s[j])}

\* mutant: the first result is taken over and then concatenated as well
MergesFirstTwice(t) ==
  /\ pc = "collect" /\ task[t] = "pending"
  /\ \E result \in Results(t) :
       rows' = IF rows = <<>> THEN result \o result ELSE rows \o result
  /\ task' = [task EXCEPT ![t] = "completed"]
  /\ UNCHANGED <<pc, config, kept, updates>>

TaskCompletes(t) ==
  /\ pc = "collect" /\ task[t] = "pending"
  /\ \E result \in Results(t) : rows' = rows \o result
  /\ task' = [task EXCEPT ![t] = "completed"]
  /\ UNCHANGED <<pc, config, kept, updates>>

TaskFails(t) ==
  /\ pc = "collect" /\ task[t] = "pending"
  /\ task' = [task EXCEPT ![t] = "failed"]
  /\ UNCHANGED <<pc, rows, config, kept, updates>>

-----------------------------------------------------------------------------
(* pad_dataproto_to_divisor: repeat the batch from its beginning. *)

PadSize(n) == (WorldSize - (n % WorldSize)) % WorldSize

\* The rows added are deep copies, response mask included.
AsPadding(r) == [r EXCEPT !.copy = TRUE]

Padded(s) ==
  IF s = <<>> THEN s
  ELSE s \o [i \in 1..PadSize(Len(s)) |-> AsPadding(s[((i - 1) % Len(s)) + 1])]

PadToWorldSize ==
  /\ pc = "collect"
  /\ \A t \in Tasks : task[t] # "pending"
  /\ rows' = Padded(rows)
  /\ pc' = "padded"
  /\ UNCHANGED <<task, config, kept, updates>>

-----------------------------------------------------------------------------
(* _assign_consistent_uids. *)

Uid(r) == IF Tree THEN <<r.env \div SampleNum, r.turn, r.agent>> ELSE <<r.env>>

Group(s, i) == {j \in DOMAIN s : Uid(s[j]) = Uid(s[i])}
Groups(s)   == {Group(s, i) : i \in DOMAIN s}

RewardsOf(s, g) == {s[i].reward : i \in g}
Total(s, g)   == SumFunction([i \in g |-> s[i].reward])
Squares(s, g) == SumFunction([i \in g |-> s[i].reward * s[i].reward])

SameReward(s, g) == \A i, j \in g : s[i].reward = s[j].reward

\* The scores of a group are fractions <<numerator, denominator>>.
Less(x, y) == x[1] * y[2] < y[1] * x[2]

\* range_normalized_variance
Spread(s, g) ==
  LET n   == Cardinality(g)
      rng == Max(RewardsOf(s, g)) - Min(RewardsOf(s, g))
  IN  IF rng = 0 THEN <<0, 1>>
      ELSE <<n * Squares(s, g) - Total(s, g) * Total(s, g), n * n * rng * rng>>

\* uid_means: a group of one counts as 0.0.
MeanReward(s, g) ==
  IF Cardinality(g) > 1 THEN <<Total(s, g), Cardinality(g)>> ELSE <<0, 1>>

\* int(n * filter_ratio)
Quota(n, percent) == (n * percent) \div 100

\* The Quota lowest groups of a stable sort; groups are met in the order of rows.
Lowest(s, score, percent) ==
  LET Before(g, h) == \/ Less(score[g], score[h])
                      \/ ~Less(score[h], score[g]) /\ Min(g) < Min(h)
  IN  UNION {g \in Groups(s) : Cardinality({h \in Groups(s) : Before(h, g)})
                              < Quota(Cardinality(Groups(s)), percent)}

\* Distance from the mean of the group, times its size.
Deviation(s, g, i) ==
  LET a == Cardinality(g) * s[i].reward
      b == Total(s, g)
  IN  IF a < b THEN b - a ELSE a - b

\* The rows of a group that filter_method "uid" removes: the farthest ones.
Outliers(s, g, percent) ==
  LET Before(i, j) == \/ Deviation(s, g, i) > Deviation(s, g, j)
                      \/ Deviation(s, g, i) = Deviation(s, g, j) /\ i < j
  IN  {j \in g : /\ Cardinality(g) > 1
                 /\ Cardinality({i \in g : Before(i, j)})
                      < Quota(Cardinality(g), percent)}

\* mutant: a group of one sample has no variance to judge
NoSignalOfTwo(s) == UNION {g \in Groups(s) : SameReward(s, g) /\ Cardinality(g) > 1}

\* mutant: the rows added as padding are not looked at
NoSignalUnpadded(s) ==
  UNION {{i \in g : ~s[i].copy} : g \in {h \in Groups(s) : SameReward(s, h)}}

NoSignal(s) == UNION {g \in Groups(s) : SameReward(s, g)}

\* mutant: <= for <
NotAfterAll(s) ==
  {i \in DOMAIN s : \E j \in DOMAIN s :
     s[j].env = s[i].env /\ s[i].turn <= s[j].turn}

\* env_max_turn is kept per env_idx, that is per problem.
NotLastTurn(s) ==
  {i \in DOMAIN s : \E j \in DOMAIN s :
     s[j].env = s[i].env /\ s[i].turn < s[j].turn}

\* filter_method and filter_ratio are those of the policy's trainer.
Removed(s, c) ==
  IF ~Tree THEN NotLastTurn(s)
  ELSE IF c.percent = 0 THEN {}
  ELSE CASE c.method = "dapo" -> NoSignal(s)
         [] c.method = "std"  -> Lowest(s, [g \in Groups(s) |-> Spread(s, g)], c.percent)
         [] c.method = "mean" -> Lowest(s, [g \in Groups(s) |-> MeanReward(s, g)], c.percent)
         [] c.method = "uid"  -> UNION {Outliers(s, g, c.percent) : g \in Groups(s)}

\* mutant: indices start at 0 in the code and at 1 here
AssignUidsOffByOne ==
  /\ pc = "padded"
  /\ config' \in Configs
  /\ kept' = (0..(Len(rows) - 1)) \ Removed(rows, config')
  /\ pc' = "assigned"
  /\ UNCHANGED <<task, rows, updates>>

AssignUids ==
  /\ pc = "padded"
  /\ config' \in Configs
  /\ kept' = DOMAIN rows \ Removed(rows, config')
  /\ pc' = "assigned"
  /\ UNCHANGED <<task, rows, updates>>

-----------------------------------------------------------------------------
(* _update_parameters. *)

\* select_idxs, in the order of the rows: i is the n-th index of I.
Selected(s, I) ==
  LET Nth(n) == CHOOSE i \in I : Cardinality({j \in I : j <= i}) = n
  IN  [n \in 1..Cardinality(I) |-> s[Nth(n)]]

Trained == {i \in kept : rows[i].agent \notin Untrained}

AgentOf(batch, a) == Selected(batch, {i \in DOMAIN batch : batch[i].agent = a})

\* mutant: the sub-batches are not aligned again
PerAgentUnaligned(batch) == {AgentOf(batch, a) : a \in {batch[i].agent : i \in DOMAIN batch}}

\* mutant: every adapter is updated with the whole batch
WholeBatchPerAgent(batch) == {batch}

\* Sub-batches of the LoRA agents, aligned after the advantages are computed.
PerAgent(batch) ==
  {Padded(AgentOf(batch, a)) : a \in {batch[i].agent : i \in DOMAIN batch}}

Update ==
  /\ pc = "assigned" /\ Trained # {}
  /\ LET batch == Padded(Selected(rows, Trained))
     IN  updates' = IF LoraDiffer THEN PerAgent(batch) ELSE {batch}
  /\ pc' = "updated"
  /\ UNCHANGED <<task, rows, config, kept>>

\* The early return when agent_untrained leaves no row.
SkipUpdate ==
  /\ pc = "assigned" /\ Trained = {} /\ kept # {}
  /\ pc' = "skipped"
  /\ UNCHANGED <<task, rows, config, kept, updates>>

\* An empty batch reaches pad_sequence, which refuses an empty list.
UpdateRaises ==
  /\ pc = "assigned" /\ kept = {}
  /\ pc' = "crashed"
  /\ UNCHANGED <<task, rows, config, kept, updates>>

Ended == pc \in {"updated", "skipped", "crashed"} /\ UNCHANGED vars

Next ==
  \/ \E t \in Tasks : TaskCompletes(t) \/ TaskFails(t)
  \/ PadToWorldSize
  \/ AssignUids
  \/ Update \/ SkipUpdate \/ UpdateRaises
  \/ Ended

Spec == Init /\ [][Next]_vars

-----------------------------------------------------------------------------
(* Properties. *)

\* Type correctness.
TypeOK ==
  /\ pc \in Pcs
  /\ task \in [Tasks -> Statuses]
  /\ rows \in Seq(Row)
  /\ config \in Configs \cup {NoConfig}
  /\ kept \subseteq DOMAIN rows
  /\ updates \subseteq Seq(Row)

Place(r) == <<r.env, r.sample, r.turn, r.agent>>

\* Whatever order the tasks finish in, an answer enters the batch once; only
\* padding repeats it, and padding repeats nothing that is not in the batch.
CollectedOnce ==
  \A i, j \in DOMAIN rows :
    /\ i # j /\ Place(rows[i]) = Place(rows[j]) => rows[i].copy \/ rows[j].copy
    /\ rows[i].copy =>
         \E n \in DOMAIN rows : ~rows[n].copy /\ AsPadding(rows[n]) = rows[i]

Filtered == pc \notin {"collect", "padded"}

ByGroup == Tree /\ config.method # "uid"

\* The filters "dapo", "std" and "mean" judge groups: they keep all rows of a
\* group or none, the rows added as padding included.
WholeGroups ==
  Filtered /\ ByGroup =>
    \A i, j \in DOMAIN rows :
      Uid(rows[i]) = Uid(rows[j]) => (i \in kept <=> j \in kept)

\* With "dapo" and a positive ratio, every group the actor is trained on has
\* two different rewards, so no advantage is computed from a flat group, and
\* every group with two different rewards is trained on.
SignalRemains ==
  Filtered /\ Tree /\ config.method = "dapo" /\ config.percent > 0 =>
    \A i \in DOMAIN rows :
      i \in kept <=> \E j \in DOMAIN rows : /\ Uid(rows[j]) = Uid(rows[i])
                                            /\ rows[j].reward # rows[i].reward

\* Only "dapo" can filter out everything; filter_method "uid" thins the groups
\* out but empties none; "no_tree" keeps a row of every problem.
FilterLeavesRows ==
  Filtered /\ rows # <<>> /\ ~(Tree /\ config.method = "dapo") =>
    /\ kept # {}
    /\ ~ByGroup => \A i \in DOMAIN rows : \E j \in kept : Uid(rows[i]) = Uid(rows[j])

\* Each batch the actor is updated with can be split evenly over the workers,
\* after filters, the dropping of untrained agents and the LoRA split.
WorldDivides == \A b \in updates : b # <<>> /\ Len(b) % WorldSize = 0

\* The batches hold the rows of the trained agents that survived the filters,
\* all of them and nothing else; a LoRA batch holds one agent.
UpdatesAreTheKept ==
  pc = "updated" =>
    /\ {AsPadding(r) : r \in UNION {ToSet(b) : b \in updates}}
         = {AsPadding(rows[i]) : i \in Trained}
    /\ LoraDiffer => \A b \in updates : \A i, j \in DOMAIN b : b[i].agent = b[j].agent

=============================================================================
