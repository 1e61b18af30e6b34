# PettingLLMs in TLA+

PettingLLMs trains several LLM agents together with reinforcement learning
(AT-GRPO).  A training step asks an *execution engine* for rollouts of
multi-agent, multi-turn episodes.  The engine talks to LLM servers over HTTP and
runs generated programs in Ray workers.  The rows of the rollouts are padded,
grouped, filtered and turned into one update per model, or per LoRA adapter.

This directory holds TLA+ models of that program, the TLC configurations that
check them, and TLAPS proofs.  All paths below are relative to the repository's
root; `E`, `T`, `G` and `R` stand for

| | |
|---|---|
| `E` | `pettingllms/trainer/multi_agents_execution_engine.py` |
| `T` | `pettingllms/trainer/multi_agents_ppo_trainer.py` |
| `G` | `pettingllms/trainer/async_generate.py` |
| `R` | `pettingllms/verl/ray_trainer.py` |

Contents: 1 inventory, 2 modules and plan, 3 how the modules correspond to the
code, 4 runs and bounds, 5 fairness, 6 proofs, 7 divergences found, 8 what is
only model-checked and what is not modelled.

## 1. Inventory

### 1.1 How the parts interact

```
 train.py ──> MultiAgentsPPOTrainer.fit ──────────────────────────────┐
                │ wake_up / sleep        │ update, save, load         │
                ▼                        ▼                            │
        vLLM engine per model     RayPPOTrainer per model ──> disk    │
                ▲                        ▲                            │
                │ HTTP                   │ batch per policy           │
        async_generate (LLM client)      │                            │
                ▲                        │                            │
                │ coroutine per request  │                            │
        MultiAgentsExecutionEngine ──────┘ <──── one asyncio.run ─────┘
                │ step, calculate_reward             per step
                ▼
        agents + environment of a task ──> Ray worker ──> subprocess
```

Everything in the driver process is one thread: coroutines interleave only at
`await`.  Ray workers and servers are other processes.  A training step runs in
an event loop of its own (`asyncio.run`), and so does a validation.

### 1.2 Components

For each: its state; its operations; what is hard; what makes it correct.

**Execution engine, tree mode** (`E`, `generate_env_idx_rollout`).  State:
`self.envs`, the local `envs_list`, the agents' actions, the trajectory.
Operations: generate for every agent and sibling, step every agent on every
sibling, then per agent score, append rows and deep-copy the best sibling over
the others.  Hard: two lists that are the same objects only until the first
`deepcopy`; failures of single generations or steps; awaits between reading and
writing.  Correct when each row's reward belongs to its answer, the best state is
carried on, no answer is lost, and the group ends.

**Execution engine, single mode** (`E`, `generate_single_rollout`).  State: one
environment, one set of agents, the trajectory.  Operations: generate, step under
`wait_for`, reward.  Hard: a step cancelled half way.  Correct when an episode
ends for the reason its environment gives, and rewards come from the program
they stand next to.

**Execution engine, fan-out** (`E`, `generate_multiple_rollouts_concurrent`).
State: task table, per-policy batch.  Operation: collect the tasks as they
complete.  Hard: any completion order, failed tasks.  Correct when every answer is
in the batch once.

**LLM client** (`G`).  State: module globals `_shared_session`,
`_llm_request_semaphore`, `_current_loop_id`; per request an attempt counter.
Operations: lazy creation and renewal of the globals, acquire, post, release,
retry with back-off, fallback row.  Hard: globals survive their event loop; a
deadline can cancel a request at every wait.  Correct when permits are conserved,
nothing uses an object of an old loop, and every request ends.

**Code environment** (`multi_agent_env/code`).  State: program, generated tests,
match ratios, `done`, `success`.  Operations: both agents'
`update_from_model`, `step`, `calculate_reward`.  Hard: the program is
stored before, its score after an await; an evaluation that fails in its workers is a
wrong program to the reward.

**Trainer: batch preparation and update** (`T`, `_pad_dataproto_to_world_size`,
`_assign_consistent_uids`, `_update_parameters`).  State: the policy's batch and
its uids.  Operations: pad, group, filter, drop untrained agents, pad again, split
by LoRA agent.  Hard: groups are of any size when answers are missing, padding repeats
rows of some of them, and a filter may leave nothing.  Correct when groups answer one problem, filters remove what
they are for, batches divide over the workers, and nothing is lost or trained
twice.

**Trainer: loop and checkpoints** (`T` `fit`, `_validate`,
`_save_best_checkpoint`; `R` `_save_checkpoint`, `_load_checkpoint`).  State: step
counters of the loop and of every trainer, weights, best rate, checkpoint folders,
tracker file.  Hard: crash at any statement, several models, resume modes.
Correct when rollouts use current weights and a resume continues what was saved.

**Rollout engine sleep and wake** (`verl/verl/workers/rollout/vllm_rollout`).
State: `is_sleep`, the engine's weights.  A wake-up copies weights only after a
sleep.

**Math environment** (`multi_agent_env/math`).  State: the last answer of the
tool agent's program, the reasoning agent's last answer, `done`, `success`, both
agents' rewards.  Operations: both steps and rewards.  Hard: a program can raise or
be cut off, which leaves an older answer to compare with and an older reward to add
to.  Correct when an episode ends
by agreement and a turn pays what its answers earn.  The **math aggregation
environment** (`multi_agent_env/math_aggretion`) replaces the tool agent by a
second reasoning agent.

**Stateful games** (`multi_agent_env/stateful`, and with pictures
`stateful_vision`).  State: board, step count, `done`, reward.  Operations: `step`
with a list of actions, by the tool agent on a deep copy and by the plan agent on
the board.  Hard: illegal moves in the middle of a list, a shaping of the rewards that
should not change which way is best, a step limit that is counted as success.  Correct
when a board stays playable, an episode ends at the goal or the limit, and the same
moves are paid the same.

**Code and script workers** (`code/code_worker.py`, `math/math_worker.py`).
State: a subprocess, its directory, the call that waits for it.  Operations: start,
wait with a timeout, kill, clean up; poll.  Hard: every waiting coroutine blocks the
loop while it polls; a caller that has given up does not stop the run; a kill can come
after the exit.  Correct when calls return in time and nothing is left behind.

**Generated multi-agent systems** (`multi_agents_execution_engine_autoevol.py`,
`multi_agent_env/autoevol`).  State: the directory
`tmp_auto_mas/rollout_<index>` with the program and `traj.json`, and a Ray actor per
rollout.  Operations: generate a design, run it, read the conversations it has
saved, pay.  Hard: the directory is the same in every batch and never emptied, and a
program may outlive its step.  Correct when a rollout trains on its own
conversations.  Inside the program a **conversation tracer** matches messages with
token ids by position.

**Server manager and completion scheduler** (`pettingllms/verl/async_server.py`).
State: heap of server loads, LRU cache of sticky addresses.  Its entry points are
not called by the rollouts of this program.

**Search, Verilog environments.**  State: text of search results; outcome of a
simulator.

**Graph execution engine** — cannot be imported at this commit, and with it the
**framework patches** (`utils/openai.py`).  **Reward shaping** (`core_algo.py`) —
formulas.  **Start-up** (`train.py`), **evaluation**, **supervised fine-tuning**,
**data, logging, configuration**, and **verl**, the vendored training library.

`PROJECT.json` lists all of them with their status, and every hazard at its line.

## 2. Modules and plan

### 2.1 What exists

| module | models | theorems in |
|---|---|---|
| `TreeRollout` | one tree-sampled group | `TreeRolloutProofs` |
| `Semaphore` | what `asyncio.Semaphore` promises (abstract) | |
| `LlmClient` | requests, permits, retries, event loops; implements `Semaphore` | `LlmClientProofs` |
| `CodeRollout` | one coding episode in single mode | `CodeRolloutProofs` |
| `MathRollout` | one math episode in single mode | `MathRolloutProofs` |
| `GameEpisode` | one episode of the path game or Sokoban, text or pictures | `GameEpisodeProofs` |
| `ScriptWorker` | calls that run programs in a Ray actor | `ScriptWorkerProofs` |
| `AutoEvolTask` | generated programs of one rollout index over several batches | `ScriptWorkerProofs` |
| `TrainingBatch` | fan-out, padding, grouping, filters, update batches | `TrainingBatchProofs` |
| `OnPolicyLoop` | what a training loop promises: learn from your own rollouts (abstract) | |
| `TrainerLoop` | fit, engines, checkpoints, crash and restart; implements `OnPolicyLoop` | `TrainerLoopProofs` |

`MC<module>` gives the constants of the runs their values; `ScriptWorker` and
`AutoEvolTask` need no definitions for that.  The modules follow the order in which
a training step depends on them: what a rollout produces, how it gets its
answers and runs its programs, what becomes of the rows, and the loop around it.
Each module abstracts its neighbours to what it sees of them.  The rollouts see a
request as an answer or a failure, and `LlmClient` shows that it is one of the two.
They see a program as its outcome or a step that times out, and `ScriptWorker`
shows when a call comes back.  `TrainingBatch` sees a rollout as any sequence of rows
that nested loops over turns, agents and samples may leave.  `TrainerLoop` sees an
update as one more update of the weights.

### 2.2 What comes next

1. A composition of `TreeRollout` with `TrainingBatch`: which groups of a tree
   rollout survive the filters at all.
2. When they can be run: the puzzles (Blocksworld, Sudoku, eight queens), the math
   aggregation environment, the completion scheduler.

## 3. From the code to the modules

### 3.1 TreeRollout

`envs` is `self.envs`, the objects that `step` changes (`E:748`); `views` is the
local `envs_list`, which prompts, rewards and the test for `done` read.  They are
the same objects (`aliased`) until the first selection replaces `envs_list` by
deep copies (`E:823`).  `results` is `all_agents_results` with one entry per agent
and sibling; a failed generation has no row but is still stepped, as an empty
answer.  Actions: `Generate`/`GenerateFails` (one coroutine of the gather, in
parallel or agent by agent), `AllGenerated` (the gather returns), `Step`,
`StepTimesOut`, `StepRaises` (one iteration of the step loop), `ScoreAndSelect`
(reward, rows, selection and the exits of both loops: no `await` in between).
A request that fails inside the client comes back as a row with an end-of-text answer
(`G:495`) and is an answer here; `GenerateFails` is a timeout or an exception of the
engine's own.  A failed sibling takes part in the selection and may win it.

`pays` is `agent_reward`, which the agents carry with them: the step of a sibling's own
agent may set it to one of `Pays` or leave it (`SetPay`), the deep copies spread it
(`Broadcast`), and the reward of the agents in `Adding` is `Score` *plus* it, as in the
math tool agent (`math/agents/tool_agent.py:138`) and the agents of the games
(`stateful/agents/plan_agent.py:96`, `tool_agent.py:136`).  The others overwrite it.
Abstracted: an environment remembers, per agent, which output it evaluated
last and how good that was; `Score` is any integer function of it.

### 3.2 LlmClient

`round` counts event loops; `loopId` is the address that `id(loop)` returns, which
another loop may have had: `StartLoop` takes any address but that of a loop the
live session refers to.  `session`, `sem`, `knownId` are the three globals.
`Submit` is the code up to the first wait, `Retry` that of a later
attempt, `Acquire` the semaphore handing a permit to the head of its queue,
`Respond`, `AttemptFails`, `Cancel` the ways out of a request.  `Deadline` is
TRUE for tree mode, whose `generate_with_timeout` can cancel at any wait.

`ActsAsOneSemaphore` is the specification of `Semaphore` with the queue for
`line` and the requests on the wire for `holding`.  The code makes a succession of
semaphores, one per event loop; the property says that requests cannot tell the
succession from a single one.

### 3.3 CodeRollout

`env` is the one `CodeEnv` of a rollout.  A step is split where it awaits:
`CodeStep` and `SuiteStep` are steps that complete, `StepTimesOut` leaves what was
written before the await.  `match` is the ratio against the ground truth tests
counted in tests.  An evaluation (`Evaluated`) is clean and counts what the program
passes, or is short of it: a test whose worker fails or takes too long counts as not
passed (`code_utils.py:271`), and an exception of the whole is a ratio of 0
(`code_agent.py:150`).  In the same way `SuiteStep` may miss an agreement.  `RewardAll`
appends a row for each reply that has one; a row whose concatenation raises is lost
without a word (`E:438`), unless it is the first of the trajectory.  Two histories
serve the properties: `verdict` says how the coder's step of the turn ended, `played`
keeps the program and the verdict of each turn.  The order of agents is that of the
shipped configurations, coder first.

### 3.4 MathRollout

`env.code` is `code_generated_solution` (`Error` after an exception), `env.reason`
the reasoning agent's answer; `pay` is `agent_reward`.  `verify` of math_verify is
any relation between a gold and a target answer, symmetric or not.  Both agents act in
every turn, a failed generation with an empty answer: `convert_prompt_to_dpr` never
returns `None`, so the branches that leave an agent or a rollout out are not reached, here,
in the games and in the generated systems.  `ToolIsLate` is `wait_for` cancelling the step while the program runs; the
reasoning agent's step awaits nothing.  `ReasonerRaises` is the
exception that loses the rollout; the tool agent catches its own.  `late`, `lates`
and `faults` are ghosts.

### 3.5 GameEpisode

`board` is `env.state`, `trial` the tool agent's deep copy.  A list of moves is played
by the repetition of `Try` or `Move`, between a start (`ToolStarts`, `PlanStarts`)
and an end; the code does this without an await, and no other action can come in
between.  `Played` is `step_single` of both games, with potentials, prices, win and
failure; prices are in thousandths, and the games with and without pictures
have the same ones.  `PlanMixes` and
`ToolSaysNothing` are the answers that are no list of moves.  `Stepped` has the
snapshot after each step: only the states with pictures accept the argument the
engine passes (7).  `Levels` are any boards the generators may produce; that a
level is solvable is not assumed.

### 3.6 ScriptWorker

A tick is one blocking poll of 0.1 s.  `ready` is the event loop's queue of the
coroutines of this module, `age` the polls since submission.  `Submit`, `Answer`,
`Poll`, `IsCancelled` are what the coroutine does when it has its turn,
`StepTimesOut` the engine's `wait_for`.  `Begin`, `BeginFails`, `ProcessExits`,
`Collect`, `ScriptTimesOut` are `_worker_docker` in the actor, where the last one
includes the three attempts to kill and the removal of the directory.

### 3.7 AutoEvolTask

The rollouts of one index, one per batch, which share a directory and nothing else.
`Generate`, `Send`, `Hear`, `GiveUp`, `NextBatch` are `generate_single_rollout` and
the loop around it; `Start`, `Exit`, `Fail` the actor's run of the program; `Open`,
`Flush`, `Save`, `SaveFails` the tracer's `save_all` at the program's end.  `file` holds
the programs that have lines in `traj.json`; a reader meets all of them, or, when the
file was cut off, mixed or is being written, some.  What a program says, and with it
the reward read from its output, is left out.  The specification is `TaskSpec`, with names
that differ from those of `ScriptWorker`, so that one module can extend both.

### 3.8 TrainingBatch

The rows of *one* policy.  `TaskCompletes`/`TaskFails` in any order are
`as_completed`; `PadToWorldSize`, `AssignUids`, `Update`/`SkipUpdate`/`UpdateRaises`
are the calls of `fit`.  A uid is a fresh uuid per grouping key, so the key itself
stands for it.  `Selected` is `select_idxs` with a mask: the rows of a set of indices,
in their order.  The four filters are translated as operators on sets of indices,
with scores as fractions: `Lowest` is the quota of a stable sort, `NoSignal` is
dapo, `Outliers` the filter by distance from the mean.  The configuration of the
filter is chosen when it is first read, which makes one run cover all.  `copy` is a
ghost that tells rows added as padding.

### 3.9 TrainerLoop

`pc` is the statement `fit` is at.  Weights are a model's name and the number of
updates seen; with LoRA the adapters count as the weights.  `StartRollout` is the
head of the iteration (choice of adapters, `wake_up`), `EndRollout` the `sleep`,
`Update` the update of all trainers (it happens or the process dies),
`StartValidation`/`EndValidation` is `_validate`, `BeginSave`/`EndSave` one save
job: the folder is made or reused, then its files and the tracker written.
`LoadCheckpoint`, `LoadFails`, `StartFromScratch` are the resume modes.  `Crash`
is possible at every statement, `Restart` begins with fresh memory and the old
disk.  All saves of a behaviour fall on one calendar day, whose date is part of
the path.

`LearnsOnPolicy` is the specification of `OnPolicyLoop` with the trainers' weights for
`policy`, the engines' between the start of a rollout and its update for the policy
behind the waiting `batch`, and the weights of complete folders for `backups`.

## 4. Runs and bounds

Run one with `tlc -config <cfg> <module>`.  Each cfg begins with what it sets up.

### 4.1 Runs that hold

| cfg (module, where it has another name) | instance | shows |
|---|---|---|
| `MCTreeRollout` | 2 siblings, 2 agents, the second adding to its `agent_reward`, 2 turns, qualities 0 and 1, parallel, greedy, 1 failure | all rows of a later agent in a turn get one reward, and after the first choice all rows of an agent that only reads its environment do, over all turns (`RewardsCollapse`); a group stops right after its first choice or at the very end (`StopsFirstOrLast`); no row of a turn has more than the `agent_reward` the siblings are left with (`BestIsKept`); rows are exactly the answers (`RowsAreTheAnswers`); the group ends (`Terminates`) |
| `MCLlmClient` | 3 requests, 2 permits, 2 attempts, deadlines, 2 addresses, 2 loops | permits are conserved, nothing crosses loops, all semaphores act as one, every request is settled |
| `MCCodeRollout` | 3 turns, a right and a half right program, a fair and a biased suite, 2 failures | what ends an episode (`StopsOnAgreement`); which program, of which turn, a reward was earned by and when it is less than that program is worth (`RewardSource`); the same of the `success` that validation counts (`SuccessSource`); termination |
| `MCMathRollout` | 4 turns, 3 answers and none, an asymmetric `verify`, 3 failures | an episode ends exactly on agreement (`StopsOnAgreement`); a turn pays what its answers earn, but for cut-off steps (`PayIsEarned`) |
| `MCGameEpisode` | a path level with a wall, 2 Sokoban rooms, 2 turns, lists of up to 2 moves, 1 late tool | boards stay playable; an episode ends at goal or limit; agents that play the same moves are paid the same |
| `MCScriptWorker` (`ScriptWorker`) | 3 calls, a timeout of 1 poll | a call is over at most one poll per call after its timeout; no program is left behind, and a directory only with an error; every call comes back |
| `MCAutoEvolTask` (`AutoEvolTask`) | 3 batches | a rollout trains on its own conversations unless a step of its index was given up before; strangers' are trained on only then or when its program has saved none; batches end |
| `MCBatchTree` (`MCTrainingBatch`) | 2 problems of 2 samples, 3 LoRA agents, the last untrained, 2 workers, all filters, ratios 0 and 50 % | answers are collected once; group filters keep groups whole; dapo leaves signal; every update divides over the workers and holds the surviving rows of one agent |
| `MCBatchNoTree` (`MCTrainingBatch`) | 1 problem, 3 rollouts, 2 turns | no filter leaves nothing to train on, and the last-turn filter leaves every problem a row |
| `MCTrainerFull` (`MCTrainerLoop`) | 2 models, 4 steps, validation after each, 3 rates, resume from any folder, 2 restarts | rollouts are on-policy, engines sleep during training, the best model is on disk; up to the second resume no step is skipped and one repeated per resume at most (`NoStepIsSkipped`); each update learns once, from the policy it replaces, and only complete saves come back (`LearnsOnPolicy`) |

The type invariants of `LlmClient`, `CodeRollout`, `MathRollout`, `ScriptWorker`,
`TrainerLoop` and `GameEpisode` are left to their theorems (section 6) and not repeated
in the runs; so are `InFlightBound` and `TrainedAdaptersGenerate`.

Why the bounds are enough.  *Tree*: two siblings make a best and another one, two
agents a first and a later one, two turns a first and a later one; one pay that a step may
leave or not makes the siblings of the adding agent differ; the theorems
hold for any number.  One failure can hit any generation or step.  *Client*: three
requests and two permits give a waiter behind a full wire; two attempts a retry
and a last one; two loops and two addresses the renewal, three loops could only
repeat an address, which the theorems cover.  Cancellations are possible but not
fair, so `EventuallySettled` does not lean on them.  *Code*: the half right program
passes one of two tests and the biased suite, so agreement and correctness come
apart; the third turn lets an old outcome meet a new program twice, and two failures a
short evaluation be carried over a cancelled step.  *Math*: the
same, with an answer `verify` accepts in one direction only; three failures in four
turns make a carried reward grow three times.  *Games*: lists of two moves let a box be
pushed and left, a wall be run into in the middle, and the goal or the limit be
reached before a list ends; the second turn starts from a board the first
one has changed; longer lists are covered by the theorems.  *Worker*: three calls that poll in turn are what delays each; a longer
timeout only adds rounds (`Overshoot` is proved for all).  *Generated systems*:
three batches are an earlier program that outlives its step, one that starts over
it, and the rollout that reads.  *Batch*: a
task leaves up to two rows (`MaxRows`) in any of six places, so groups have up to
four rows, some uids are missing, row counts are odd or even, and an agent's share
may have to be padded once more.  *Trainer*: four steps hold several saves, a crash
between or in them and a resume from each; rates rise, stay and fall.  For one model
`NoStepIsSkipped` is a theorem, with any number of resumes.

Six runs do not look for deadlock, because the system stops.  In the trainer `fit`
ends, and the bound on restarts leaves the process down; game rollouts are over or
lost; calls have all returned; the last batch is collected and its programs have
ended.  `Stopped`, `Done`, `Returned`, `Ended` are the
stuttering of the finished state in the other modules.

### 4.2 Runs that find a disagreement

| cfg | property | what happens |
|---|---|---|
| `MCTrainerAutoResumes` (`MCTrainerLoop`) | `AutoResumes` | `resume_mode: auto` never finds a checkpoint |
| `MCGameShaping` (`MCGameEpisode`) | `ShapingIsNeutral` | a detour beside the goal earns more than the shortest way there, although it is worth less without the shaping |

## 5. Fairness

`TreeRollout`: the event loop resumes every ready coroutine, and
`generate_timeout` and `step_timeout` bound every await, so generations (`WF` on
each), the gather and the loops go on.  No fairness on failures: they need
not happen.  `CodeRollout`: single mode has no deadline around a generation, so
its fairness is on "answered or failed" together, which the client
guarantees, and on "the step completes or is cancelled".  `LlmClient`: `WF` on the
submission, on the expiry of a back-off, on the hand-over of a permit to the
waiter at the head of the FIFO queue of `asyncio.Semaphore`, and on "answered or
failed", since aiohttp's `ClientTimeout` ends a request on the wire.  No fairness on
`Cancel`.  `ScriptWorker`: `WF` on the turn of each coroutine, since the event loop
runs what is ready; the actor and the program may hang for ever, and
`EveryCallReturns` holds all the same.  `AutoEvolTask`: `WF` on the engine's
steps, of which giving up is one (the timer of `wait_for` and the loop run); nothing
is asked of generated programs.  `TrainingBatch`, `TrainerLoop`, `MathRollout` and
`GameEpisode` claim safety only: a training step may fail at any point and a process
may die; a rollout adds nothing to what `CodeRollout` shows of the same loop.

## 6. Proofs

`tlapm <module>Proofs.tla` checks them; nothing is left without a proof.  They hold for
every value of the constants that satisfies the named assumptions of the
modules; TLC evaluates these assumptions on every instance.

Every safety property that a run of 4.1 checks, the two refinements included, is a
theorem: invariants, action properties and type invariants (`NoStepIsSkipped` for one
model).

**TreeRollout** — `TypeCorrect`, `RewardsAlwaysCollapse`, `StopsAtFirstOrLastChoice`,
`BestIsAlwaysKept`, `RowsAreAlwaysTheAnswers`.
Assumed of `Score` and `Pays` only that they are integers.  `RewardsCollapse` is not
inductive: the next row is scored on `views` and `pays`, so the invariant has to say what
they are.  `IInv` adds `AliasInv` (the lists are aliased only up to the first
selection), `UniformInv` (once not aliased all views are equal), `DoneInv`
(an unaliased view that is not done stays so, as no step reaches it), `PaysInv`
(between two selections of a turn the siblings' pays are equal: no step falls in
between) and `RewardInv` (every row but a first choice of an agent that only reads has
the score of *the* view).  A later selection replaces equal views by equal views, so
these rewards cannot move again; those of the adding agents can, by the next turn's
steps, which is why the first half of the property speaks of one turn and leaves out
its first agent.  `CollectedInv` says which rows of a turn there are while its agents are
scored; `CollapseSelected` and `BestSelected` use it to know that a selection adds all
rows of its agent and turn.

**LlmClient** — `TypeCorrect`, `PermitsAreConserved`, `InFlightBounded`,
`NothingCrossesLoops`, `ImplementsSemaphore`, `RetriesAndQueue`.  Permits are counted against
`Cardinality(Sending)`; three lemmas say how one change of status moves that
count.  `LoopInv` is the heart: the session of a loop keeps its address
from being given to another loop, so a known address that equals the current one
means that the globals are those of the current loop.  `HoldInv` says that those
who send hold a permit of the current semaphore, so a renewal never strands one.
The refinement maps every step to one of `Semaphore` or to a stutter: `WaitStep`,
`EnterStep`, `LeaveStep` and `CancelStep` are the four kinds, `NextIsSemStep` puts
them together.  It needs `RetriesAndQueue` (the queue is those who wait, once each) to
know that who enters the queue was not in it, and `InFlightBounded` for `Enter`.

**CodeRollout** — `TypeCorrect`, `EndsByAgreement`, `RewardsHaveASource`,
`SuccessHasASource`.
`PhaseInv` and `ReplyInv` tie the position in the turn to the replies already
there; `DoneInv` says that once `env.done` holds nothing but the rewards of that turn
follows, so program and suite cannot change under it.
`SourceInv` follows the ratio: after the coder's step it is that of this turn's
evaluation, clean or short; before it, and after a step that was cut off, it is what
the last turn not cut off has left (`MeasuredBy`), which is on record in `played`.
`SourcePlayed` carries it over the end of a turn, whose record is added then,
`MeasuredStays` says that later records do not change what earlier rows
were paid for, and `RowsInv` that rows belong to turns on record.

**MathRollout** — `EndsByAgreement`, `PaysWhatIsEarned`, and the type invariant.
`DoneInv` says that `env.done` holds only from the agreeing answer to the end of that
turn, so the two answers are still the ones that agreed; `PayInv` follows the pay
through the phases of a turn, with one more for each late step before it.

**GameEpisode** — `TypeCorrect`, `BoardsStayPlayable`, `EndsInTime`,
`SameMovesArePaidTheSame`, for all levels, any number of boxes and lists of any length.  `MoveKeepsPlayable` is the
lemma on one move: what is pushed was free, so no two boxes meet and none is lost.
`PhaseInv` ties the position in the turn to `done`.
`SameMovesSamePay` compares two plays that are over: `PayInv` says that each
is a chain of boards (`Leads`), one `Played` from the other along the list, and
`SameLeads` that two chains along one list from one board end in the same board.  The
type invariant needs that the distances summed over the boxes are numbers (`SumType`).

**ScriptWorker** — `TypeCorrect`, `Overshoot`, `NoLeftovers`.  `AgeInv` bounds the
age of a waiting call by the timeout plus its position in the queue, since
each poll ages all but moves all one place forward; `QueueInv` says that the queue
holds exactly the calls that are due or wait, once each, and `ActorInv` which states
of a run, its process and its directory go together.

**AutoEvolTask** (in `ScriptWorkerProofs`, which extends both modules) —
`TasksTypeCorrect`, `RowsAreAlwaysOwn`, `StrangersAlwaysNeedSilence`, for any number of
batches.  `PhaseInv` says how the state of a step and that of its program go together,
and that batches behind the current one are over; `FileInv` that as long as no
step was given up the file is the current program's alone from its opening on, because
all earlier programs are through.

**TrainingBatch** — `TypeCorrect`, `RowsAreCollectedOnce`, `UpdatesDivide`,
`UpdatesHoldTheKept`, `FiltersLeaveRows`, `GroupsStayWhole`, `OnlySignalRemains`.
`CollectInv` says that before the padding each row is of a completed task and no two
share a place; `PaddedRows` says what padding leaves at each index, whatever the length:
the rows, and after them the rows again from the first on, as padding.  `SelectedRows`
says the same of `Selected`, by ranks (`Ranks`).  `UpdatesInv` then adds that each
batch is aligned and what they hold together.  `FilterLeavesRows` needs one survivor per
filter: the last row of an order that a quota below 100 % cannot reach
(`LastOfOrder`, `LastIsOutsideQuota`), a row not further from the mean than the outlier bound
(`SomeIsNoOutlier`), a row that is not among the lowest (`SomeIsNotLowest`), where
scores are fractions compared by cross-multiplication (`FractionOrder`).  `KeptInv` says
that what was kept is still the complement of what the filter of that batch removes:
nothing after the filter changes the rows.  Then two lemmas on unions of groups.
What is removed by "std" and "mean" is a union of groups whatever the scores, so
the arithmetic of the scores does not enter.

**TrainerLoop** — `TypeCorrect`, `RolloutsAreOnPolicy`, `EnginesGiveWay`,
`AdaptersOnceTrained`, `BestIsKept`, `StepsAreNotSkipped`, `ImplementsOnPolicyLoop`.  `OnPolicy` speaks of generating states only;
what makes it inductive is `AwakeInv`: from the load up to the end of a rollout
an engine that is awake already has its trainer's weights, so a wake-up
that does nothing is harmless, and one that copies is right.  `SaveInv` says that
what a save has still to write is what was measured, `LoraInv` that the step
counter tells whether the adapters were trained.  A restart is an initial state
with an arbitrary disk, which the lemma `StartsFresh` covers once for both.
`StepsAreNotSkipped` has the hypothesis `Trainers = {First}`, under which the property
speaks of every resume: with several models a folder may hold another one's weights, with
fewer updates, and up to the second resume only the run shows it.  Its invariant `CountInv` counts the updates in every complete folder: those of a
load were written by an earlier process, so one more restart has happened since, and
pays for the step that the resume repeats.  The refinement `ImplementsOnPolicyLoop` needs `MapInv`:
at an update the engines, asleep, still have the weights to be updated, and a
load meets those of a fresh process.  Both hold for any number of models.

Inductions over data are made where the claim can be put as one about a least number,
with the well-foundedness of the naturals (`LeastNumber`): sums over finite sets
(`SumType`), last elements of an order, chains of boards.  What an operator with
a recursive definition returns in general is not provable here, and the sorts and
filters of sequences cannot be unfolded by the provers; hence `Selected`, `Total` and
`Squares` of `TrainingBatch` are ranks and folds of functions.

## 7. Divergences

*Resume* (`MCTrainerAutoResumes`, with the quoted line in `PROJECT.json`): `R:806`
writes below a date, `R:860` looks beside it.

*Shaping* (`MCGameShaping`): a comment says of the shaping of the path game that it
"doesn't change optimal policy" (`stateful/env_state.py:1178`).  The discount acts on a
negative potential, so every legal step off the goal is paid more than the change of
distance.  One cell left of the goal, after one illegal move, going left, right and right
earns 2.00 and going right 1.99; without the shaping they are worth 0.97 and 0.99.

The next three are in the actions, and theorems or runs say what follows from them.

- *Tree mode*: after the first `deepcopy` (`E:823`) the engine
  steps one set of objects and scores another, so a turn's step does not reach the
  state that is carried on.  `RewardsAlwaysCollapse` and
  `StopsAtFirstOrLastChoice` show the consequence: the group of a later agent in a turn
  has one reward, whatever its members answered, and so no advantage; beyond the very first
  choice this is true of every agent whose reward only reads the environment (both code
  agents, the math reasoning agent).  The first agent of a later turn has different
  rewards only where its own step has set the `agent_reward` it adds to.  An
  episode that was not finished at once runs to its end.
- *Late steps and failed evaluations*: `code_agent.py:137` stores the program before the
  await that measures it, so after a cancelled step a program gets its predecessor's
  reward and success, and a worker's error makes a right program a wrong one
  (`RewardSource` and `SuccessSource` say exactly when).  In the math task the tool agent
  keeps its old reward and gets this turn's share on top (`tool_agent.py:138`,
  `PayIsEarned`).
- *Grouping*: in tree mode `env_idx` is divided by the sample number twice (`E:322`,
  `T:986`), so `sample_num` problems share a uid and a baseline.

The same models show more behaviour that a reader of the documents would not
expect.  It is in the actions, without a run of its own:

- the second agent of a turn generates before the first has acted, in sequential
  mode too (`AllGenerated` precedes `Step`; `E:698-725`);
- an episode of the code task ends on agreement with *generated* tests, which a
  half right program can reach without success (`SuiteStep`,
  `agents/unit_test_agent.py:172`);
- padding rows keep their response mask and are trained on (`AsPadding`, `T:939`);
- when dapo removes every group the update raises, because the early return stands
  under another condition (`UpdateRaises`, `T:289-294`);
- in no_tree mode the last-turn filter looks at problems, so a rollout that ended
  earlier than another one of its problem loses all its rows (`NotLastTurn`, `T:1019`);
- with several models a resume loads the first trainer only (`Readers`, `T:569`), and
  all models are saved to one folder, so the last one is what is on disk (`Target`,
  `R:806`; `BestIsOnDisk` speaks of the last job for that reason);
- two save jobs of one LoRA model rewrite the folder that the tracker already names, so a
  crash in the second leaves it partial (`BeginSave`, `R:846`);
- the best rate is not restored by a resume, so a worse model may replace the one it
  came from (`IsFresh`, `T:62`);
- the plan agent counts a game that ran into its step limit as a success
  (`PlanEnds`, `stateful/agents/plan_agent.py:89`);
- every text game rollout is lost after its first step: the engine calls
  `to_dict_compact(agent_name=...)` (`E:401`), which only the states with pictures
  accept (`Stepped`, `stateful/env_state.py:54`);
- a kill of a process that has just gone raises, which replaces the result and leaves
  the directory (`ScriptTimesOut`, `math_worker.py:185`);
- a concatenation that fails is swallowed, and an answer has no row (`MayLose`, `E:438`);
- a generated program without an answer is run all the same and loses the rollout
  (`Hear`, `multi_agents_execution_engine_autoevol.py:476`); the design's reward, which a
  comment there calls correctness of the task (`:473`), is whether the program ran;
- a rollout whose program saves no conversations trains on those an earlier batch left
  in the same file (`Loads`, `autoevol/gen_agent.py:480`), and a program that outlives its
  step can write them at any later time (`Open`).

Read in parts that are not modelled: the math aggregation environment has no class of the
name the registry imports (`MathTestEnvBatch` for `MathEnvBatch`); an aggregation that fails between two policies keeps the first one's rows
(`E:886`); `_update_parameters` returns its batch only when generations are dumped
(`T:530`); the heap of server loads is only ever incremented (`async_server.py:218`, not
called); the tracer matches messages and token ids by position (`message_tracker.py:287`).

## 8. Limits

Only model-checked: liveness (`Terminates` of both rollouts, `EventuallySettled`,
`EveryCallReturns`, `BatchesEnd`), which the prover does not reach, the violations of
`AutoResumes` and `ShapingIsNeutral`, and `NoStepIsSkipped` with two models.  It ends there with
the second resume: the first loads one trainer only, the others train from nothing and save
over its folders, so the next one may load a model with too few updates.  The theorems cover every
other safety property of the runs that hold.

Abstracted: prompts, tokens, tensors, advantages and losses; the text a model
answers with (a program is a member of a small set with a score); GPU
memory (an engine sleeps or does not); Ray (a call answers, fails or times out).
A partial checkpoint folder is taken never to load.

Not modelled, and why (1.2 and `PROJECT.json` have all): Blocksworld, Sudoku and eight
queens exist as text games only, whose rollouts are lost after the first step; the math
aggregation environment cannot be created from the registry; the completion scheduler is
not called; how `AutoEvolTask`'s reward is read from a program's output is text.  Left
out for good: search and Verilog environments (their state is the output of an
external service or simulator), the tracer's hooks (bookkeeping inside generated
programs), reward shaping (formulas without state), the graph
engine and its patches (cannot be imported), evaluation (one validation pass),
fine-tuning, logging and configuration, and verl beyond what the modules use.
