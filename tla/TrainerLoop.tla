----------------------------- MODULE TrainerLoop -----------------------------
(***************************************************************************)
(* The training loop: MultiAgentsPPOTrainer.fit drives one PPO trainer and *)
(* one vLLM engine per model through generate, update, validate and save.  *)
(* Trainer and engine share the GPUs, so an engine sleeps while its        *)
(* trainer works, and it takes over the trainer's weights only when it     *)
(* wakes from a sleep.  The process may die anywhere, a failed update or a *)
(* failed generation included, and be started again on the same disk.      *)
(*                                                                         *)
(* All saves of a behaviour happen on one day: the date in the checkpoint  *)
(* path is the same for all of them.                                       *)
(***************************************************************************)
EXTENDS Integers, Sequences

CONSTANTS
  Trainers,    \* keys of ppo_trainer_dict
  First,       \* the first of them in iteration order
  Jobs,        \* save_jobs: the trainers that are asked to save, in order
  TotalSteps,  \* config.training.total_training_steps
  ValFreq,     \* config.training.val_freq
  Rates,       \* success rates a validation can measure
  ResumeMode,  \* config.trainer.resume_mode
  LoraDiffer,  \* lora_differ_mode: one LoRA adapter per agent
  IfSave,      \* config.training.if_save
  MaxRestarts  \* bound: restarts explored in one behaviour

ASSUME TrainersAssumption ==
  /\ First \in Trainers
  /\ Jobs \in Seq(Trainers)
  /\ Len(Jobs) > 0
ASSUME NumbersAssumption ==
  /\ TotalSteps \in Nat \ {0}
  /\ ValFreq \in Nat \ {0}
  /\ Rates \subseteq Nat
  /\ MaxRestarts \in Nat
ASSUME ModesAssumption ==
  /\ ResumeMode \in {"disable", "auto", "resume_path"}
  /\ LoraDiffer \in BOOLEAN
  /\ IfSave \in BOOLEAN

LastJob == Jobs[Len(Jobs)]
Steps   == 0..TotalSteps

(***************************************************************************)
(* Weights are known by the model they belong to and the updates they have *)
(* seen.  A folder global_step_k holds one trainer's weights; an           *)
(* interrupted save leaves it partial.  rate is the measurement that led   *)
(* to the save.                                                            *)
(***************************************************************************)
Weights == [owner : Trainers, updates : Nat]
Folder  == [kind : {"none", "partial", "complete"}, weights : Weights, rate : Nat]

Base        == [t \in Trainers |-> [owner |-> t, updates |-> 0]]
NoFolder    == [kind |-> "none", weights |-> Base[First], rate |-> 0]
NothingBest == [rate |-> -1, weights |-> Base]

VARIABLES
  pc,        \* the statement fit is at
  step,      \* self.global_steps
  tstep,     \* trainer.global_steps, per trainer
  weights,   \* the weights each trainer holds
  engine,    \* the weights each vLLM engine generates with
  asleep,    \* is_sleep of each engine
  adapters,  \* engines whose LoRA adapters were synced at least once
  useLora,   \* use_lora_for_generation
  best,      \* best_success_rate and the weights it was measured with
  rate,      \* env_success_rate of the last validation
  job,       \* position in save_jobs
  disk,      \* the folders global_step_k
  latest,    \* latest_checkpointed_iteration.txt, -1 while there is none
  restarts   \* restarts so far, bounded by MaxRestarts

process == <<step, tstep, weights, engine, asleep, adapters, useLora, best, rate, job>>
storage == <<disk, latest>>
vars    == <<pc, process, storage, restarts>>

(***************************************************************************)
(* The memory of a new process.  Engines are built awake, with the base    *)
(* weights and placeholder adapters.                                       *)
(***************************************************************************)
IsFresh(stp, tstp, wts, eng, slp, adp, use, bst, rt, jb) ==
  /\ stp = 0
  /\ tstp = [t \in Trainers |-> 0]
  /\ wts = Base
  /\ eng = Base
  /\ slp = [t \in Trainers |-> FALSE]
  /\ adp = {}
  /\ use = FALSE
  /\ bst = NothingBest
  /\ rt = 0
  /\ jb = 1

Init ==
  /\ pc = "load"
  /\ IsFresh(step, tstep, weights, engine, asleep, adapters, useLora, best, rate, job)
  /\ disk = [k \in Steps |-> NoFolder]
  /\ latest = -1
  /\ restarts = 0

-----------------------------------------------------------------------------

(***************************************************************************)
(* _load_checkpoint.  "auto" looks under checkpoints/<experiment>, where   *)
(* _save_checkpoint, which puts the date in between, never writes; a       *)
(* resume path names any folder on disk, and fit leaves its loop after the *)
(* first trainer that loaded a step above 0.  A partial folder, or the     *)
(* adapters-only folder of a LoRA run, makes the load raise.               *)
(***************************************************************************)
Saved == {k \in Steps : disk[k].kind # "none"}

Readers(k) == IF k > 0 THEN {First} ELSE Trainers

StartFromScratch ==
  /\ pc = "load"
  /\ ResumeMode = "resume_path" => Saved = {}
  /\ pc' = "head"
  /\ UNCHANGED <<process, storage, restarts>>

\* mutant: the engines are not put to sleep before the load
LoadsAwake ==
  /\ pc = "load"
  /\ ResumeMode = "resume_path"
  /\ ~LoraDiffer
  /\ \E k \in Saved :
       /\ disk[k].kind = "complete"
       /\ step' = k
       /\ tstep' = [t \in Trainers |-> IF t \in Readers(k) THEN k ELSE tstep[t]]
       /\ weights' = [t \in Trainers |->
                        IF t \in Readers(k) THEN disk[k].weights ELSE weights[t]]
  /\ pc' = "head"
  /\ UNCHANGED <<engine, asleep, adapters, useLora, best, rate, job, storage, restarts>>

\* mutant: a folder that a crash has left partial is loaded too
LoadsPartial ==
  /\ pc = "load"
  /\ ResumeMode = "resume_path"
  /\ ~LoraDiffer
  /\ \E k \in Saved :
       /\ step' = k
       /\ tstep' = [t \in Trainers |-> IF t \in Readers(k) THEN k ELSE tstep[t]]
       /\ weights' = [t \in Trainers |->
                        IF t \in Readers(k) THEN disk[k].weights ELSE weights[t]]
       /\ asleep' = [t \in Trainers |-> asleep[t] \/ t \in Readers(k)]
  /\ pc' = "head"
  /\ UNCHANGED <<engine, adapters, useLora, best, rate, job, storage, restarts>>

LoadCheckpoint ==
  /\ pc = "load"
  /\ ResumeMode = "resume_path"
  /\ ~LoraDiffer
  /\ \E k \in Saved :
       /\ disk[k].kind = "complete"
       /\ step' = k
       /\ tstep' = [t \in Trainers |-> IF t \in Readers(k) THEN k ELSE tstep[t]]
       /\ weights' = [t \in Trainers |->
                        IF t \in Readers(k) THEN disk[k].weights ELSE weights[t]]
       /\ asleep' = [t \in Trainers |-> asleep[t] \/ t \in Readers(k)]
  /\ pc' = "head"
  /\ UNCHANGED <<engine, adapters, useLora, best, rate, job, storage, restarts>>

LoadFails ==
  /\ pc = "load"
  /\ ResumeMode = "resume_path"
  /\ \E k \in Saved : LoraDiffer \/ disk[k].kind = "partial"
  /\ pc' = "down"
  /\ UNCHANGED <<process, storage, restarts>>

(***************************************************************************)
(* wake_up and sleep of all engines.  Waking one that is awake does        *)
(* nothing; waking one that sleeps copies the trainer's weights into it.   *)
(***************************************************************************)
WakeEngines ==
  /\ engine' = [t \in Trainers |-> IF asleep[t] THEN weights[t] ELSE engine[t]]
  /\ adapters' = IF LoraDiffer THEN adapters \cup {t \in Trainers : asleep[t]} ELSE adapters
  /\ asleep' = [t \in Trainers |-> FALSE]

\* mutant: only the engine of the first model is put to sleep
SleepFirst == asleep' = [asleep EXCEPT ![First] = TRUE]

SleepEngines == asleep' = [t \in Trainers |-> TRUE]

(***************************************************************************)
(* The head of the loop: choose base model or adapters, wake the engines.  *)
(***************************************************************************)
AdapterSwitch ==
  IF step = 0 THEN FALSE ELSE LoraDiffer \/ useLora

StartRollout ==
  /\ pc = "head"
  /\ step < TotalSteps
  /\ WakeEngines
  /\ useLora' = AdapterSwitch
  /\ pc' = "generate"
  /\ UNCHANGED <<step, tstep, weights, best, rate, job, storage, restarts>>

EndRollout ==
  /\ pc = "generate"
  /\ SleepEngines
  /\ pc' = "update"
  /\ UNCHANGED <<step, tstep, weights, engine, adapters, useLora, best, rate, job,
                 storage, restarts>>

(***************************************************************************)
(* update_single_trainer for every trainer.  The switch to the adapters    *)
(* that follows it in the code is one StartRollout has made already.       *)
(***************************************************************************)
Validates == step % ValFreq = 0 /\ step # 0

Update ==
  /\ pc = "update"
  /\ weights' = [t \in Trainers |-> [weights[t] EXCEPT !.updates = @ + 1]]
  /\ useLora' = (useLora \/ (step = 1 /\ LoraDiffer))
  /\ pc' = IF Validates THEN "validate" ELSE "advance"
  /\ UNCHANGED <<step, tstep, engine, asleep, adapters, best, rate, job, storage, restarts>>

(***************************************************************************)
(* _validate: wake, play the validation problems, sleep, and save when the *)
(* rate is above the best this process has seen.                           *)
(***************************************************************************)
StartValidation ==
  /\ pc = "validate"
  /\ WakeEngines
  /\ pc' = "evaluate"
  /\ UNCHANGED <<step, tstep, weights, useLora, best, rate, job, storage, restarts>>

IsBest(r) == IfSave /\ r > best.rate

EndValidation ==
  /\ pc = "evaluate"
  /\ SleepEngines
  /\ \E r \in Rates :
       /\ rate' = r
       /\ best' = IF IsBest(r) THEN [rate |-> r, weights |-> engine] ELSE best
       /\ pc' = IF IsBest(r) THEN "save" ELSE "advance"
  /\ job' = 1
  /\ UNCHANGED <<step, tstep, weights, engine, adapters, useLora, storage, restarts>>

(***************************************************************************)
(* _save_checkpoint of one job: make or reuse the folder named after the   *)
(* trainer's own step, write its files, then the tracker.                  *)
(***************************************************************************)
Target == tstep[Jobs[job]]

BeginSave ==
  /\ pc = "save"
  /\ disk' = [disk EXCEPT ![Target].kind = "partial"]
  /\ pc' = "write"
  /\ UNCHANGED <<process, latest, restarts>>

Written == [kind |-> "complete", weights |-> weights[Jobs[job]], rate |-> rate]

\* mutant: the loop over the jobs returns after the first
SavesFirstOnly ==
  /\ pc = "write"
  /\ disk' = [disk EXCEPT ![Target] = Written]
  /\ latest' = Target
  /\ pc' = "advance"
  /\ UNCHANGED <<process, restarts>>

EndSave ==
  /\ pc = "write"
  /\ disk' = [disk EXCEPT ![Target] = Written]
  /\ latest' = Target
  /\ IF job = Len(Jobs) THEN pc' = "advance" /\ job' = job
                        ELSE pc' = "save" /\ job' = job + 1
  /\ UNCHANGED <<step, tstep, weights, engine, asleep, adapters, useLora, best, rate, restarts>>

\* mutant: the step after a validation is counted twice
CountsTwice ==
  /\ pc = "advance"
  /\ step' = step + (IF Validates THEN 2 ELSE 1)
  /\ tstep' = [t \in Trainers |-> step']
  /\ pc' = IF step' >= TotalSteps THEN "finished" ELSE "head"
  /\ UNCHANGED <<weights, engine, asleep, adapters, useLora, best, rate, job, storage,
                 restarts>>

(***************************************************************************)
(* The end of an iteration: all trainers are given the step of the loop.   *)
(***************************************************************************)
Advance ==
  /\ pc = "advance"
  /\ step' = step + 1
  /\ tstep' = [t \in Trainers |-> step + 1]
  /\ pc' = IF step + 1 >= TotalSteps THEN "finished" ELSE "head"
  /\ UNCHANGED <<weights, engine, asleep, adapters, useLora, best, rate, job, storage,
                 restarts>>

-----------------------------------------------------------------------------

(***************************************************************************)
(* The process dies: killed, or by an exception of a rollout, an update or *)
(* a save, which nothing in fit catches.  Only the disk survives.          *)
(***************************************************************************)
Crash ==
  /\ pc \notin {"finished", "down"}
  /\ pc' = "down"
  /\ UNCHANGED <<process, storage, restarts>>

Restart ==
  /\ pc = "down"
  /\ restarts < MaxRestarts
  /\ restarts' = restarts + 1
  /\ pc' = "load"
  /\ IsFresh(step', tstep', weights', engine', asleep', adapters', useLora', best', rate', job')
  /\ UNCHANGED storage

Next ==
  \/ StartFromScratch \/ LoadCheckpoint \/ LoadFails
  \/ StartRollout \/ EndRollout \/ Update
  \/ StartValidation \/ EndValidation \/ BeginSave \/ EndSave \/ Advance
  \/ Crash \/ Restart

Spec == Init /\ [][Next]_vars

-----------------------------------------------------------------------------
(* Properties *)

Generating == pc \in {"generate", "evaluate"}
Training   == pc \in {"update", "validate", "save", "write", "advance"}

\* The variables hold the values fit and its trainers can give them; no step,
\* of the loop or of a trainer, goes past the configured total.
TypeOK ==
  /\ pc \in {"load", "head", "generate", "update", "validate", "evaluate", "save",
             "write", "advance", "finished", "down"}
  /\ step \in Steps
  /\ tstep \in [Trainers -> Steps]
  /\ weights \in [Trainers -> Weights]
  /\ engine \in [Trainers -> Weights]
  /\ asleep \in [Trainers -> BOOLEAN]
  /\ adapters \subseteq Trainers
  /\ useLora \in BOOLEAN
  /\ best.rate \in Nat \cup {-1}
  /\ best.weights \in [Trainers -> Weights]
  /\ rate \in Nat
  /\ job \in DOMAIN Jobs
  /\ disk \in [Steps -> Folder]
  /\ latest \in Steps \cup {-1}
  /\ restarts \in 0..MaxRestarts

\* Strictly on-policy rollouts: whenever an engine generates, for training or
\* for validation, it does so with the weights its trainer holds, through
\* updates, checkpoint loads and restarts; a forgotten sleep would leave it on
\* old weights because wake_up of an awake engine does nothing.
OnPolicy == Generating => engine = weights

\* The loop seen from outside: an update learns from the one batch that the
\* weights it replaces have generated, nothing is learned twice or after a
\* crash, and a resume brings back weights as a complete save has left them.
LearnsFrom == IF pc \in {"generate", "update"} THEN {engine} ELSE {}

Backups == {disk[k].weights : k \in {j \in Steps : disk[j].kind = "complete"}}

Loop == INSTANCE OnPolicyLoop
          WITH Models <- Trainers, policy <- weights, batch <- LearnsFrom, backups <- Backups

LearnsOnPolicy == Loop!Spec

\* While trainers update, and while they write checkpoints, every engine has
\* given its GPU memory back: wake_up and sleep stay paired over both users.
EnginesSleepWhileTraining == Training => \A t \in Trainers : asleep[t]

\* With one adapter per agent the adapters answer exactly when they have been
\* trained, and never before their weights were copied into the engine.
TrainedAdaptersGenerate ==
  Generating /\ LoraDiffer =>
    \A t \in Trainers : IF weights[t].updates = 0 THEN ~useLora
                        ELSE useLora /\ t \in adapters

\* Outside of a save, the weights that measured the best rate of this process
\* are on disk: the last job's, as its engine generated with them.
BestIsOnDisk ==
  best.rate >= 0 /\ pc \notin {"save", "write", "down"} =>
    \E k \in Steps : disk[k] = [kind |-> "complete", weights |-> best.weights[LastJob],
                                rate |-> best.rate]

\* At the head of iteration n the weights of the first model have seen n
\* updates, and at most one more for every resume, which repeats the step of
\* its folder.  With several models this ends with the second resume: after the
\* first, the other models are untrained again and save over its folders.
NoStepIsSkipped ==
  pc = "head" /\ (Trainers = {First} \/ restarts <= 1) =>
    weights[First].updates \in step..(step + restarts)

\* ppo_trainer config: "auto: find the last ckpt to resume".
AutoResumes ==
  [][pc = "load" /\ pc' = "head" /\ ResumeMode = "auto" =>
       \A k \in Steps : disk[k].kind = "complete" => step' >= k]_vars

=============================================================================
