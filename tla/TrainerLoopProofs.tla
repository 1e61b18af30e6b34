------------------------- MODULE TrainerLoopProofs -------------------------
(***************************************************************************)
(* Theorems about TrainerLoop, for every set of models, every list of save *)
(* jobs and any number of steps, crashes and restarts.                     *)
(***************************************************************************)
EXTENDS TrainerLoop, TLAPS

(***************************************************************************)
(* An iteration that has begun is below the total.                         *)
(***************************************************************************)
StepInv == Generating \/ Training => step < TotalSteps

(***************************************************************************)
(* Until it is put to sleep an engine has its trainer's weights: this is   *)
(* what makes a wake-up that does nothing harmless.                        *)
(***************************************************************************)
AwakeInv ==
  pc \in {"load", "head", "generate", "evaluate"} =>
    \A t \in Trainers : ~asleep[t] => engine[t] = weights[t]

GeneratingInv == Generating => \A t \in Trainers : ~asleep[t]

(***************************************************************************)
(* What a save has still to write is the model that was measured.          *)
(***************************************************************************)
SaveInv ==
  pc \in {"save", "write"} =>
    /\ best.rate = rate
    /\ \A t \in Trainers : best.weights[t] = weights[t]

(***************************************************************************)
(* In a LoRA run the step tells whether the adapters were trained: they    *)
(* were from the first update on, and before the next wake-up every        *)
(* engine has slept.                                                       *)
(***************************************************************************)
LoraInv ==
  LoraDiffer =>
    /\ pc = "load" => step = 0
    /\ pc \in {"load", "head", "generate", "update"} =>
         \A t \in Trainers : weights[t].updates = 0 <=> step = 0
    /\ pc \in {"validate", "evaluate", "save", "write", "advance"} =>
         \A t \in Trainers : weights[t].updates > 0
    /\ pc \in {"validate", "evaluate"} => step # 0
    /\ pc \in {"generate", "update", "validate", "evaluate"} => (useLora <=> step # 0)
    /\ pc = "head" /\ step # 0 => \A t \in Trainers : asleep[t]
    /\ Generating /\ step # 0 => adapters = Trainers

IInv ==
  /\ TypeOK
  /\ StepInv
  /\ AwakeInv
  /\ GeneratingInv
  /\ EnginesSleepWhileTraining
  /\ SaveInv
  /\ BestIsOnDisk
  /\ LoraInv

-----------------------------------------------------------------------------

LEMMA BaseType == Base \in [Trainers -> Weights] /\ NoFolder \in Folder
BY TrainersAssumption DEF Base, NoFolder, Weights, Folder

LEMMA LastJobType == LastJob \in Trainers /\ Len(Jobs) \in DOMAIN Jobs
BY TrainersAssumption DEF LastJob

LEMMA JobType == \A j \in DOMAIN Jobs : Jobs[j] \in Trainers
BY TrainersAssumption

(***************************************************************************)
(* A process begins in the invariant, whatever earlier ones left on disk.  *)
(***************************************************************************)
Starting ==
  /\ pc = "load"
  /\ IsFresh(step, tstep, weights, engine, asleep, adapters, useLora, best, rate, job)
  /\ disk \in [Steps -> Folder]
  /\ latest \in Steps \cup {-1}
  /\ restarts \in 0..MaxRestarts

LEMMA StartsFresh == Starting => IInv
<1> SUFFICES ASSUME Starting PROVE IInv
  OBVIOUS
<1>1. TypeOK
  <2>1. 0 \in Steps /\ 1 \in DOMAIN Jobs
    BY TrainersAssumption, NumbersAssumption DEF Steps
  <2>2. best.rate \in Nat \cup {-1} /\ best.weights \in [Trainers -> Weights]
    BY BaseType DEF Starting, IsFresh, NothingBest
  <2>3. QED
    BY <2>1, <2>2, BaseType DEF TypeOK, Starting, IsFresh
<1>2. StepInv /\ AwakeInv /\ GeneratingInv /\ EnginesSleepWhileTraining /\ SaveInv
  BY DEF StepInv, AwakeInv, GeneratingInv, EnginesSleepWhileTraining, SaveInv, Starting,
         IsFresh, Generating, Training
<1>3. BestIsOnDisk
  BY DEF BestIsOnDisk, Starting, IsFresh, NothingBest
<1>4. LoraInv
  BY DEF LoraInv, Starting, IsFresh, Base, Generating
<1>5. QED
  BY <1>1, <1>2, <1>3, <1>4 DEF IInv

LEMMA StartFromScratchPreserves ==
  ASSUME IInv, StartFromScratch
  PROVE  IInv'
<1>0. TypeOK /\ StepInv
  BY DEF IInv
<1>1. TypeOK'
  BY <1>0 DEF TypeOK, StartFromScratch, process, storage
<1>2. StepInv' /\ AwakeInv' /\ GeneratingInv' /\ EnginesSleepWhileTraining'
  BY DEF IInv, StepInv, AwakeInv, GeneratingInv, EnginesSleepWhileTraining, Generating,
     Training, StartFromScratch, process
<1>3. SaveInv'
  BY DEF SaveInv, StartFromScratch
<1>4. BestIsOnDisk'
  BY DEF IInv, BestIsOnDisk, StartFromScratch, process, storage
<1>5. LoraInv'
  BY DEF IInv, LoraInv, StartFromScratch, process
<1>6. QED
  BY <1>1, <1>2, <1>3, <1>4, <1>5 DEF IInv

LEMMA LoadCheckpointPreserves ==
  ASSUME IInv, LoadCheckpoint
  PROVE  IInv'
<1>0. TypeOK /\ StepInv
  BY DEF IInv
<1>1. TypeOK'
  <2>1. PICK k \in Saved :
          /\ step' = k
          /\ tstep' = [t \in Trainers |-> IF t \in Readers(k) THEN k ELSE tstep[t]]
          /\ weights' = [t \in Trainers |->
                           IF t \in Readers(k) THEN disk[k].weights ELSE weights[t]]
          /\ asleep' = [t \in Trainers |-> asleep[t] \/ t \in Readers(k)]
    BY DEF LoadCheckpoint
  <2>2. k \in Steps /\ disk[k].weights \in Weights
    BY <1>0 DEF Saved, TypeOK, Folder
  <2>3. /\ step' \in Steps
        /\ tstep' \in [Trainers -> Steps]
        /\ weights' \in [Trainers -> Weights]
        /\ asleep' \in [Trainers -> BOOLEAN]
    BY <2>1, <2>2, <1>0 DEF TypeOK
  <2>4. QED
    BY <2>3, <1>0 DEF TypeOK, LoadCheckpoint, storage
<1>2. StepInv' /\ AwakeInv' /\ GeneratingInv' /\ EnginesSleepWhileTraining'
  BY DEF IInv, StepInv, AwakeInv, GeneratingInv, EnginesSleepWhileTraining, Generating,
     Training, LoadCheckpoint
<1>3. SaveInv'
  BY DEF SaveInv, LoadCheckpoint
<1>4. BestIsOnDisk'
  BY DEF IInv, BestIsOnDisk, LoadCheckpoint, storage
<1>5. LoraInv'
  BY DEF LoraInv, LoadCheckpoint
<1>6. QED
  BY <1>1, <1>2, <1>3, <1>4, <1>5 DEF IInv

LEMMA LoadFailsPreserves ==
  ASSUME IInv, LoadFails
  PROVE  IInv'
<1>0. TypeOK /\ StepInv
  BY DEF IInv
<1>1. TypeOK'
  BY <1>0 DEF TypeOK, LoadFails, process, storage
<1>2. StepInv' /\ AwakeInv' /\ GeneratingInv' /\ EnginesSleepWhileTraining'
  BY DEF StepInv, AwakeInv, GeneratingInv, EnginesSleepWhileTraining, Generating,
     Training, LoadFails
<1>3. SaveInv'
  BY DEF SaveInv, LoadFails
<1>4. BestIsOnDisk'
  BY DEF BestIsOnDisk, LoadFails
<1>5. LoraInv'
  BY DEF LoraInv, Generating, LoadFails
<1>6. QED
  BY <1>1, <1>2, <1>3, <1>4, <1>5 DEF IInv

LEMMA StartRolloutPreserves ==
  ASSUME IInv, StartRollout
  PROVE  IInv'
<1>0. TypeOK /\ StepInv
  BY DEF IInv
<1>1. TypeOK'
  BY <1>0 DEF TypeOK, StartRollout, storage, WakeEngines, AdapterSwitch
<1>2. StepInv' /\ AwakeInv' /\ GeneratingInv' /\ EnginesSleepWhileTraining'
  BY DEF IInv, StepInv, AwakeInv, GeneratingInv, EnginesSleepWhileTraining, Training,
     StartRollout, WakeEngines
<1>3. SaveInv'
  BY DEF SaveInv, StartRollout
<1>4. BestIsOnDisk'
  BY DEF IInv, BestIsOnDisk, StartRollout, storage
<1>5. LoraInv'
  BY DEF IInv, LoraInv, TypeOK, StartRollout, WakeEngines, AdapterSwitch
<1>6. QED
  BY <1>1, <1>2, <1>3, <1>4, <1>5 DEF IInv

LEMMA EndRolloutPreserves ==
  ASSUME IInv, EndRollout
  PROVE  IInv'
<1>0. TypeOK /\ StepInv
  BY DEF IInv
<1>1. TypeOK'
  BY <1>0 DEF TypeOK, EndRollout, storage, SleepEngines
<1>2. StepInv' /\ AwakeInv' /\ GeneratingInv' /\ EnginesSleepWhileTraining'
  BY DEF IInv, StepInv, AwakeInv, GeneratingInv, EnginesSleepWhileTraining, Generating,
     EndRollout, SleepEngines
<1>3. SaveInv'
  BY DEF SaveInv, EndRollout
<1>4. BestIsOnDisk'
  BY DEF IInv, BestIsOnDisk, EndRollout, storage
<1>5. LoraInv'
  BY DEF IInv, LoraInv, Generating, EndRollout
<1>6. QED
  BY <1>1, <1>2, <1>3, <1>4, <1>5 DEF IInv

LEMMA UpdatePreserves ==
  ASSUME IInv, Update
  PROVE  IInv'
<1>0. TypeOK /\ StepInv
  BY DEF IInv
<1>u. /\ weights' \in [Trainers -> Weights]
      /\ \A t \in Trainers : weights'[t].updates = weights[t].updates + 1
  <2>1. ASSUME NEW t \in Trainers
        PROVE  /\ [weights[t] EXCEPT !.updates = @ + 1] \in Weights
               /\ [weights[t] EXCEPT !.updates = @ + 1].updates = weights[t].updates + 1
    <3>1. weights[t] \in Weights
      BY <1>0 DEF TypeOK
    <3>2. weights[t].owner \in Trainers /\ weights[t].updates \in Nat
      BY <3>1 DEF Weights
    <3>3. [weights[t] EXCEPT !.updates = @ + 1]
            = [owner |-> weights[t].owner, updates |-> weights[t].updates + 1]
      BY <3>1 DEF Weights
    <3>4. QED
      BY <3>2, <3>3 DEF Weights
  <2>2. QED
    BY <2>1 DEF Update
<1>1. TypeOK'
  BY <1>0, <1>u DEF TypeOK, Update, storage
<1>2. StepInv' /\ AwakeInv' /\ GeneratingInv' /\ EnginesSleepWhileTraining'
  BY DEF IInv, StepInv, AwakeInv, GeneratingInv, EnginesSleepWhileTraining, Generating,
     Training, Update
<1>3. SaveInv'
  BY DEF SaveInv, Update
<1>4. BestIsOnDisk'
  BY DEF IInv, BestIsOnDisk, Update, storage
<1>5. LoraInv'
  <2>1. \A t \in Trainers : weights'[t].updates > 0
    BY <1>0, <1>u DEF TypeOK, Weights
  <2>2. pc' \in {"validate", "advance"} /\ (pc' = "validate" => step' # 0) /\ pc = "update"
    BY DEF Update, Validates
  <2>3. LoraDiffer => (useLora <=> step # 0)
    BY <2>2 DEF IInv, LoraInv
  <2>4. step = 1 => step # 0
    OBVIOUS
  <2>5. useLora' = (useLora \/ (step = 1 /\ LoraDiffer)) /\ step' = step
    BY DEF Update
  <2>6. LoraDiffer => (useLora' <=> step' # 0)
    BY <2>3, <2>4, <2>5
  <2>7. QED
    BY <2>1, <2>2, <2>6 DEF LoraInv, Generating
<1>6. QED
  BY <1>1, <1>2, <1>3, <1>4, <1>5 DEF IInv

LEMMA StartValidationPreserves ==
  ASSUME IInv, StartValidation
  PROVE  IInv'
<1>0. TypeOK /\ StepInv
  BY DEF IInv
<1>1. TypeOK'
  BY <1>0 DEF TypeOK, StartValidation, storage, WakeEngines
<1>2. StepInv' /\ AwakeInv' /\ GeneratingInv' /\ EnginesSleepWhileTraining'
  BY DEF IInv, StepInv, AwakeInv, GeneratingInv, EnginesSleepWhileTraining, Training,
     StartValidation, WakeEngines
<1>3. SaveInv'
  BY DEF SaveInv, StartValidation
<1>4. BestIsOnDisk'
  BY DEF IInv, BestIsOnDisk, StartValidation, storage
<1>5. LoraInv'
  BY DEF IInv, LoraInv, EnginesSleepWhileTraining, TypeOK, Training, StartValidation,
     WakeEngines
<1>6. QED
  BY <1>1, <1>2, <1>3, <1>4, <1>5 DEF IInv

LEMMA EndValidationPreserves ==
  ASSUME IInv, EndValidation
  PROVE  IInv'
<1>0. TypeOK /\ StepInv
  BY DEF IInv
<1>1. TypeOK'
  <2>1. PICK r \in Rates :
          /\ rate' = r
          /\ best' = IF IsBest(r) THEN [rate |-> r, weights |-> engine] ELSE best
          /\ pc' = IF IsBest(r) THEN "save" ELSE "advance"
    BY DEF EndValidation
  <2>2. rate' \in Nat /\ best'.rate \in Nat \cup {-1} /\ best'.weights \in [Trainers -> Weights]
    BY <2>1, <1>0, NumbersAssumption DEF TypeOK
  <2>3. 1 \in DOMAIN Jobs
    BY TrainersAssumption
  <2>4. asleep' \in [Trainers -> BOOLEAN]
    BY DEF EndValidation, SleepEngines
  <2>5. pc' \in {"save", "advance"}
    BY <2>1
  <2>6. QED
    BY <2>2, <2>3, <2>4, <2>5, <1>0 DEF TypeOK, EndValidation, storage
<1>2. StepInv' /\ AwakeInv' /\ GeneratingInv' /\ EnginesSleepWhileTraining'
  BY DEF IInv, StepInv, AwakeInv, GeneratingInv, EnginesSleepWhileTraining, Generating,
     EndValidation, SleepEngines
<1>3. SaveInv'
  BY DEF IInv, SaveInv, AwakeInv, GeneratingInv, Generating, EndValidation
<1>4. BestIsOnDisk'
  BY DEF IInv, BestIsOnDisk, EndValidation, storage
<1>5. LoraInv'
  BY DEF IInv, LoraInv, Generating, EndValidation
<1>6. QED
  BY <1>1, <1>2, <1>3, <1>4, <1>5 DEF IInv

LEMMA BeginSavePreserves ==
  ASSUME IInv, BeginSave
  PROVE  IInv'
<1>0. TypeOK /\ StepInv
  BY DEF IInv
<1>1. TypeOK'
  <2>1. Target \in Steps
    BY <1>0, JobType DEF TypeOK, Target
  <2>2. [disk[Target] EXCEPT !.kind = "partial"] \in Folder
    BY <2>1, <1>0 DEF TypeOK, Folder
  <2>3. disk' \in [Steps -> Folder]
    BY <2>2, <1>0 DEF TypeOK, BeginSave
  <2>4. QED
    BY <2>3, <1>0 DEF TypeOK, BeginSave, process
<1>2. StepInv' /\ AwakeInv' /\ GeneratingInv' /\ EnginesSleepWhileTraining'
  BY DEF IInv, StepInv, AwakeInv, GeneratingInv, EnginesSleepWhileTraining, Generating,
     Training, BeginSave, process
<1>3. SaveInv'
  BY DEF IInv, SaveInv, BeginSave, process
<1>4. BestIsOnDisk'
  BY DEF BestIsOnDisk, BeginSave
<1>5. LoraInv'
  BY DEF IInv, LoraInv, Generating, BeginSave, process
<1>6. QED
  BY <1>1, <1>2, <1>3, <1>4, <1>5 DEF IInv

LEMMA EndSavePreserves ==
  ASSUME IInv, EndSave
  PROVE  IInv'
<1>0. TypeOK /\ StepInv
  BY DEF IInv
<1>t. Target \in Steps
  BY <1>0, JobType DEF TypeOK, Target
<1>1. TypeOK'
  <2>1. Written \in Folder
    BY <1>0, JobType DEF TypeOK, Folder, Written
  <2>2. disk' \in [Steps -> Folder] /\ latest' \in Steps
    BY <1>t, <2>1, <1>0 DEF TypeOK, EndSave
  <2>3. job' \in DOMAIN Jobs /\ pc' \in {"save", "advance"}
    BY <1>0, TrainersAssumption DEF TypeOK, EndSave
  <2>4. QED
    BY <2>2, <2>3, <1>0 DEF TypeOK, EndSave
<1>2. StepInv' /\ AwakeInv' /\ GeneratingInv' /\ EnginesSleepWhileTraining'
  BY DEF IInv, StepInv, AwakeInv, GeneratingInv, EnginesSleepWhileTraining, Generating,
     Training, EndSave
<1>3. SaveInv'
  BY DEF IInv, SaveInv, EndSave
<1>4. BestIsOnDisk'
  <2>1. CASE job = Len(Jobs)
    <3>1. disk'[Target] = Written
      BY <1>t, <1>0 DEF TypeOK, EndSave
    <3>2. /\ best'.rate = rate
          /\ best'.weights[LastJob] = weights[Jobs[job]]
      BY <2>1, LastJobType DEF IInv, SaveInv, EndSave, LastJob
    <3>3. Written = [kind |-> "complete", weights |-> best'.weights[LastJob],
                     rate |-> best'.rate]
      BY <3>2 DEF Written
    <3>4. QED
      BY <3>1, <3>3, <1>t DEF BestIsOnDisk
  <2>2. CASE job # Len(Jobs)
    BY <2>2 DEF BestIsOnDisk, EndSave
  <2>3. QED
    BY <2>1, <2>2
<1>5. LoraInv'
  BY DEF IInv, LoraInv, Generating, EndSave
<1>6. QED
  BY <1>1, <1>2, <1>3, <1>4, <1>5 DEF IInv

LEMMA AdvancePreserves ==
  ASSUME IInv, Advance
  PROVE  IInv'
<1>0. TypeOK /\ StepInv
  BY DEF IInv
<1>s. step \in Nat /\ step < TotalSteps /\ step' = step + 1 /\ step' \in Steps
      /\ (pc' = "head" \/ pc' = "finished")
  BY <1>0, NumbersAssumption DEF TypeOK, StepInv, Training, Steps, Advance
<1>1. TypeOK'
  <2>1. tstep' \in [Trainers -> Steps]
    BY <1>s DEF Advance
  <2>2. QED
    BY <1>0, <1>s, <2>1 DEF TypeOK, Advance, storage
<1>2. StepInv' /\ AwakeInv' /\ GeneratingInv' /\ EnginesSleepWhileTraining'
  BY DEF IInv, StepInv, AwakeInv, GeneratingInv, EnginesSleepWhileTraining, Generating,
     Training, Advance
<1>3. SaveInv'
  BY DEF SaveInv, Advance
<1>4. BestIsOnDisk'
  BY DEF IInv, BestIsOnDisk, Advance, storage
<1>5. LoraInv'
  <2>1. LoraDiffer => \A t \in Trainers : weights[t].updates > 0
    BY DEF IInv, LoraInv, Advance
  <2>2. LoraDiffer => \A t \in Trainers : weights'[t].updates # 0
    BY <2>1 DEF Advance
  <2>3. \A t \in Trainers : asleep'[t]
    BY DEF IInv, EnginesSleepWhileTraining, Training, Advance
  <2>4. QED
    BY <1>s, <2>2, <2>3 DEF LoraInv, Generating
<1>6. QED
  BY <1>1, <1>2, <1>3, <1>4, <1>5 DEF IInv

LEMMA CrashPreserves ==
  ASSUME IInv, Crash
  PROVE  IInv'
<1>0. TypeOK /\ StepInv
  BY DEF IInv
<1>1. TypeOK'
  BY <1>0 DEF TypeOK, Crash, process, storage
<1>2. StepInv' /\ AwakeInv' /\ GeneratingInv' /\ EnginesSleepWhileTraining'
  BY DEF StepInv, AwakeInv, GeneratingInv, EnginesSleepWhileTraining, Generating,
     Training, Crash
<1>3. SaveInv'
  BY DEF SaveInv, Crash
<1>4. BestIsOnDisk'
  BY DEF BestIsOnDisk, Crash
<1>5. LoraInv'
  BY DEF LoraInv, Generating, Crash
<1>6. QED
  BY <1>1, <1>2, <1>3, <1>4, <1>5 DEF IInv

LEMMA RestartPreserves ==
  ASSUME IInv, Restart
  PROVE  Starting'
<1>1. restarts' \in 0..MaxRestarts
  BY NumbersAssumption DEF IInv, TypeOK, Restart
<1>2. QED
  BY <1>1 DEF IInv, TypeOK, Starting, Restart, storage

-----------------------------------------------------------------------------

LEMMA InitStarts == Init => Starting
<1>1. disk = [k \in Steps |-> NoFolder] => disk \in [Steps -> Folder]
  BY BaseType
<1>2. QED
  BY <1>1, NumbersAssumption DEF Init, Starting

LEMMA StepPreserves == IInv /\ [Next]_vars => IInv' \/ Starting'
<1> SUFFICES ASSUME IInv, [Next]_vars PROVE IInv' \/ Starting'
  OBVIOUS
<1>1. CASE UNCHANGED vars
  BY <1>1 DEF vars, process, storage, IInv, TypeOK, StepInv, AwakeInv, GeneratingInv,
     EnginesSleepWhileTraining, SaveInv, BestIsOnDisk, LoraInv, Generating, Training
<1>2. CASE Next
  BY <1>2, StartFromScratchPreserves, LoadCheckpointPreserves, LoadFailsPreserves,
     StartRolloutPreserves, EndRolloutPreserves, UpdatePreserves,
     StartValidationPreserves, EndValidationPreserves, BeginSavePreserves,
     EndSavePreserves, AdvancePreserves, CrashPreserves, RestartPreserves DEF Next
<1>3. QED
  BY <1>1, <1>2

LEMMA Invariance == Spec => []IInv
BY InitStarts, StartsFresh, StepPreserves, PTL DEF Spec

LEMMA IInvOnPolicy == IInv => OnPolicy
<1> SUFFICES ASSUME IInv, Generating PROVE engine = weights
  BY DEF OnPolicy
<1>1. \A t \in Trainers : engine[t] = weights[t]
  BY DEF IInv, AwakeInv, GeneratingInv, Generating
<1>2. QED
  BY <1>1 DEF IInv, TypeOK

LEMMA IInvAdapters == IInv => TrainedAdaptersGenerate
<1> SUFFICES ASSUME IInv, Generating, LoraDiffer, NEW t \in Trainers
             PROVE  IF weights[t].updates = 0 THEN ~useLora ELSE useLora /\ t \in adapters
  BY DEF TrainedAdaptersGenerate
<1>1. weights[t].updates \in Nat
  BY DEF IInv, TypeOK, Weights
<1>2. /\ weights[t].updates = 0 <=> step = 0
      /\ useLora <=> step # 0
      /\ step # 0 => t \in adapters
  <2>1. pc = "generate" => (weights[t].updates = 0 <=> step = 0)
    BY DEF IInv, LoraInv
  <2>2. pc = "evaluate" => weights[t].updates > 0 /\ step # 0
    BY DEF IInv, LoraInv
  <2>3. useLora <=> step # 0
    BY Zenon DEF IInv, LoraInv, Generating
  <2>4. step # 0 => t \in adapters
    BY DEF IInv, LoraInv
  <2>5. QED
    BY <1>1, <2>1, <2>2, <2>3, <2>4 DEF Generating
<1>3. QED
  BY <1>2, Zenon

-----------------------------------------------------------------------------

\* Every variable keeps its type, and no step passes the configured total,
\* through any number of validations, crashes and resumes.
THEOREM TypeCorrect == Spec => []TypeOK
BY Invariance, PTL DEF IInv

\* fit generates and validates with the trainer's current weights, whatever
\* was loaded, updated or lost before.
THEOREM RolloutsAreOnPolicy == Spec => []OnPolicy
BY Invariance, IInvOnPolicy, PTL

\* No engine holds GPU memory while a trainer updates or saves.
THEOREM EnginesGiveWay == Spec => []EnginesSleepWhileTraining
BY Invariance, PTL DEF IInv

\* In a LoRA run the adapters answer from the first update on, synced.
THEOREM AdaptersOnceTrained == Spec => []TrainedAdaptersGenerate
BY Invariance, IInvAdapters, PTL

\* _save_best_checkpoint leaves the measured weights of the last job on disk
\* under the rate it measured, for any list of save jobs.
THEOREM BestIsKept == Spec => []BestIsOnDisk
BY Invariance, PTL DEF IInv

-----------------------------------------------------------------------------
(***************************************************************************)
(* With one model, its trainer keeps the step of the loop, and a folder    *)
(* global_step_k holds weights of k + 1 updates and at most one more for   *)
(* every restart that was made when it was written.  At a load that was an *)
(* earlier process, so the restarts since it count at least one more: it   *)
(* pays for the step that the resume repeats.                              *)
(***************************************************************************)
Updates == weights[First].updates

CountInv ==
  /\ tstep[First] = step
  /\ pc \in {"load", "head", "generate", "update"} => Updates \in step..(step + restarts)
  /\ pc \in {"validate", "evaluate", "save", "write", "advance"} =>
       Updates \in (step + 1)..(step + 1 + restarts)
  /\ \A k \in Steps : disk[k].kind = "complete" =>
       /\ disk[k].weights.updates \in (k + 1)..(k + 1 + restarts)
       /\ pc = "load" => disk[k].weights.updates \in (k + 1)..(k + restarts)

LEMMA CountInit == Init => CountInv
BY TrainersAssumption, NumbersAssumption
   DEF Init, IsFresh, CountInv, Updates, Base, NoFolder, Steps

LEMMA CountTypes ==
  ASSUME TypeOK
  PROVE  /\ step \in Nat /\ restarts \in Nat /\ Updates \in Nat /\ First \in Trainers
         /\ \A k \in Steps : k \in Nat /\ disk[k].weights.updates \in Nat
<1>1. First \in Trainers /\ Steps \subseteq Nat /\ 0..MaxRestarts \subseteq Nat
  BY TrainersAssumption, NumbersAssumption DEF Steps
<1>2. \A w \in Weights : w.updates \in Nat
  BY DEF Weights
<1>3. weights[First] \in Weights /\ \A k \in Steps : disk[k].weights \in Weights
  BY <1>1 DEF TypeOK, Folder
<1>4. QED
  BY <1>1, <1>2, <1>3 DEF TypeOK, Updates

LEMMA CountStep ==
  ASSUME Trainers = {First}, IInv, CountInv, [Next]_vars
  PROVE  CountInv'
<1>0. TypeOK
  BY DEF IInv
<1>1. /\ step \in Nat /\ restarts \in Nat /\ Updates \in Nat /\ First \in Trainers
      /\ \A k \in Steps : k \in Nat /\ disk[k].weights.updates \in Nat
  BY <1>0, CountTypes
<1>2. CASE LoadCheckpoint
  <2>1. PICK k \in Saved :
          /\ disk[k].kind = "complete"
          /\ step' = k
          /\ tstep' = [t \in Trainers |-> IF t \in Readers(k) THEN k ELSE tstep[t]]
          /\ weights' = [t \in Trainers |->
                           IF t \in Readers(k) THEN disk[k].weights ELSE weights[t]]
    BY <1>2 DEF LoadCheckpoint
  <2>2. First \in Readers(k) /\ k \in Steps
    BY <1>1, <2>1 DEF Readers, Saved
  <2>3. tstep'[First] = k /\ Updates' = disk[k].weights.updates
    BY <1>1, <2>1, <2>2 DEF Updates
  <2>4. /\ pc = "load" /\ pc' = "head" /\ UNCHANGED <<disk, restarts>>
    BY <1>2 DEF LoadCheckpoint, storage
  <2>5. disk[k].weights.updates \in (k + 1)..(k + restarts)
    BY <2>1, <2>2, <2>4 DEF CountInv
  <2>6. Updates' \in step'..(step' + restarts')
    BY <1>1, <2>1, <2>2, <2>3, <2>4, <2>5
  <2>7. QED
    BY <2>1, <2>3, <2>4, <2>6 DEF CountInv
<1>3. CASE Update
  <2>1. Updates' = Updates + 1
    <3>1. weights[First] \in Weights
      BY <1>0, <1>1 DEF TypeOK
    <3>2. QED
      BY <1>1, <1>3, <3>1 DEF Update, Updates, Weights
  <2>2. /\ pc = "update" /\ pc' \in {"validate", "advance"}
        /\ UNCHANGED <<step, tstep, disk, restarts>>
    BY <1>3 DEF Update, storage
  <2>3. Updates' \in (step + 1)..(step + 1 + restarts)
    BY <1>1, <2>1, <2>2 DEF CountInv
  <2>4. QED
    BY <2>2, <2>3 DEF CountInv
<1>4. CASE Advance
  <2>1. /\ pc = "advance" /\ pc' \in {"head", "finished"} /\ step' = step + 1
        /\ tstep'[First] = step + 1 /\ UNCHANGED <<weights, disk, restarts>>
    BY <1>1, <1>4 DEF Advance, storage
  <2>2. Updates' \in step'..(step' + restarts')
    BY <1>1, <2>1 DEF CountInv, Updates
  <2>3. QED
    BY <2>1, <2>2 DEF CountInv
<1>5. CASE BeginSave
  <2>1. /\ pc = "save" /\ pc' = "write" /\ UNCHANGED <<step, tstep, weights, restarts>>
        /\ disk' = [disk EXCEPT ![Target].kind = "partial"]
    BY <1>5 DEF BeginSave, process
  <2>2. \A k \in Steps : disk'[k].kind = "complete" => disk'[k] = disk[k]
    <3>1. ASSUME NEW k \in Steps, k = Target
          PROVE  disk'[k].kind = "partial"
      <4>1. disk[k] \in Folder
        BY <1>0 DEF TypeOK
      <4>2. QED
        BY <1>0, <2>1, <3>1, <4>1 DEF TypeOK, Folder
    <3>2. QED
      BY <1>0, <2>1, <3>1 DEF TypeOK
  <2>3. QED
    BY <2>1, <2>2 DEF CountInv, Updates
<1>6. CASE EndSave
  <2>1. Target = step /\ Jobs[job] = First
    BY <1>0, JobType DEF TypeOK, Target, CountInv
  <2>2. /\ pc = "write" /\ pc' \in {"save", "advance"}
        /\ UNCHANGED <<step, tstep, weights, restarts>>
        /\ disk' = [disk EXCEPT ![step] = Written]
    BY <1>6, <2>1 DEF EndSave
  <2>3. Written.weights.updates \in (step + 1)..(step + 1 + restarts)
    BY <2>1, <2>2 DEF Written, CountInv, Updates
  <2>4. \A k \in Steps : disk'[k] = IF k = step THEN Written ELSE disk[k]
    BY <1>0, <2>2 DEF TypeOK
  <2>5. QED
    BY <2>2, <2>3, <2>4 DEF CountInv, Updates
<1>7. CASE Restart
  <2>1. /\ pc' = "load" /\ step' = 0 /\ tstep'[First] = 0 /\ Updates' = 0
        /\ UNCHANGED disk /\ restarts' = restarts + 1
    BY <1>1, <1>7 DEF Restart, IsFresh, storage, Base, Updates
  <2>2. \A k \in Steps : k + 1 + restarts = k + restarts'
    BY <1>1, <2>1
  <2>3. \A k \in Steps : disk[k].kind = "complete" =>
          disk[k].weights.updates \in (k + 1)..(k + restarts')
    BY <2>2 DEF CountInv
  <2>4. \A k \in Steps : (k + 1)..(k + restarts') \subseteq (k + 1)..(k + 1 + restarts')
    BY <1>1, <2>1
  <2>5. QED
    BY <1>1, <2>1, <2>3, <2>4 DEF CountInv
<1>8. CASE StartFromScratch \/ LoadFails \/ StartRollout \/ EndRollout \/ StartValidation
           \/ EndValidation \/ Crash \/ UNCHANGED vars
  <2>1. UNCHANGED <<step, tstep, weights, disk, restarts>>
    BY <1>8 DEF StartFromScratch, LoadFails, StartRollout, EndRollout, StartValidation,
       EndValidation, Crash, vars, process, storage
  <2>2. /\ pc' = "load" => pc = "load"
        /\ pc' \in {"load", "head", "generate", "update"} =>
             pc \in {"load", "head", "generate", "update"}
        /\ pc' \in {"validate", "evaluate", "save", "write", "advance"} =>
             pc \in {"validate", "evaluate", "save", "write", "advance"}
    BY <1>8 DEF StartFromScratch, LoadFails, StartRollout, EndRollout, StartValidation,
       EndValidation, Crash, vars
  <2>3. QED
    BY <2>1, <2>2 DEF CountInv, Updates
<1>9. QED
  BY <1>2, <1>3, <1>4, <1>5, <1>6, <1>7, <1>8 DEF Next

\* With one model no step is left out, and a resume repeats at most one.
THEOREM StepsAreNotSkipped == ASSUME Trainers = {First} PROVE Spec => []NoStepIsSkipped
<1>1. CountInv => NoStepIsSkipped
  BY DEF CountInv, Updates, NoStepIsSkipped
<1>2. IInv /\ CountInv /\ [Next]_vars => CountInv'
  BY CountStep
<1>3. QED
  BY <1>1, <1>2, CountInit, Invariance, PTL DEF Spec

-----------------------------------------------------------------------------
(***************************************************************************)
(* TrainerLoop implements OnPolicyLoop.  Between the end of a rollout and  *)
(* its update the engines sleep on the weights that are about to be        *)
(* updated, and a resume finds the weights of a new process.               *)
(***************************************************************************)
MapInv ==
  /\ pc = "update" => engine = weights
  /\ pc = "load" => weights = Base

loopVars == <<weights, LearnsFrom, Backups>>

LEMMA MapStep ==
  ASSUME IInv, MapInv, [Next]_vars
  PROVE  MapInv'
<1>1. CASE EndRollout
  <2>1. OnPolicy
    BY IInvOnPolicy
  <2>2. QED
    BY <1>1, <2>1 DEF OnPolicy, Generating, EndRollout, MapInv
<1>2. CASE Restart
  BY <1>2 DEF Restart, IsFresh, MapInv
<1>3. CASE UNCHANGED vars
  BY <1>3 DEF vars, process, MapInv
<1>4. CASE StartFromScratch \/ LoadCheckpoint \/ LoadFails \/ StartRollout \/ Update
           \/ StartValidation \/ EndValidation \/ BeginSave \/ EndSave \/ Advance \/ Crash
  <2>1. pc' \notin {"update", "load"}
    <3>1. CASE EndValidation
      BY <3>1 DEF EndValidation
    <3>2. QED
      BY <1>4, <3>1 DEF StartFromScratch, LoadCheckpoint, LoadFails, StartRollout, Update,
         StartValidation, BeginSave, EndSave, Advance, Crash
  <2>2. QED
    BY <2>1 DEF MapInv
<1>5. QED
  BY <1>1, <1>2, <1>3, <1>4 DEF Next

(***************************************************************************)
(* A save may add the weights of its job to the backups, and the folder it *)
(* writes to drops out of them meanwhile.                                  *)
(***************************************************************************)
LEMMA SavesBackUp ==
  ASSUME IInv, BeginSave \/ EndSave
  PROVE  Loop!BackUp
<1>0. TypeOK /\ Target \in Steps /\ Jobs[job] \in Trainers
  BY JobType DEF IInv, TypeOK, Target
<1>1. UNCHANGED <<weights, LearnsFrom>>
  BY DEF BeginSave, EndSave, process, LearnsFrom
<1>2. \A k \in Steps : disk'[k].kind = "complete" =>
        disk'[k] = disk[k] \/ disk'[k].weights = weights[Jobs[job]]
  <2>1. CASE BeginSave
    <3>1. \A k \in Steps : disk'[k] = IF k = Target THEN [disk[k] EXCEPT !.kind = "partial"]
                                      ELSE disk[k]
      BY <1>0, <2>1 DEF TypeOK, BeginSave
    <3>2. [disk[Target] EXCEPT !.kind = "partial"].kind = "partial"
      BY <1>0 DEF TypeOK, Folder
    <3>3. QED
      BY <3>1, <3>2
  <2>2. CASE EndSave
    <3>1. \A k \in Steps : disk'[k] = IF k = Target THEN Written ELSE disk[k]
      BY <1>0, <2>2 DEF TypeOK, EndSave
    <3>2. QED
      BY <3>1 DEF Written
  <2>3. QED
    BY <2>1, <2>2
<1>3. Backups' \subseteq Backups \cup {weights[Jobs[job]]}
  BY <1>2 DEF Backups
<1>4. QED
  BY <1>0, <1>1, <1>3 DEF Loop!BackUp

LEMMA LoopStep ==
  ASSUME IInv, MapInv, [Next]_vars
  PROVE  [Loop!Next]_loopVars
<1>0. TypeOK /\ Loop!Untrained = Base
  BY DEF IInv, Loop!Untrained, Base
<1>1. CASE StartRollout
  <2>1. engine' = weights
    <3>1. \A t \in Trainers : engine'[t] = weights[t]
      BY <1>1 DEF IInv, AwakeInv, StartRollout, WakeEngines
    <3>2. engine' = [t \in Trainers |-> engine'[t]]
      BY <1>1 DEF StartRollout, WakeEngines
    <3>3. QED
      BY <1>0, <3>1, <3>2 DEF TypeOK
  <2>2. LearnsFrom = {} /\ LearnsFrom' = {weights} /\ UNCHANGED <<weights, Backups>>
    BY <1>1, <2>1 DEF StartRollout, LearnsFrom, Backups, storage
  <2>3. QED
    BY <2>2 DEF Loop!Generate, Loop!Next
<1>2. CASE Update
  <2>1. LearnsFrom = {weights} /\ LearnsFrom' = {} /\ UNCHANGED Backups
    BY <1>2 DEF Update, LearnsFrom, Backups, storage, MapInv
  <2>2. weights' = [t \in Trainers |-> [weights[t] EXCEPT !.updates = @ + 1]]
    BY <1>2 DEF Update
  <2>3. QED
    BY <2>1, <2>2 DEF Loop!Learn, Loop!Next
<1>3. CASE BeginSave \/ EndSave
  BY <1>3, SavesBackUp DEF Loop!Next
<1>4. CASE LoadCheckpoint
  <2>1. PICK k \in Saved :
          /\ disk[k].kind = "complete"
          /\ weights' = [t \in Trainers |->
                           IF t \in Readers(k) THEN disk[k].weights ELSE weights[t]]
    BY <1>4 DEF LoadCheckpoint
  <2>2. disk[k].weights \in Backups /\ Readers(k) \in SUBSET Trainers
    BY <2>1, TrainersAssumption DEF Saved, Backups, Readers
  <2>3. /\ LearnsFrom = {} /\ weights = Loop!Untrained
        /\ UNCHANGED <<LearnsFrom, Backups>>
    BY <1>0, <1>4 DEF LoadCheckpoint, LearnsFrom, Backups, storage, MapInv
  <2>4. Loop!Restore
    BY <2>1, <2>2, <2>3 DEF Loop!Restore
  <2>5. QED
    BY <2>4 DEF Loop!Next
<1>5. CASE Restart
  <2>1. /\ LearnsFrom = {} /\ weights' = Loop!Untrained
        /\ UNCHANGED <<LearnsFrom, Backups>>
    BY <1>0, <1>5 DEF Restart, IsFresh, LearnsFrom, Backups, storage
  <2>2. QED
    BY <2>1 DEF Loop!StartOver, Loop!Next
<1>6. CASE Crash
  <2>1. LearnsFrom' = {} /\ UNCHANGED <<weights, Backups>>
    BY <1>6 DEF Crash, LearnsFrom, Backups, process, storage
  <2>2. QED
    BY <2>1 DEF Loop!LoseBatch, Loop!Next
<1>7. CASE StartFromScratch \/ LoadFails \/ StartValidation \/ EndValidation \/ Advance
           \/ EndRollout \/ UNCHANGED vars
  <2>1. UNCHANGED <<weights, disk>>
    BY <1>7 DEF StartFromScratch, LoadFails, StartValidation, EndValidation, Advance,
       EndRollout, vars, process, storage
  <2>2. UNCHANGED LearnsFrom
    <3>1. CASE EndRollout \/ UNCHANGED vars
      BY <3>1 DEF EndRollout, vars, process, LearnsFrom
    <3>2. CASE EndValidation
      BY <3>2 DEF EndValidation, LearnsFrom
    <3>3. CASE StartFromScratch \/ LoadFails \/ StartValidation \/ Advance
      BY <3>3 DEF StartFromScratch, LoadFails, StartValidation, Advance, LearnsFrom
    <3>4. QED
      BY <1>7, <3>1, <3>2, <3>3
  <2>3. QED
    BY <2>1, <2>2 DEF Backups, loopVars
<1>8. QED
  BY <1>1, <1>2, <1>3, <1>4, <1>5, <1>6, <1>7 DEF Next

\* Seen from outside, every update learns from one batch of its own policy,
\* and crashes and resumes only bring back what a complete save has left.
THEOREM ImplementsOnPolicyLoop == Spec => LearnsOnPolicy
<1>1. Init => Loop!Init /\ MapInv
  <2> SUFFICES ASSUME Init PROVE Loop!Init /\ MapInv
    OBVIOUS
  <2>1. \A k \in Steps : disk[k].kind # "complete"
    BY DEF Init, NoFolder
  <2>2. weights = Base /\ pc = "load"
    BY DEF Init, IsFresh
  <2>3. QED
    BY <2>1, <2>2 DEF Loop!Init, Loop!Untrained, Base, LearnsFrom, Backups, MapInv
<1>2. IInv /\ MapInv /\ [Next]_vars => MapInv'
  BY MapStep
<1>3. IInv /\ MapInv /\ [Next]_vars => [Loop!Next]_loopVars
  BY LoopStep
<1>4. QED
  BY <1>1, <1>2, <1>3, Invariance, PTL DEF Spec, LearnsOnPolicy, Loop!Spec, loopVars

=============================================================================
