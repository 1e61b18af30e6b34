---------------------------- MODULE AutoEvolTask ----------------------------
(***************************************************************************)
(* The rollouts of one index in the engine for generated multi-agent       *)
(* systems: in every batch the model designs a program, a Ray actor runs   *)
(* it, and the conversations it has saved become training rows.            *)
(*                                                                         *)
(* Rollouts meet only on disk: a program saves its conversations to        *)
(* tmp_auto_mas/rollout_<index>/traj.json, a path that the rollout of the  *)
(* same index has in every batch, and which nothing empties.  A step that  *)
(* times out (150 s) leaves its program running (600 s), into the next     *)
(* batches; the runs of an actor do not wait for each other.               *)
(***************************************************************************)
EXTENDS Naturals

CONSTANT NumBatches  \* bound: trainings and validations, one after the other

ASSUME BatchesAssumption == NumBatches \in Nat \ {0}

Batches == 1..NumBatches

VARIABLES
  batch,     \* the batch that is collected
  task,      \* what its generate_single_rollout is at, per batch
  answered,  \* batches whose design was answered by the model
  prog,      \* the program of each batch
  reported,  \* what the actor reports of it
  saved,     \* programs that have put all they saved into the file
  file,      \* traj.json: the programs that have lines in it
  rows       \* the programs whose conversations each batch trains on

engine   == <<batch, task, answered, rows>>
program  == <<prog, reported, saved, file>>
taskVars == <<engine, program>>

NoReport == "none"

TaskInit ==
  /\ batch = 1
  /\ task = [k \in Batches |-> "new"]
  /\ answered = {}
  /\ prog = [k \in Batches |-> "new"]
  /\ reported = [k \in Batches |-> NoReport]
  /\ saved = {}
  /\ file = {}
  /\ rows = [k \in Batches |-> {}]

-----------------------------------------------------------------------------
(* The engine. *)

\* A failed generation is an empty response, whose program is a comment.
Generate ==
  /\ task[batch] = "new"
  /\ task' = [task EXCEPT ![batch] = "designed"]
  /\ answered' \in {answered, answered \cup {batch}}
  /\ UNCHANGED <<batch, rows, program>>

\* step saves the program and hands it to the actor.
Send ==
  /\ task[batch] = "designed"
  /\ task' = [task EXCEPT ![batch] = "waiting"]
  /\ prog' = [prog EXCEPT ![batch] = "sent"]
  /\ UNCHANGED <<batch, answered, rows, reported, saved, file>>

(* load_and_tokenize_jsonl: nothing when a line is broken, and any lines   *)
(* of it when the file is read in the middle of a save, or after one that  *)
(* was cut off or mixed with another.                                      *)
Loads ==
  IF file = {} \/ \E k \in saved : file = {k} THEN {file} ELSE SUBSET file

\* mutant: a program that failed is read as well
ReadsFailures ==
  /\ task[batch] = "waiting" /\ reported[batch] # NoReport
  /\ task' = [task EXCEPT ![batch] = "heard"]
  /\ \E lines \in Loads :
       rows' = [rows EXCEPT ![batch] = IF batch \in answered THEN lines ELSE {}]
  /\ UNCHANGED <<batch, answered, program>>

(* Conversations are read when the program has ended without a word on     *)
(* stderr.  Without an answer there is no row to put the reward in: the    *)
(* task raises, and has no rows.                                           *)
Hear ==
  /\ task[batch] = "waiting" /\ reported[batch] # NoReport
  /\ task' = [task EXCEPT ![batch] = "heard"]
  /\ \E lines \in Loads :
       rows' = [rows EXCEPT ![batch] =
                  IF reported[batch] = "ok" /\ batch \in answered THEN lines ELSE {}]
  /\ UNCHANGED <<batch, answered, program>>

\* mutant: the engine waits for the actor
WaitsForTheActor ==
  /\ task[batch] = "designed"
  /\ task' = [task EXCEPT ![batch] = "gave up"]
  /\ UNCHANGED <<batch, answered, rows, program>>

\* The step times out or raises; the program is left to itself.
GiveUp ==
  /\ task[batch] \in {"designed", "waiting"}
  /\ task' = [task EXCEPT ![batch] = "gave up"]
  /\ UNCHANGED <<batch, answered, rows, program>>

Over(k) == task[k] \in {"heard", "gave up"}

NextBatch ==
  /\ Over(batch) /\ batch < NumBatches
  /\ batch' = batch + 1
  /\ UNCHANGED <<task, answered, rows, program>>

-----------------------------------------------------------------------------
(* The actor and the program of batch k. *)

Start(k) ==
  /\ prog[k] = "sent"
  /\ prog' = [prog EXCEPT ![k] = "running"]
  /\ UNCHANGED <<engine, reported, saved, file>>

\* mutant: the file is opened to append
Appends(k) ==
  /\ prog[k] = "running" /\ k \in answered
  /\ prog' = [prog EXCEPT ![k] = "saving"]
  /\ UNCHANGED <<engine, reported, saved, file>>

(* The workflow is through and has had conversations: open(filepath, "w"). *)
(* Another program that is saving loses what it has written so far.        *)
Open(k) ==
  /\ prog[k] = "running" /\ k \in answered
  /\ prog' = [i \in Batches |-> IF i = k THEN "saving"
                                ELSE IF prog[i] = "saving" THEN "clipped" ELSE prog[i]]
  /\ file' = {}
  /\ UNCHANGED <<engine, reported, saved>>

Saving(k) == prog[k] \in {"saving", "clipped"}

Flush(k) ==
  /\ Saving(k) /\ k \notin file
  /\ file' = file \cup {k}
  /\ UNCHANGED <<engine, prog, reported, saved>>

Save(k) ==
  /\ Saving(k)
  /\ prog' = [prog EXCEPT ![k] = "through"]
  /\ file' = file \cup {k}
  /\ saved' = IF prog[k] = "saving" THEN saved \cup {k} ELSE saved
  /\ UNCHANGED <<engine, reported>>

\* save_all raises; the program prints a warning and goes on.
SaveFails(k) ==
  /\ Saving(k)
  /\ prog' = [prog EXCEPT ![k] = "through"]
  /\ UNCHANGED <<engine, reported, saved, file>>

EndsAs(k, what) ==
  /\ prog' = [prog EXCEPT ![k] = "over"]
  /\ reported' = [reported EXCEPT ![k] = what]
  /\ UNCHANGED <<engine, saved, file>>

\* By itself, with or without text on stderr.
Exit(k) == prog[k] \in {"running", "through"} /\ \E what \in {"ok", "error"} : EndsAs(k, what)

Running(k) == prog[k] \in {"running", "through"} \/ Saving(k)

\* mutant: a program that is out of time is reported, not killed
ReportsOnly(k) ==
  /\ prog[k] = "sent" \/ Running(k)
  /\ reported' = [reported EXCEPT ![k] = "timeout"]
  /\ UNCHANGED <<engine, prog, saved, file>>

\* The process cannot be started, is killed after its time, or killing it fails.
Fail(k) ==
  \/ prog[k] = "sent" /\ EndsAs(k, "error")
  \/ Running(k) /\ EndsAs(k, "timeout")

-----------------------------------------------------------------------------
Engine     == Generate \/ Send \/ Hear \/ GiveUp \/ NextBatch
Program(k) == Start(k) \/ Open(k) \/ Flush(k) \/ Save(k) \/ SaveFails(k) \/ Exit(k) \/ Fail(k)

TaskNext == Engine \/ \E k \in Batches : Program(k)

\* The loop and the timer of wait_for run.  Nothing is asked of programs.
TaskSpec == TaskInit /\ [][TaskNext]_taskVars /\ WF_taskVars(Engine)

-----------------------------------------------------------------------------
\* The type invariant; only programs that are over have a result.
TaskTypeOK ==
  /\ batch \in Batches
  /\ task \in [Batches -> {"new", "designed", "waiting", "heard", "gave up"}]
  /\ answered \subseteq Batches
  /\ prog \in [Batches -> {"new", "sent", "running", "saving", "clipped", "through", "over"}]
  /\ reported \in [Batches -> {NoReport, "ok", "error", "timeout"}]
  /\ \A k \in Batches : reported[k] # NoReport <=> prog[k] = "over"
  /\ saved \subseteq Batches
  /\ file \subseteq 1..batch
  /\ rows \in [Batches -> SUBSET Batches]
  /\ \A k \in Batches : rows[k] \subseteq 1..k

GaveUpBefore(k) == \E i \in 1..(k - 1) : task[i] = "gave up"

(* "tokenized trajectory DataProtos from MAS execution": a rollout trains  *)
(* on the conversations of its own program, and on all of them, when that  *)
(* program has saved them and ended well -- unless an earlier step of the  *)
(* same index was given up, whose program may write the file even between  *)
(* the end of this one and the reading.                                    *)
RowsAreOwn ==
  \A k \in Batches :
    task[k] = "heard" /\ reported[k] = "ok" /\ k \in saved /\ ~GaveUpBefore(k) => rows[k] = {k}

(* Where another program's conversations are trained on, its own program   *)
(* has left none behind, or an earlier step was given up.  In particular   *)
(* a failed rollout trains on nobody's.                                    *)
StrangersNeedSilence ==
  \A k \in Batches : \A j \in rows[k] \ {k} :
    /\ reported[k] = "ok"
    /\ k \notin saved \/ GaveUpBefore(k)

\* The last batch is collected, also when no program ever ends.
BatchesEnd == <>(batch = NumBatches /\ Over(batch))

=============================================================================
