---------------------------- MODULE OnPolicyLoop ----------------------------
(***************************************************************************)
(* What a training loop promises whoever reads its results: a policy only  *)
(* learns from rollouts it has generated itself, from each batch of them   *)
(* once, and a policy that was lost comes back untrained or as it was when *)
(* a backup was made of it.                                                *)
(***************************************************************************)
EXTENDS Naturals

CONSTANT Models

VARIABLES
  policy,   \* the weights of each model: where they began, and the updates since
  batch,    \* the policies that generated the batch to learn from; at most one
  backups   \* weights that can be restored

Untrained == [m \in Models |-> [owner |-> m, updates |-> 0]]

Init == policy = Untrained /\ batch = {} /\ backups = {}

Generate ==
  /\ batch = {}
  /\ batch' = {policy}
  /\ UNCHANGED <<policy, backups>>

Learn ==
  /\ batch = {policy}
  /\ batch' = {}
  /\ policy' = [m \in Models |-> [policy[m] EXCEPT !.updates = @ + 1]]
  /\ UNCHANGED backups

\* A backup may replace others, and is lost while it is being written.
BackUp ==
  /\ \E m \in Models : backups' \subseteq backups \cup {policy[m]}
  /\ UNCHANGED <<policy, batch>>

LoseBatch ==
  /\ batch' = {}
  /\ UNCHANGED <<policy, backups>>

StartOver ==
  /\ batch = {}
  /\ policy' = Untrained
  /\ UNCHANGED <<batch, backups>>

Restore ==
  /\ batch = {}
  /\ policy = Untrained
  /\ \E w \in backups, restored \in SUBSET Models :
       policy' = [m \in Models |-> IF m \in restored THEN w ELSE policy[m]]
  /\ UNCHANGED <<batch, backups>>

Next == Generate \/ Learn \/ BackUp \/ LoseBatch \/ StartOver \/ Restore

Spec == Init /\ [][Next]_<<policy, batch, backups>>

=============================================================================
