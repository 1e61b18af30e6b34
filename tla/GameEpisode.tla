---------------------------- MODULE GameEpisode ----------------------------
(***************************************************************************)
(* A rollout of the board games path planning and Sokoban, with text or    *)
(* with pictures: generate_single_rollout driving ToolAgent and PlanAgent  *)
(* over one board.  The tool agent's program proposes moves that are       *)
(* played on a deep copy; the plan agent's moves are played on the board.  *)
(*                                                                         *)
(* A list of moves is played one action at a time (nothing else happens    *)
(* in between), so lists of any length are the paths of a run.  Rewards    *)
(* are counted in thousandths.                                             *)
(***************************************************************************)
EXTENDS Integers, Sequences, FiniteSetsExt

CONSTANTS
  Levels,    \* boards that episodes start from
  MaxTurns,
  MaxMoves,  \* bound: moves of one list
  MaxLate    \* bound: tool steps that time out

Cell == Int \X Int

\* A start and a goal on two free cells of a random grid.
IsPathLevel(l) ==
  l.game = "path" /\ l.boxes = {} /\ \E g \in l.floor \ {l.start} : l.goals = {g}

\* A room with boxes pulled away from their goals (the generator is asked
\* for one of each; any number is allowed here).
IsSokobanLevel(l) ==
  /\ l.game = "sokoban"
  /\ l.boxes \subseteq l.floor /\ IsFiniteSet(l.boxes)
  /\ l.goals \subseteq l.floor /\ l.goals # {} /\ ~(l.boxes \subseteq l.goals)

ASSUME LevelsAssumption ==
  \A l \in Levels :
    /\ l.floor \subseteq Cell /\ l.start \in l.floor \ l.boxes /\ l.limit \in Nat \ {0}
    /\ IsPathLevel(l) \/ IsSokobanLevel(l)
ASSUME BoundsAssumption == {MaxTurns, MaxMoves} \subseteq Nat \ {0} /\ MaxLate \in Nat

VARIABLES
  level,     \* the level being played
  pictures,  \* stateful_vision, else stateful
  pc,        \* whose step the engine awaits
  turn,
  board,     \* env.state
  trial,     \* the tool agent's copy of it
  said,      \* tool_action and plan_action: the moves played of them
  pay,       \* agent_reward
  env,       \* done and success of the environment
  late       \* turns in which the tool step timed out

vars == <<level, pictures, pc, turn, board, trial, said, pay, env, late>>

Agents == {"tool", "plan"}

-----------------------------------------------------------------------------
(* The board: step_single of both games.  A path level has no boxes. *)

Shift == [U |-> <<-1, 0>>, D |-> <<1, 0>>, L |-> <<0, -1>>, R |-> <<0, 1>>]

Plus(p, d) == <<p[1] + d[1], p[2] + d[2]>>
Abs(n)     == IF n < 0 THEN -n ELSE n
Dist(p, q) == Abs(p[1] - q[1]) + Abs(p[2] - q[2])
Nearest(p) == Min({Dist(p, g) : g \in level.goals})

\* -_potential: of the player, or of all boxes
Distance(b) == IF level.game = "path" THEN Nearest(b.pos)
                                      ELSE MapThenSumSet(Nearest, b.boxes)

\* _is_won, or pos = goal
Solved(b) == IF level.game = "path" THEN b.pos \in level.goals
                                    ELSE b.boxes \subseteq level.goals

Prices == IF level.game = "path"
  THEN [step |-> -10, invalid |-> -100, win |-> 1000, fail |-> -1000, shape |-> 10]
  ELSE [step |-> -10, invalid |-> -50, win |-> 10000, fail |-> -5000, shape |-> 1]

\* len(shortest_path()) - 1
Reached(n) == LET near[k \in 0..n] ==
                    IF k = 0 THEN {level.start}
                    ELSE {c \in level.floor : \E p \in near[k - 1] : Dist(p, c) <= 1}
              IN  near[n]
IsShortest(n) == level.goals \cap Reached(n - 1) = {} /\ level.goals \cap Reached(n) # {}

\* mutant: what is behind a box is not looked at
PushesAnything(b, m) == m \in DOMAIN Shift /\ Plus(b.pos, Shift[m]) \in level.floor

\* _apply_action accepts the move.
Valid(b, m) ==
  /\ m \in DOMAIN Shift
  /\ Plus(b.pos, Shift[m]) \in level.floor
  /\ Plus(b.pos, Shift[m]) \in b.boxes =>
       Plus(Plus(b.pos, Shift[m]), Shift[m]) \in level.floor \ b.boxes

\* The board after a valid move.
Moved(b, d) ==
  LET next == Plus(b.pos, d)
  IN  [b EXCEPT !.pos   = next,
                !.boxes = IF next \in @ THEN (@ \ {next}) \cup {Plus(next, d)} ELSE @]

Tried(b, m) == IF Valid(b, m) THEN Moved(b, Shift[m]) ELSE b

\* lambda_pot * (gamma * nxt_phi - cur_phi)
Shaping(b, c) == Prices.shape * (100 * Distance(b) - 99 * Distance(c))

\* A box was pushed onto a goal or off one.
BoxPay(b, c) ==
  LET home(x) == Cardinality(x.boxes \cap level.goals)
  IN  IF home(c) > home(b) THEN 1000 ELSE IF home(c) < home(b) THEN -500 ELSE 0

EndPay(b, c) ==
  IF Solved(c) THEN Prices.win + (IF level.game = "path" /\ IsShortest(b.steps + 1)
                                  THEN 500 ELSE 0)
  ELSE IF b.steps + 1 >= level.limit THEN Prices.fail ELSE 0

StepPay(b, m) ==
  LET c == Tried(b, m)
  IN  (IF Valid(b, m) THEN Prices.step ELSE Prices.invalid)
        + Shaping(b, c) + BoxPay(b, c) + EndPay(b, c)

\* mutant: the step limit is not looked at
PlayedToGoal(b, m) ==
  [Tried(b, m) EXCEPT !.steps = @ + 1,
                      !.invalid = IF Valid(b, m) THEN @ ELSE @ + 1,
                      !.reward = @ + StepPay(b, m), !.total = @ + StepPay(b, m),
                      !.done = Solved(Tried(b, m))]

Played(b, m) ==
  [Tried(b, m) EXCEPT !.steps = @ + 1,
                      !.invalid = IF Valid(b, m) THEN @ ELSE @ + 1,
                      !.reward = @ + StepPay(b, m), !.total = @ + StepPay(b, m),
                      !.done = Solved(Tried(b, m)) \/ b.steps + 1 >= level.limit]

\* Items of a list: moves, any other string, and what is no string.
Strings == DOMAIN Shift \cup {"X"}
Mixed   == <<"no string">>

-----------------------------------------------------------------------------
Init ==
  /\ level \in Levels
  /\ pictures \in BOOLEAN
  /\ pc = "tool" /\ turn = 1
  /\ board = [pos |-> level.start, boxes |-> level.boxes, steps |-> 0, invalid |-> 0,
              reward |-> 0, total |-> 0, done |-> FALSE]
  /\ trial = board
  /\ said = [a \in Agents |-> <<>>]
  /\ pay = [a \in Agents |-> 0]
  /\ env = [done |-> FALSE, success |-> FALSE]
  /\ late = {}

\* The agent has stepped.  The snapshot that the engine takes then passes an
\* agent_name, which only the states with pictures accept.
Stepped(next) == pc' = IF pictures THEN next ELSE "died"

\* Its program prints no list of moves, or one of other things (which the
\* path game does not take for a list).
ToolSaysNothing ==
  /\ pc = "tool"
  /\ \/ said' = [said EXCEPT !.tool = <<>>] /\ pay' = [pay EXCEPT !.tool = -2000]
     \/ /\ level.game = "sokoban"
        /\ said' = [said EXCEPT !.tool = Mixed] /\ pay' = [pay EXCEPT !.tool = -1000]
  /\ Stepped("plan")
  /\ UNCHANGED <<level, pictures, turn, board, trial, env, late>>

\* The step is cut while it awaits its program; the agent keeps its old reward.
ToolIsLate ==
  /\ pc = "tool" /\ Cardinality(late) < MaxLate
  /\ late' = late \cup {turn}
  /\ Stepped("plan")
  /\ UNCHANGED <<level, pictures, turn, board, trial, said, pay, env>>

\* mutant: the tool agent goes on with the copy of an earlier turn
KeepsTrial ==
  /\ pc = "tool"
  /\ pc' = "trying"
  /\ trial' = [trial EXCEPT !.reward = 0]
  /\ said' = [said EXCEPT !.tool = <<>>]
  /\ UNCHANGED <<level, pictures, turn, board, pay, env, late>>

\* Its program prints a list, to be played on a deep copy of the board.
ToolStarts ==
  /\ pc = "tool"
  /\ pc' = "trying"
  /\ trial' = [board EXCEPT !.reward = 0]
  /\ said' = [said EXCEPT !.tool = <<>>]
  /\ UNCHANGED <<level, pictures, turn, board, pay, env, late>>

Try(m) ==
  /\ pc = "trying" /\ ~trial.done /\ Len(said.tool) < MaxMoves
  /\ level.game = "path" => m \in DOMAIN Shift
  /\ trial' = Played(trial, m)
  /\ said' = [said EXCEPT !.tool = Append(@, m)]
  /\ UNCHANGED <<level, pictures, pc, turn, board, pay, env, late>>

ToolEnds ==
  /\ pc = "trying"
  /\ pay' = [pay EXCEPT !.tool = trial.reward]
  /\ Stepped("plan")
  /\ UNCHANGED <<level, pictures, turn, board, trial, said, env, late>>

\* The plan agent answers with something that is no list of strings.
PlanMixes ==
  /\ pc = "plan"
  /\ said' = [said EXCEPT !.plan = Mixed]
  /\ board' = [board EXCEPT !.reward = -1000]
  /\ pay' = [pay EXCEPT !.plan = -1000]
  /\ Stepped("reward")
  /\ UNCHANGED <<level, pictures, turn, trial, env, late>>

PlanStarts ==
  /\ pc = "plan"
  /\ pc' = "moving"
  /\ board' = [board EXCEPT !.reward = 0]
  /\ said' = [said EXCEPT !.plan = <<>>]
  /\ UNCHANGED <<level, pictures, turn, trial, pay, env, late>>

Move(m) ==
  /\ pc = "moving" /\ ~board.done /\ Len(said.plan) < MaxMoves
  /\ board' = Played(board, m)
  /\ said' = [said EXCEPT !.plan = Append(@, m)]
  /\ UNCHANGED <<level, pictures, pc, turn, trial, pay, env, late>>

\* An answer without a list is an empty one.
PlanEnds ==
  /\ pc = "moving"
  /\ pay' = [pay EXCEPT !.plan = IF said.plan = <<>> THEN -2000 ELSE board.reward]
  /\ env' = IF board.done THEN [done |-> TRUE, success |-> TRUE] ELSE env
  /\ Stepped("reward")
  /\ UNCHANGED <<level, pictures, turn, board, trial, said, late>>

\* calculate_reward of both agents.
Reward ==
  /\ pc = "reward"
  /\ pay' = [a \in Agents |-> pay[a] + board.reward]
  /\ pc' = "next"
  /\ UNCHANGED <<level, pictures, turn, board, trial, said, env, late>>

NextTurn ==
  /\ pc = "next"
  /\ pc' = IF env.done \/ turn = MaxTurns THEN "over" ELSE "tool"
  /\ turn' = IF pc' = "tool" THEN turn + 1 ELSE turn
  /\ UNCHANGED <<level, pictures, board, trial, said, pay, env, late>>

Next ==
  \/ ToolSaysNothing \/ ToolIsLate \/ ToolStarts \/ ToolEnds
  \/ PlanMixes \/ PlanStarts \/ PlanEnds
  \/ \E m \in Strings : Try(m) \/ Move(m)
  \/ Reward \/ NextTurn

Spec == Init /\ [][Next]_vars

-----------------------------------------------------------------------------
Board == [pos : Cell, boxes : SUBSET Cell, steps : Nat, invalid : Nat,
          reward : Int, total : Int, done : BOOLEAN]

\* The type invariant.
TypeOK ==
  /\ level \in Levels /\ pictures \in BOOLEAN
  /\ pc \in {"tool", "trying", "plan", "moving", "reward", "next", "over", "died"}
  /\ turn \in 1..MaxTurns
  /\ board \in Board /\ trial \in Board
  /\ said \in [Agents -> Seq(Strings \cup {"no string"})]
  /\ pay \in [Agents -> Int]
  /\ env \in [done : BOOLEAN, success : BOOLEAN]
  /\ late \subseteq 1..MaxTurns

(* Whatever strings a model answers with, on the board and on the copy: the *)
(* player stands on free floor, and no box is lost, merged or in a wall.    *)
Playable(b) ==
  /\ b.pos \in level.floor \ b.boxes
  /\ b.boxes \subseteq level.floor
  /\ IsFiniteSet(b.boxes) /\ Cardinality(b.boxes) = Cardinality(level.boxes)

BoardsArePlayable == Playable(board) /\ Playable(trial)

(* A board is done exactly when it is solved or its steps are used up, and  *)
(* the rollout ends, as a success in both cases, in the turn in which the   *)
(* plan agent brings the real board there; a copy that the tool agent has   *)
(* solved ends nothing.                                                     *)
EndsAtGoalOrLimit ==
  /\ \A b \in {board, trial} : b.done <=> Solved(b) \/ b.steps >= level.limit
  /\ pc # "moving" => env = [done |-> board.done, success |-> board.done]
  /\ pc \in {"tool", "trying", "plan"} => ~board.done

(* What a way that has reached the goal of a path level is worth by the    *)
(* prices, the shaping left out.                                           *)
Worth(b) ==
  Prices.step * (b.steps - b.invalid) + Prices.invalid * b.invalid
    + Prices.win + (IF IsShortest(b.steps) THEN 500 ELSE 0)

(* "Shaping (doesn't change optimal policy)": of two ways to the goal of a *)
(* path level, the one that is worth more without the shaping does not     *)
(* earn less with it.                                                      *)
ShapingIsNeutral ==
  level.game = "path" /\ Solved(board) /\ Solved(trial) /\ Worth(board) > Worth(trial)
    => board.total >= trial.total

(* When the plan agent plays the moves that the tool agent has found in     *)
(* this turn, both are paid the same for the turn, although one is paid     *)
(* for the copy and then for the board, and the other twice for the board.  *)
SameMovesSamePay ==
  pc = "next" /\ turn \notin late /\ said.tool = said.plan /\ said.plan # <<>>
    => pay.tool = pay.plan

=============================================================================
