------------------------- MODULE GameEpisodeProofs -------------------------
(***************************************************************************)
(* Theorems about GameEpisode, for all levels (also of several boxes), any *)
(* number of turns, lists of any length and any number of late steps.      *)
(***************************************************************************)
EXTENDS GameEpisode, FiniteSetTheorems, WellFoundedInduction, SequenceTheorems, TLAPS

Ends(b)  == b.done <=> Solved(b) \/ b.steps >= level.limit

BoardInv(b) == b \in Board /\ Playable(b) /\ Ends(b)

PhaseInv ==
  /\ pc # "moving" => env = [done |-> board.done, success |-> board.done]
  /\ pc = "moving" => env = [done |-> FALSE, success |-> FALSE]
  /\ pc \in {"tool", "trying", "plan"} => ~board.done

IInv == level \in Levels /\ BoardInv(board) /\ BoardInv(trial) /\ PhaseInv

-----------------------------------------------------------------------------
LEMMA Level ==
  ASSUME level \in Levels
  PROVE  /\ level.floor \subseteq Cell
         /\ level.start \in level.floor \ level.boxes
         /\ level.boxes \subseteq level.floor /\ IsFiniteSet(level.boxes)
         /\ level.limit \in Nat \ {0}
         /\ level.goals # {} /\ level.goals \in SUBSET Cell
         /\ level.game \in {"path", "sokoban"}
         /\ level.game = "path" =>
              level.boxes = {} /\ \E g \in Cell \ {level.start} : level.goals = {g}
         /\ level.game = "sokoban" => ~(level.boxes \subseteq level.goals)
BY LevelsAssumption, FS_EmptySet DEF IsPathLevel, IsSokobanLevel

LEMMA Directions ==
  ASSUME NEW m \in DOMAIN Shift
  PROVE  /\ Shift[m] \in Int \X Int
         /\ \A p \in Cell : Plus(p, Shift[m]) \in Cell /\ Plus(p, Shift[m]) # p
         /\ \A p \in Cell : Plus(Plus(p, Shift[m]), Shift[m]) # Plus(p, Shift[m])
BY DEF Shift, Plus, Cell

LEMMA DistanceOfCells ==
  ASSUME NEW p \in Cell, NEW q \in Cell
  PROVE  Dist(p, q) \in Nat
<1>1. p[1] - q[1] \in Int /\ p[2] - q[2] \in Int
  BY DEF Cell
<1>2. \A n \in Int : Abs(n) \in Nat
  BY DEF Abs
<1>3. QED
  BY <1>1, <1>2 DEF Dist

(* Induction over the numbers, from the library's well-founded order. *)
Less == {xy \in Nat \X Nat : xy[1] < xy[2]}

LEMMA LeastNumber ==
  ASSUME NEW T \in SUBSET Nat, T # {}
  PROVE  \E x \in T : \A y \in T : x <= y
<1>1. IsWellFoundedOn(Less, Nat)
  BY NatLessThanWellFounded DEF OpToRel, Less
<1>2. PICK x \in T : \A y \in T : <<y, x>> \notin Less
  BY <1>1, WFMin
<1>3. \A y \in T : ~(y < x)
  BY <1>2 DEF Less
<1>4. QED
  BY <1>3

LEMMA NearestType ==
  ASSUME level \in Levels, NEW p \in Cell
  PROVE  Nearest(p) \in Nat
<1> DEFINE T == {Dist(p, g) : g \in level.goals}
<1>1. T \in SUBSET Nat /\ T # {}
  BY Level, DistanceOfCells
<1>2. \E x \in T : \A y \in T : x <= y
  BY <1>1, LeastNumber
<1> HIDE DEF T
<1>3. Min(T) \in T
  BY <1>2 DEF Min
<1>4. QED
  BY <1>1, <1>3 DEF Nearest, T

(***************************************************************************)
(* The sum over the boxes is a number: first the fold is well defined, as  *)
(* a function on ever larger subsets, then all its values are numbers.     *)
(***************************************************************************)
LEMMA SumType ==
  ASSUME level \in Levels, NEW S \in SUBSET Cell, IsFiniteSet(S)
  PROVE  MapThenSumSet(Nearest, S) \in Nat
<1> DEFINE first(s)    == CHOOSE x \in s : TRUE
           rest(s)     == s \ {first(s)}
           sum(it, s)  == IF s = {} THEN 0 ELSE Nearest(first(s)) + it[rest(s)]
           Small(n)    == {s \in SUBSET S : Cardinality(s) <= n}
           Good(n)     == \E it \in [Small(n) -> Nat] : \A s \in Small(n) : it[s] = sum(it, s)
<1>1. ASSUME NEW s \in SUBSET S
      PROVE  /\ Cardinality(s) \in Nat
             /\ Cardinality(s) = 0 <=> s = {}
             /\ s # {} => /\ Nearest(first(s)) \in Nat
                          /\ rest(s) \in SUBSET S
                          /\ Cardinality(rest(s)) = Cardinality(s) - 1
  <2>1. IsFiniteSet(s)
    BY <1>1, FS_Subset
  <2>2. Cardinality(s) \in Nat /\ (Cardinality(s) = 0 <=> s = {})
    BY <2>1, FS_CardinalityType, FS_EmptySet
  <2>3. CASE s # {}
    <3>1. first(s) \in s
      BY <2>3
    <3>2. Cardinality(s \ {first(s)}) = Cardinality(s) - 1
      BY <2>1, <3>1, FS_RemoveElement
    <3>3. QED
      BY <1>1, <2>2, <3>1, <3>2, NearestType
  <2>4. QED
    BY <2>2, <2>3
<1> HIDE DEF first, rest
<1>2. Good(0)
  <2>1. \A s \in Small(0) : s = {}
    BY <1>1
  <2> DEFINE it == [s \in Small(0) |-> 0]
  <2>2. it \in [Small(0) -> Nat] /\ \A s \in Small(0) : it[s] = sum(it, s)
    BY <2>1
  <2>3. QED
    BY <2>2
<1>3. ASSUME NEW n \in Nat, Good(n) PROVE Good(n + 1)
  <2>1. PICK it \in [Small(n) -> Nat] : \A s \in Small(n) : it[s] = sum(it, s)
    BY <1>3
  <2>2. ASSUME NEW s \in Small(n + 1), s # {}
        PROVE  rest(s) \in Small(n) /\ rest(s) \in Small(n + 1) /\ Nearest(first(s)) \in Nat
    BY <1>1, <2>2
  <2>3. \A s \in Small(n) : s \in Small(n + 1)
    BY <1>1
  <2> DEFINE jt == [s \in Small(n + 1) |-> sum(it, s)]
  <2> HIDE DEF Small
  <2>4. jt \in [Small(n + 1) -> Nat]
    BY <2>2
  <2>5. \A s \in Small(n) : jt[s] = it[s]
    BY <2>1, <2>3
  <2>6. \A s \in Small(n + 1) : jt[s] = sum(jt, s)
    BY <2>2, <2>5
  <2>7. QED
    BY <2>4, <2>6
<1>4. \A n \in Nat : Good(n)
  <2> DEFINE T == {n \in Nat : ~Good(n)}
  <2> HIDE DEF Good
  <2> SUFFICES ASSUME T # {} PROVE FALSE
    OBVIOUS
  <2>1. PICK n \in T : \A y \in T : n <= y
    BY LeastNumber
  <2>2. n # 0
    BY <1>2, <2>1
  <2>3. n - 1 \in Nat /\ n - 1 \notin T
    BY <2>1, <2>2
  <2>4. Good((n - 1) + 1)
    BY <1>3, <2>3
  <2>5. QED
    BY <2>1, <2>4
<1> DEFINE Solves(it) == it = [s \in SUBSET S |-> sum(it, s)]
           chosen     == CHOOSE it : Solves(it)
<1>5. Solves(chosen)
  <2>1. PICK it \in [Small(Cardinality(S)) -> Nat] :
               \A s \in Small(Cardinality(S)) : it[s] = sum(it, s)
    BY <1>1, <1>4
  <2>2. Small(Cardinality(S)) = SUBSET S
    BY FS_Subset
  <2>3. Solves(it)
    BY <2>1, <2>2
  <2>4. QED
    BY <2>3
<1>6. ASSUME NEW s \in SUBSET S PROVE chosen[s] \in Nat
  <2> DEFINE T == {Cardinality(x) : x \in {y \in SUBSET S : chosen[y] \notin Nat}}
  <2> HIDE DEF chosen
  <2> SUFFICES ASSUME T # {} PROVE FALSE
    BY <1>6
  <2>1. T \in SUBSET Nat
    BY <1>1
  <2>2. PICK n \in T : \A y \in T : n <= y
    BY <2>1, LeastNumber
  <2>3. PICK x \in SUBSET S : Cardinality(x) = n /\ chosen[x] \notin Nat
    BY <2>2
  <2>4. chosen[x] = sum(chosen, x)
    BY <1>5
  <2>5. x # {}
    BY <2>3, <2>4
  <2>6. rest(x) \in SUBSET S /\ Cardinality(rest(x)) < n /\ Cardinality(rest(x)) \in Nat
    BY <1>1, <2>3, <2>5
  <2>7. chosen[rest(x)] \in Nat
    BY <2>1, <2>2, <2>6
  <2>8. QED
    BY <1>1, <2>3, <2>4, <2>5, <2>7
<1>7. MapThenSumSet(Nearest, S) = chosen[S]
  BY DEF MapThenSumSet, MapThenFoldSet, first, rest
<1>8. QED
  BY <1>6, <1>7

LEMMA DistanceType ==
  ASSUME level \in Levels, NEW b \in Board, Playable(b)
  PROVE  Distance(b) \in Nat
BY NearestType, SumType DEF Distance, Board, Playable

-----------------------------------------------------------------------------
(* What a move leaves of the board. *)
LEMMA TriedBoard ==
  ASSUME NEW b \in Board, NEW m \in Strings
  PROVE  /\ Tried(b, m) \in Board
         /\ Tried(b, m).steps = b.steps /\ Tried(b, m).invalid = b.invalid
         /\ Tried(b, m).reward = b.reward /\ Tried(b, m).total = b.total
<1>1. CASE ~Valid(b, m)
  BY <1>1 DEF Tried
<1>2. CASE Valid(b, m)
  <2> DEFINE next == Plus(b.pos, Shift[m])
             box  == IF next \in b.boxes THEN (b.boxes \ {next}) \cup {Plus(next, Shift[m])}
                                         ELSE b.boxes
  <2>1. m \in DOMAIN Shift
    BY <1>2 DEF Valid
  <2>2. next \in Cell /\ Plus(next, Shift[m]) \in Cell
    BY <2>1, Directions DEF Board
  <2>3. Tried(b, m) = [b EXCEPT !.pos = next, !.boxes = box]
    BY <1>2 DEF Tried, Moved, Board
  <2>4. box \in SUBSET Cell
    BY <2>2 DEF Board
  <2> HIDE DEF next, box
  <2>5. QED
    BY <2>2, <2>3, <2>4 DEF Board
<1>3. QED
  BY <1>1, <1>2

LEMMA MoveKeepsPlayable ==
  ASSUME NEW b \in Board, Playable(b), level \in Levels, NEW m \in Strings
  PROVE  Playable(Tried(b, m))
<1>1. CASE ~Valid(b, m)
  BY <1>1 DEF Tried
<1>2. CASE Valid(b, m)
  <2> DEFINE d    == Shift[m]
             next == Plus(b.pos, d)
  <2>1. /\ m \in DOMAIN Shift /\ next \in level.floor
        /\ next \in b.boxes => Plus(next, d) \in level.floor \ b.boxes
    BY <1>2 DEF Valid
  <2>2. next \in Cell /\ Plus(next, d) # next
    BY <2>1, Directions DEF Board
  <2>3. Tried(b, m).pos = next /\ Tried(b, m).boxes =
          IF next \in b.boxes THEN (b.boxes \ {next}) \cup {Plus(next, d)} ELSE b.boxes
    BY <1>2 DEF Tried, Moved, Board
  <2>4. CASE next \notin b.boxes
    BY <2>1, <2>3, <2>4 DEF Playable
  <2>5. CASE next \in b.boxes
    <3>1. IsFiniteSet(b.boxes \ {next}) /\ Cardinality(b.boxes \ {next}) = Cardinality(b.boxes) - 1
      BY <2>5, FS_RemoveElement DEF Playable
    <3>2. /\ IsFiniteSet(Tried(b, m).boxes)
          /\ Cardinality(Tried(b, m).boxes) = Cardinality(b.boxes) - 1 + 1
      <4> DEFINE rest == b.boxes \ {next}
                 new  == Plus(next, d)
      <4>1. new \notin rest /\ Tried(b, m).boxes = rest \cup {new}
        BY <2>1, <2>3, <2>5
      <4>2. IsFiniteSet(rest) /\ Cardinality(rest) = Cardinality(b.boxes) - 1
        BY <3>1
      <4> HIDE DEF rest, new
      <4>3. IsFiniteSet(rest \cup {new}) /\ Cardinality(rest \cup {new}) = Cardinality(rest) + 1
        BY <4>1, <4>2, FS_AddElement
      <4>4. QED
        BY <4>1, <4>2, <4>3
    <3>3. Cardinality(b.boxes) \in Nat
      BY FS_CardinalityType DEF Playable
    <3>4. QED
      BY <2>1, <2>2, <2>3, <2>5, <3>2, <3>3 DEF Playable
  <2>6. QED
    BY <2>4, <2>5
<1>3. QED
  BY <1>1, <1>2

LEMMA StepPayType ==
  ASSUME NEW b \in Board, Playable(b), level \in Levels, NEW m \in Strings
  PROVE  StepPay(b, m) \in Int
<1> DEFINE c == Tried(b, m)
<1>1. c \in Board /\ Playable(c)
  BY TriedBoard, MoveKeepsPlayable
<1>2. Distance(b) \in Nat /\ Distance(c) \in Nat
  BY <1>1, DistanceType
<1>3. /\ Prices.shape \in Int /\ Prices.step \in Int /\ Prices.invalid \in Int
      /\ Prices.win \in Int /\ Prices.fail \in Int
  BY DEF Prices
<1>4. Shaping(b, c) \in Int
  <2>1. 100 * Distance(b) - 99 * Distance(c) \in Int
    BY <1>2
  <2>2. \A x, y \in Int : x * y \in Int
    OBVIOUS
  <2>3. QED
    BY <1>3, <2>1, <2>2 DEF Shaping
<1>5. BoxPay(b, c) \in Int
  BY DEF BoxPay
<1>6. EndPay(b, c) \in Int
  BY <1>3 DEF EndPay
<1>7. QED
  BY <1>3, <1>4, <1>5, <1>6 DEF StepPay

LEMMA Effect ==
  ASSUME NEW b \in Board, Playable(b), level \in Levels, NEW m \in Strings
  PROVE  /\ Played(b, m) \in Board
         /\ Played(b, m).pos = Tried(b, m).pos
         /\ Played(b, m).boxes = Tried(b, m).boxes
         /\ Played(b, m).steps = b.steps + 1
         /\ Played(b, m).invalid = IF Valid(b, m) THEN b.invalid ELSE b.invalid + 1
         /\ Played(b, m).total = b.total + StepPay(b, m)
         /\ Played(b, m).done <=> Solved(Tried(b, m)) \/ b.steps + 1 >= level.limit
<1> DEFINE c    == Tried(b, m)
           paid == StepPay(b, m)
           over == Solved(c) \/ b.steps + 1 >= level.limit
           bad  == IF Valid(b, m) THEN b.invalid ELSE b.invalid + 1
<1>1. /\ c \in Board /\ c.steps = b.steps /\ c.invalid = b.invalid
      /\ c.reward = b.reward /\ c.total = b.total
  BY TriedBoard
<1>2. paid \in Int
  BY StepPayType
<1>3. over \in BOOLEAN /\ bad \in Nat
  BY DEF Solved, Board
<1>4. Played(b, m) = [c EXCEPT !.steps = b.steps + 1, !.invalid = bad,
                        !.reward = b.reward + paid, !.total = b.total + paid, !.done = over]
  BY <1>1 DEF Played, Board
<1> HIDE DEF c, paid, over, bad
<1>5. b.steps + 1 \in Nat /\ b.reward + paid \in Int /\ b.total + paid \in Int
  BY <1>2 DEF Board
<1>6. /\ Played(b, m) \in Board
      /\ Played(b, m).pos = c.pos
      /\ Played(b, m).boxes = c.boxes
      /\ Played(b, m).steps = b.steps + 1
      /\ Played(b, m).invalid = bad
      /\ Played(b, m).total = b.total + paid
      /\ Played(b, m).done = over
  BY <1>1, <1>3, <1>4, <1>5 DEF Board
<1>7. QED
  BY <1>6 DEF c, paid, over, bad

LEMMA MoveKeepsBoard ==
  ASSUME NEW b, BoardInv(b), ~b.done, level \in Levels, NEW m \in Strings
  PROVE  BoardInv(Played(b, m))
<1> DEFINE c == Tried(b, m)
           p == Played(b, m)
<1>1. p \in Board /\ p.pos = c.pos /\ p.boxes = c.boxes /\ p.steps = b.steps + 1
      /\ (p.done <=> Solved(c) \/ b.steps + 1 >= level.limit)
  BY Effect DEF BoardInv
<1>2. Playable(p)
  BY <1>1, MoveKeepsPlayable DEF BoardInv, Playable
<1>3. Ends(p)
  BY <1>1 DEF Ends, Solved
<1>4. QED
  BY <1>1, <1>2, <1>3 DEF BoardInv

LEMMA RewardKeepsBoard ==
  ASSUME NEW b, BoardInv(b), NEW x \in Int
  PROVE  /\ BoardInv([b EXCEPT !.reward = x])
         /\ [b EXCEPT !.reward = x].done = b.done
<1> DEFINE p == [b EXCEPT !.reward = x]
<1>1. /\ p \in Board
      /\ p.pos = b.pos /\ p.boxes = b.boxes /\ p.steps = b.steps /\ p.invalid = b.invalid
      /\ p.total = b.total /\ p.done = b.done
  BY DEF BoardInv, Board
<1> HIDE DEF p
<1>2. Solved(p) = Solved(b)
  BY <1>1 DEF Solved
<1>3. Playable(p) /\ Ends(p)
  BY <1>1, <1>2 DEF BoardInv, Playable, Ends
<1>4. QED
  BY <1>1, <1>3 DEF BoardInv, p

(* What holds of a board with this level holds of it in the next state. *)
LEMMA SameLevel ==
  ASSUME NEW x, BoardInv(x), level' = level
  PROVE  /\ board' = x => BoardInv(board)'
         /\ trial' = x => BoardInv(trial)'
<1>1. board' = x => BoardInv(board)'
  BY DEF BoardInv, Board, Playable, Ends, Solved
<1>2. trial' = x => BoardInv(trial)'
  BY DEF BoardInv, Board, Playable, Ends, Solved
<1>3. QED
  BY <1>1, <1>2

LEMMA InitInv == Init => IInv
<1> SUFFICES ASSUME Init PROVE IInv
  OBVIOUS
<1>1. level \in Levels /\ board.pos = level.start /\ board.boxes = level.boxes
      /\ board.steps = 0 /\ board.invalid = 0 /\ board.total = 0 /\ board.done = FALSE
      /\ trial = board
  BY DEF Init
<1>2. board \in Board
  <2>1. level.start \in Cell /\ level.boxes \in SUBSET Cell
    BY <1>1, Level
  <2>2. QED
    BY <2>1 DEF Init, Board
<1>3. Playable(board)
  BY <1>1, Level DEF Playable
<1>4. ~Solved(board)
  BY <1>1, Level DEF Solved
<1>5. Ends(board)
  BY <1>1, <1>4, Level DEF Ends
<1>6. PhaseInv
  BY <1>1 DEF Init, PhaseInv
<1>7. QED
  BY <1>1, <1>2, <1>3, <1>5, <1>6 DEF IInv, BoardInv

LEMMA NextInv == IInv /\ [Next]_vars => IInv'
<1> SUFFICES ASSUME IInv, [Next]_vars PROVE IInv'
  OBVIOUS
<1>0. level \in Levels /\ BoardInv(board) /\ BoardInv(trial) /\ PhaseInv
  BY DEF IInv
<1>1. ASSUME UNCHANGED <<level, board, trial, env>>, PhaseInv' PROVE IInv'
  BY <1>0, <1>1, SameLevel DEF IInv
<1>2. CASE ToolSaysNothing \/ ToolIsLate \/ ToolEnds
  BY <1>0, <1>1, <1>2 DEF ToolSaysNothing, ToolIsLate, ToolEnds,
                          Stepped, PhaseInv
<1>3. CASE ToolStarts
  <2>1. BoardInv(trial)'
    <3>1. 0 \in Int
      OBVIOUS
    <3>2. BoardInv([board EXCEPT !.reward = 0])
      BY <1>0, <3>1, RewardKeepsBoard
    <3>3. QED
      BY <1>3, <3>2, SameLevel DEF ToolStarts
  <2>2. BoardInv(board)' /\ PhaseInv'
    BY <1>0, <1>3, SameLevel DEF ToolStarts, PhaseInv
  <2>3. QED
    BY <1>0, <1>3, <2>1, <2>2 DEF ToolStarts, IInv
<1>4. ASSUME NEW m \in Strings, Try(m) PROVE IInv'
  <2>1. BoardInv(trial)'
    BY <1>0, <1>4, MoveKeepsBoard, SameLevel DEF Try
  <2>2. BoardInv(board)' /\ PhaseInv'
    BY <1>0, <1>4, SameLevel DEF Try, PhaseInv
  <2>3. QED
    BY <1>0, <1>4, <2>1, <2>2 DEF Try, IInv
<1>5. CASE PlanMixes \/ PlanStarts
  <2>1. BoardInv(board)' /\ board'.done = board.done
    <3>1. PICK x \in Int : board' = [board EXCEPT !.reward = x]
      <4>1. CASE PlanMixes
        <5>1. -1000 \in Int /\ board' = [board EXCEPT !.reward = -1000]
          BY <4>1 DEF PlanMixes
        <5>2. QED
          BY <5>1
      <4>2. CASE PlanStarts
        <5>1. 0 \in Int /\ board' = [board EXCEPT !.reward = 0]
          BY <4>2 DEF PlanStarts
        <5>2. QED
          BY <5>1
      <4>3. QED
        BY <1>5, <4>1, <4>2
    <3>2. QED
      BY <1>0, <1>5, <3>1, RewardKeepsBoard, SameLevel DEF PlanMixes, PlanStarts
  <2>2. BoardInv(trial)'
    BY <1>0, <1>5, SameLevel DEF PlanMixes, PlanStarts
  <2>3. PhaseInv'
    BY <1>0, <1>5, <2>1 DEF PlanMixes, PlanStarts, Stepped, PhaseInv
  <2>4. QED
    BY <1>0, <1>5, <2>1, <2>2, <2>3 DEF PlanMixes, PlanStarts, IInv
<1>6. ASSUME NEW m \in Strings, Move(m) PROVE IInv'
  <2>1. BoardInv(board)'
    BY <1>0, <1>6, MoveKeepsBoard, SameLevel DEF Move
  <2>2. BoardInv(trial)' /\ PhaseInv'
    BY <1>0, <1>6, SameLevel DEF Move, PhaseInv
  <2>3. QED
    BY <1>0, <1>6, <2>1, <2>2 DEF Move, IInv
<1>7. CASE PlanEnds
  <2>1. board.done \in BOOLEAN
    BY <1>0 DEF BoardInv, Board
  <2>2. PhaseInv'
    BY <1>0, <1>7, <2>1 DEF PlanEnds, Stepped, PhaseInv
  <2>3. QED
    BY <1>0, <1>7, <2>2, SameLevel DEF PlanEnds, IInv
<1>8. CASE Reward \/ NextTurn
  <2>1. board.done \in BOOLEAN
    BY <1>0 DEF BoardInv, Board
  <2>2. PhaseInv'
    BY <1>0, <1>8, <2>1 DEF Reward, NextTurn, PhaseInv
  <2>3. QED
    BY <1>1, <1>8, <2>2 DEF Reward, NextTurn
<1>9. CASE UNCHANGED vars
  BY <1>0, <1>1, <1>9 DEF vars, PhaseInv
<1>10. QED
  BY <1>2, <1>3, <1>4, <1>5, <1>6, <1>7, <1>8, <1>9 DEF Next

THEOREM Invariance == Spec => []IInv
<1>1. QED
  BY InitInv, NextInv, PTL DEF Spec

-----------------------------------------------------------------------------
(* The rest of the types; the two boards have theirs from IInv. *)
Lists == Seq(Strings \cup {"no string"})

LEMMA Singleton ==
  ASSUME NEW S, NEW x \in S
  PROVE  <<x>> \in Seq(S)
OBVIOUS

LEMMA ListTypes ==
  /\ <<>> \in Lists /\ Mixed \in Lists
  /\ \A l \in Lists, m \in Strings : Append(l, m) \in Lists
<1> DEFINE S == Strings \cup {"no string"}
<1>1. \A x \in S : <<x>> \in Seq(S)
  BY Singleton
<1>2. \A l \in Seq(S), x \in S : Append(l, x) \in Seq(S)
  BY AppendProperties
<1>3. <<>> \in Seq(S)
  OBVIOUS
<1>4. "no string" \in S /\ \A m \in Strings : m \in S
  OBVIOUS
<1>5. QED
  BY <1>1, <1>2, <1>3, <1>4 DEF Lists, Mixed

LEMMA TypeInit == Init => TypeOK
<1> SUFFICES ASSUME Init PROVE TypeOK
  OBVIOUS
<1>1. board \in Board /\ trial \in Board
  BY InitInv DEF IInv, BoardInv
<1>2. said \in [Agents -> Lists]
  BY ListTypes DEF Init
<1>3. QED
  BY <1>1, <1>2, BoundsAssumption DEF Init, TypeOK, Lists

LEMMA TypeNext ==
  ASSUME IInv, TypeOK, [Next]_vars
  PROVE  TypeOK'
<1>1. board' \in Board /\ trial' \in Board /\ level' \in Levels
  BY NextInv DEF IInv, BoardInv, Board
<1>2. /\ said \in [Agents -> Lists] /\ pay \in [Agents -> Int]
      /\ "tool" \in Agents /\ "plan" \in Agents
      /\ board.reward \in Int /\ trial.reward \in Int /\ board.done \in BOOLEAN
  BY DEF TypeOK, Lists, Agents, Board
<1>3. said' \in [Agents -> Lists]
  <2>1. ASSUME NEW a \in Agents, NEW l \in Lists, said' = [said EXCEPT ![a] = l]
        PROVE  said' \in [Agents -> Lists]
    BY <1>2, <2>1
  <2>2. CASE ToolSaysNothing
    BY <1>2, <2>1, <2>2, ListTypes DEF ToolSaysNothing
  <2>3. CASE ToolStarts
    BY <1>2, <2>1, <2>3, ListTypes DEF ToolStarts
  <2>4. CASE PlanMixes
    BY <1>2, <2>1, <2>4, ListTypes DEF PlanMixes
  <2>5. CASE PlanStarts
    BY <1>2, <2>1, <2>5, ListTypes DEF PlanStarts
  <2>6. ASSUME NEW m \in Strings, Try(m) PROVE said' \in [Agents -> Lists]
    BY <1>2, <2>1, <2>6, ListTypes DEF Try
  <2>7. ASSUME NEW m \in Strings, Move(m) PROVE said' \in [Agents -> Lists]
    BY <1>2, <2>1, <2>7, ListTypes DEF Move
  <2>8. CASE UNCHANGED said
    BY <1>2, <2>8
  <2>9. QED
    BY <2>2, <2>3, <2>4, <2>5, <2>6, <2>7, <2>8
    DEF Next, vars, ToolIsLate, ToolEnds, PlanEnds, Reward, NextTurn
<1>4. pay' \in [Agents -> Int]
  <2>1. ASSUME NEW a \in Agents, NEW n \in Int, pay' = [pay EXCEPT ![a] = n]
        PROVE  pay' \in [Agents -> Int]
    BY <1>2, <2>1
  <2>2. CASE ToolSaysNothing
    <3>1. -2000 \in Int /\ -1000 \in Int
      OBVIOUS
    <3>2. QED
      BY <1>2, <2>1, <2>2, <3>1 DEF ToolSaysNothing
  <2>3. CASE ToolEnds
    BY <1>2, <2>1, <2>3 DEF ToolEnds
  <2>4. CASE PlanMixes
    <3>1. -1000 \in Int
      OBVIOUS
    <3>2. QED
      BY <1>2, <2>1, <2>4, <3>1 DEF PlanMixes
  <2>5. CASE PlanEnds
    <3>1. (IF said.plan = <<>> THEN -2000 ELSE board.reward) \in Int
      BY <1>2
    <3>2. QED
      BY <1>2, <2>1, <2>5, <3>1 DEF PlanEnds
  <2>6. CASE Reward
    BY <1>2, <2>6 DEF Reward
  <2>7. CASE UNCHANGED pay
    BY <1>2, <2>7
  <2>8. QED
    BY <2>2, <2>3, <2>4, <2>5, <2>6, <2>7
    DEF Next, vars, ToolIsLate, ToolStarts, PlanStarts, Try, Move, NextTurn
<1>5. /\ env' \in [done : BOOLEAN, success : BOOLEAN]
      /\ turn' \in 1..MaxTurns /\ late' \subseteq 1..MaxTurns
      /\ pictures' \in BOOLEAN
      /\ pc' \in {"tool", "trying", "plan", "moving", "reward", "next", "over", "died"}
  <2>1. CASE ToolSaysNothing \/ ToolEnds
    BY <1>2, <2>1 DEF TypeOK, ToolSaysNothing, ToolEnds, Stepped
  <2>2. CASE ToolIsLate
    BY <1>2, <2>2 DEF TypeOK, ToolIsLate, Stepped
  <2>3. CASE ToolStarts \/ PlanStarts \/ \E m \in Strings : Try(m) \/ Move(m)
    BY <2>3 DEF TypeOK, ToolStarts, PlanStarts, Try, Move
  <2>4. CASE PlanMixes
    BY <1>2, <2>4 DEF TypeOK, PlanMixes, Stepped
  <2>5. CASE PlanEnds
    BY <1>2, <2>5 DEF TypeOK, PlanEnds, Stepped
  <2>6. CASE Reward
    BY <2>6 DEF TypeOK, Reward
  <2>7. CASE NextTurn
    <3>1. MaxTurns \in Nat
      BY BoundsAssumption
    <3>2. turn' \in 1..MaxTurns
      <4>1. turn \in 1..MaxTurns /\ turn' \in {turn, turn + 1} /\ (turn = MaxTurns => turn' = turn)
        BY <2>7 DEF TypeOK, NextTurn
      <4>2. QED
        BY <3>1, <4>1
    <3>3. pc' \in {"tool", "over"}
      BY <2>7 DEF TypeOK, NextTurn
    <3>4. QED
      BY <2>7, <3>2, <3>3 DEF TypeOK, NextTurn
  <2>8. CASE UNCHANGED vars
    BY <2>8 DEF TypeOK, vars
  <2>9. QED
    BY <2>1, <2>2, <2>3, <2>4, <2>5, <2>6, <2>7, <2>8 DEF Next
<1>6. QED
  BY <1>1, <1>3, <1>4, <1>5 DEF TypeOK, Lists

(* Every variable keeps its type; in particular all rewards are numbers,   *)
(* also those that the sum over the boxes of a Sokoban room enters.        *)
THEOREM TypeCorrect == Spec => []TypeOK
<1>1. IInv /\ TypeOK /\ [Next]_vars => TypeOK'
  BY TypeNext
<1>2. QED
  BY TypeInit, <1>1, Invariance, PTL DEF Spec

-----------------------------------------------------------------------------

-----------------------------------------------------------------------------

(***************************************************************************)
(* The tool agent's list and the plan agent's list start from the same     *)
(* board, and a list leads from a board to one board only.                 *)
(***************************************************************************)
Line(h, b, l, c) ==
  /\ h[0] = b /\ h[Len(l)] = c
  /\ \A i \in 1..Len(l) : h[i] = Played(h[i - 1], l[i])

Leads(b, l, c) == \E h : Line(h, b, l, c)

Unpaid(b) == [b EXCEPT !.reward = 0]

(* What the tool agent's step of this turn was, if it ended: no list, a    *)
(* list of other things, or a list played from board b.                    *)
Answered == turn \notin late
ToolFrom(b) ==
  \/ said.tool = <<>>
  \/ said.tool = Mixed /\ pay.tool = -1000
  \/ said.tool \in Seq(Strings) /\ Leads(b, said.tool, trial) /\ pay.tool = trial.reward

PayInv ==
  /\ late \subseteq 1..turn
  /\ pc \in {"tool", "trying"} => turn \notin late
  /\ pc = "trying" => said.tool \in Seq(Strings) /\ Leads(Unpaid(board), said.tool, trial)
  /\ pc = "plan" => (Answered => ToolFrom(Unpaid(board)))
  /\ pc = "moving" =>
       /\ said.plan \in Seq(Strings)
       /\ \E b : Leads(b, said.plan, board) /\ (Answered => ToolFrom(b))
  /\ pc \in {"reward", "next"} =>
       (Answered /\ said.tool = said.plan /\ said.plan # <<>>
          => pay.tool = pay.plan)

LEMMA LeadsNowhere == \A b : Leads(b, <<>>, b)
<1> TAKE b
<1> DEFINE h == [i \in {0} |-> b]
<1>1. Line(h, b, <<>>, b)
  BY DEF Line
<1>2. QED
  BY <1>1 DEF Leads

LEMMA LeadsOn ==
  ASSUME NEW l \in Seq(Strings), NEW m \in Strings, NEW b, NEW c, Leads(b, l, c)
  PROVE  Append(l, m) \in Seq(Strings) /\ Leads(b, Append(l, m), Played(c, m))
<1>1. PICK h : Line(h, b, l, c)
  BY DEF Leads
<1> DEFINE n == Len(l)
           g == [i \in 0..(n + 1) |-> IF i <= n THEN h[i] ELSE Played(c, m)]
<1>2. /\ Append(l, m) \in Seq(Strings) /\ n \in Nat /\ Len(Append(l, m)) = n + 1
      /\ \A i \in 1..n : Append(l, m)[i] = l[i]
      /\ Append(l, m)[n + 1] = m
  BY AppendProperties, LenProperties
<1> HIDE DEF n
<1>3. g[0] = b /\ g[n] = c /\ g[n + 1] = Played(c, m)
  BY <1>1, <1>2 DEF Line, n
<1>4. ASSUME NEW i \in 1..(n + 1) PROVE g[i] = Played(g[i - 1], Append(l, m)[i])
  <2>1. CASE i = n + 1
    BY <1>2, <1>3, <2>1
  <2>2. CASE i \in 1..n
    <3>1. h[i] = Played(h[i - 1], l[i])
      BY <1>1, <2>2 DEF Line, n
    <3>2. g[i] = h[i] /\ g[i - 1] = h[i - 1]
      BY <1>2, <2>2
    <3>3. QED
      BY <1>2, <2>2, <3>1, <3>2
  <2>3. QED
    BY <1>2, <2>1, <2>2
<1>5. Line(g, b, Append(l, m), Played(c, m))
  BY <1>2, <1>3, <1>4 DEF Line
<1>6. QED
  BY <1>2, <1>5 DEF Leads

LEMMA LeadsToOne ==
  ASSUME NEW l \in Seq(Strings), NEW b, NEW c, NEW d, Leads(b, l, c), Leads(b, l, d)
  PROVE  c = d
<1>1. PICK h : Line(h, b, l, c)
  BY DEF Leads
<1>2. PICK g : Line(g, b, l, d)
  BY DEF Leads
<1> DEFINE T == {i \in 0..Len(l) : h[i] # g[i]}
<1>3. Len(l) \in Nat
  BY LenProperties
<1>4. ASSUME T # {} PROVE FALSE
  <2>0. T \in SUBSET Nat
    BY <1>3
  <2> HIDE DEF T
  <2>1. PICK i \in T : \A j \in T : i <= j
    BY <1>4, <2>0, LeastNumber
  <2> USE DEF T
  <2>2. i # 0
    BY <1>1, <1>2, <2>1 DEF Line
  <2>3. i \in 1..Len(l) /\ i - 1 \in 0..Len(l) /\ i - 1 \notin T
    BY <1>3, <2>1, <2>2
  <2>4. h[i] = Played(h[i - 1], l[i]) /\ g[i] = Played(g[i - 1], l[i]) /\ h[i - 1] = g[i - 1]
    BY <1>1, <1>2, <2>3 DEF Line
  <2>5. QED
    BY <2>1, <2>4
<1>5. QED
  BY <1>1, <1>2, <1>3, <1>4 DEF Line

(* The level stays, so a list leads to the same board in the next state. *)
LEMMA SamePlayed ==
  ASSUME level' = level, NEW b, NEW m
  PROVE  Played(b, m)' = Played(b, m)
BY DEF Played, Tried, Valid, Moved, Solved, StepPay, Shaping, BoxPay, EndPay, IsShortest,
       Reached, Prices, Distance, Nearest, Min, MapThenSumSet, MapThenFoldSet

LEMMA SameLeads ==
  ASSUME level' = level, NEW b, NEW l, NEW c, Leads(b, l, c)
  PROVE  /\ said'.tool = l /\ trial' = c => Leads(b, said.tool, trial)'
         /\ said'.plan = l /\ board' = c => Leads(b, said.plan, board)'
<1>1. PICK h : Line(h, b, l, c)
  BY DEF Leads
<1>2. \A x, m : Played(x, m)' = Played(x, m)
  BY SamePlayed
<1>3. said'.tool = l /\ trial' = c => Line(h, b, said.tool, trial)'
  BY <1>1, <1>2 DEF Line
<1>4. said'.plan = l /\ board' = c => Line(h, b, said.plan, board)'
  BY <1>1, <1>2 DEF Line
<1>5. QED
  BY <1>3, <1>4 DEF Leads

LEMMA SameToolFrom ==
  ASSUME level' = level, said'.tool = said.tool, trial' = trial, pay'.tool = pay.tool,
         NEW b, ToolFrom(b)
  PROVE  ToolFrom(b)'
BY SameLeads DEF ToolFrom

LEMMA MixedIsNoMoves == Mixed \notin Seq(Strings) /\ Mixed # <<>>
<1>1. "no string" \notin Strings
  BY DEF Strings, Shift
<1>2. Len(Mixed) = 1 /\ Mixed[1] = "no string"
  BY DEF Mixed
<1>3. \A l \in Seq(Strings) : Len(l) = 1 => l[1] \in Strings
  BY ElementOfSeq
<1>4. Mixed \notin Seq(Strings)
  BY <1>1, <1>2, <1>3
<1>5. Mixed # <<>>
  BY DEF Mixed
<1>6. QED
  BY <1>4, <1>5

LEMMA TurnType == TypeOK => turn \in Nat \ {0}
<1>1. MaxTurns \in Nat
  BY BoundsAssumption
<1>2. \A n \in 1..MaxTurns : n \in Nat \ {0}
  BY <1>1
<1>3. QED
  BY <1>2 DEF TypeOK

LEMMA PayTool ==
  ASSUME IInv, TypeOK, PayInv,
         ToolSaysNothing \/ ToolIsLate \/ ToolStarts \/ (\E m \in Strings : Try(m)) \/ ToolEnds
  PROVE  PayInv'
<1> PICK b : b = Unpaid(board)
  OBVIOUS
<1>1. /\ "tool" \in Agents /\ turn \in Nat \ {0} /\ late \subseteq 1..turn
      /\ DOMAIN said = Agents /\ DOMAIN pay = Agents
  BY TurnType DEF TypeOK, PayInv, Agents
<1>2. CASE ToolSaysNothing
  <2>1. /\ pc' \in {"plan", "died"}
        /\ UNCHANGED <<turn, late>>
        /\ said'.tool = <<>> \/ (said'.tool = Mixed /\ pay'.tool = -1000)
    BY <1>1, <1>2 DEF ToolSaysNothing, Stepped, PayInv
  <2>2. ToolFrom(Unpaid(board))'
    BY <2>1 DEF ToolFrom
  <2>3. QED
    BY <1>1, <2>1, <2>2 DEF PayInv
<1>3. CASE ToolIsLate
  BY <1>1, <1>3 DEF ToolIsLate, Stepped, PayInv, Answered
<1>4. CASE ToolStarts
  <2>1. /\ said'.tool = <<>> /\ trial' = b /\ Unpaid(board)' = b /\ level' = level
    BY <1>1, <1>4 DEF ToolStarts, Unpaid
  <2>2. Leads(b, <<>>, b) /\ <<>> \in Seq(Strings)
    BY LeadsNowhere
  <2>3. Leads(Unpaid(board), said.tool, trial)'
    BY <2>1, <2>2, SameLeads
  <2>4. QED
    BY <1>1, <1>4, <2>1, <2>2, <2>3 DEF ToolStarts, PayInv
<1>5. ASSUME NEW m \in Strings, Try(m) PROVE PayInv'
  <2>1. /\ said.tool \in Seq(Strings) /\ Leads(b, said.tool, trial)
        /\ said'.tool = Append(said.tool, m) /\ trial' = Played(trial, m)
        /\ Unpaid(board)' = b /\ level' = level
    BY <1>1, <1>5 DEF Try, PayInv, Unpaid
  <2>2. said'.tool \in Seq(Strings) /\ Leads(b, Append(said.tool, m), Played(trial, m))
    BY <2>1, LeadsOn
  <2>3. Leads(Unpaid(board), said.tool, trial)'
    BY <2>1, <2>2, SameLeads
  <2>4. QED
    BY <1>1, <1>5, <2>2, <2>3 DEF Try, PayInv
<1>6. CASE ToolEnds
  <2>1. /\ said.tool \in Seq(Strings) /\ Leads(b, said.tool, trial)
        /\ UNCHANGED <<level, board, trial, said, turn, late>>
        /\ pay'.tool = trial.reward /\ pc' \in {"plan", "died"}
        /\ Unpaid(board)' = b
    BY <1>1, <1>6 DEF ToolEnds, Stepped, PayInv, Unpaid
  <2>2. ToolFrom(Unpaid(board))'
    BY <2>1, SameLeads DEF ToolFrom
  <2>3. QED
    BY <1>1, <2>1, <2>2 DEF PayInv
<1>7. QED
  BY <1>2, <1>3, <1>4, <1>5, <1>6

LEMMA PayPlan ==
  ASSUME IInv, TypeOK, PayInv,
         PlanMixes \/ PlanStarts \/ (\E m \in Strings : Move(m)) \/ PlanEnds
  PROVE  PayInv'
<1>1. /\ "tool" \in Agents /\ "plan" \in Agents /\ turn \in Nat /\ late \subseteq 1..turn
      /\ DOMAIN said = Agents /\ DOMAIN pay = Agents
  BY TurnType DEF TypeOK, PayInv, Agents
<1>2. UNCHANGED <<level, turn, late, trial>>
  BY DEF PlanMixes, PlanStarts, Move, PlanEnds
<1>3. CASE PlanMixes
  <2>1. /\ pc = "plan" /\ pc' \in {"reward", "died"}
        /\ said'.tool = said.tool /\ said'.plan = Mixed
        /\ pay'.tool = pay.tool /\ pay'.plan = -1000
    BY <1>1, <1>3 DEF PlanMixes, Stepped
  <2>2. Answered /\ said.tool = Mixed => pay.tool = -1000
    BY <2>1, MixedIsNoMoves DEF PayInv, ToolFrom
  <2>3. QED
    BY <1>1, <1>2, <2>1, <2>2 DEF PayInv, Answered
<1>4. CASE PlanStarts
  <2> PICK b : b = Unpaid(board)
    OBVIOUS
  <2>1. /\ pc = "plan" /\ pc' = "moving" /\ UNCHANGED pay
        /\ said'.tool = said.tool /\ said'.plan = <<>> /\ board' = b
    BY <1>1, <1>4 DEF PlanStarts, Unpaid
  <2>2. Leads(b, <<>>, b) /\ <<>> \in Seq(Strings)
    BY LeadsNowhere
  <2>3. Leads(b, said.plan, board)'
    BY <1>2, <2>1, <2>2, SameLeads
  <2>4. Answered' => ToolFrom(b)'
    BY <1>2, <2>1, SameToolFrom DEF PayInv, Answered
  <2>5. QED
    BY <1>1, <1>2, <2>1, <2>2, <2>3, <2>4 DEF PayInv
<1>5. ASSUME NEW m \in Strings, Move(m) PROVE PayInv'
  <2>1. /\ pc = "moving" /\ UNCHANGED <<pc, pay>> /\ said'.tool = said.tool
        /\ said'.plan = Append(said.plan, m) /\ board' = Played(board, m)
    BY <1>1, <1>5 DEF Move
  <2>2. PICK b : Leads(b, said.plan, board) /\ (Answered => ToolFrom(b))
    BY <2>1 DEF PayInv
  <2>3. said'.plan \in Seq(Strings) /\ Leads(b, Append(said.plan, m), Played(board, m))
    BY <2>1, <2>2, LeadsOn DEF PayInv
  <2>4. Leads(b, said.plan, board)'
    BY <1>2, <2>1, <2>3, SameLeads
  <2>5. Answered' => ToolFrom(b)'
    BY <1>2, <2>1, <2>2, SameToolFrom DEF Answered
  <2>6. QED
    BY <1>1, <1>2, <2>1, <2>3, <2>4, <2>5 DEF PayInv
<1>6. CASE PlanEnds
  <2>1. /\ pc = "moving" /\ pc' \in {"reward", "died"}
        /\ UNCHANGED said /\ pay'.tool = pay.tool
        /\ said.plan # <<>> => pay'.plan = board.reward
    BY <1>1, <1>6 DEF PlanEnds, Stepped
  <2>2. PICK b : Leads(b, said.plan, board) /\ (Answered => ToolFrom(b))
    BY <2>1 DEF PayInv
  <2>3. said.plan \in Seq(Strings)
    BY <2>1 DEF PayInv
  <2>4. ASSUME Answered, said.tool = said.plan, said.plan # <<>>
        PROVE  pay.tool = board.reward
    <3>1. Leads(b, said.plan, trial) /\ pay.tool = trial.reward
      BY <2>2, <2>3, <2>4, MixedIsNoMoves DEF ToolFrom
    <3>2. QED
      BY <2>2, <2>3, <3>1, LeadsToOne
  <2>5. QED
    BY <1>1, <1>2, <2>1, <2>4 DEF PayInv, Answered
<1>7. QED
  BY <1>3, <1>4, <1>5, <1>6

LEMMA PayRest ==
  ASSUME IInv, TypeOK, PayInv, Reward \/ NextTurn
  PROVE  PayInv'
<1>1. turn \in Nat /\ late \subseteq 1..turn /\ "tool" \in Agents /\ "plan" \in Agents
  BY TurnType DEF TypeOK, PayInv, Agents
<1>2. CASE Reward
  <2>1. /\ pc = "reward" /\ pc' = "next" /\ UNCHANGED <<turn, late, said>>
        /\ pay'.tool = pay.tool + board.reward
        /\ pay'.plan = pay.plan + board.reward
    BY <1>1, <1>2 DEF Reward
  <2>2. QED
    BY <1>1, <2>1 DEF PayInv, Answered
<1>3. CASE NextTurn
  <2>1. CASE pc' = "tool"
    <3>1. turn' = turn + 1 /\ late' = late
      BY <1>3, <2>1 DEF NextTurn
    <3>2. late \subseteq 1..(turn + 1) /\ turn + 1 \notin late
      BY <1>1
    <3>3. QED
      BY <2>1, <3>1, <3>2 DEF PayInv
  <2>2. CASE pc' = "over"
    BY <1>1, <1>3, <2>2 DEF NextTurn, PayInv
  <2>3. QED
    BY <1>3, <2>1, <2>2 DEF NextTurn
<1>4. QED
  BY <1>2, <1>3

LEMMA PayUnchanged ==
  ASSUME PayInv, UNCHANGED vars
  PROVE  PayInv'
<1> PICK a : a = Unpaid(board)
  OBVIOUS
<1>1. UNCHANGED <<level, pc, turn, board, trial, said, pay, late>> /\ Unpaid(board)' = a
  BY DEF vars, Unpaid
<1>2. pc = "trying" => Leads(Unpaid(board), said.tool, trial)'
  BY <1>1, SameLeads DEF PayInv
<1>3. pc = "plan" => (Answered' => ToolFrom(Unpaid(board))')
  BY <1>1, SameToolFrom DEF PayInv, Answered
<1>4. ASSUME pc = "moving"
      PROVE  \E b : Leads(b, said.plan, board)' /\ (Answered' => ToolFrom(b)')
  <2>1. PICK b : Leads(b, said.plan, board) /\ (Answered => ToolFrom(b))
    BY <1>4 DEF PayInv
  <2>2. Leads(b, said.plan, board)' /\ (Answered' => ToolFrom(b)')
    BY <1>1, <2>1, SameLeads, SameToolFrom DEF Answered
  <2>3. QED
    BY <2>2
<1>5. QED
  BY <1>1, <1>2, <1>3, <1>4 DEF PayInv, Answered

LEMMA PayInvariant == Spec => []PayInv
<1>1. Init => PayInv
  BY DEF Init, PayInv
<1>2. IInv /\ TypeOK /\ PayInv /\ [Next]_vars => PayInv'
  BY PayTool, PayPlan, PayRest, PayUnchanged DEF Next
<1>3. QED
  BY <1>1, <1>2, Invariance, TypeCorrect, PTL DEF Spec

-----------------------------------------------------------------------------

(* Whatever lists are played and however often, neither board loses a box, *)
(* walks through a wall or stands on a box.                                *)
THEOREM BoardsStayPlayable == Spec => []BoardsArePlayable
<1>1. IInv => BoardsArePlayable
  BY DEF IInv, BoardInv, BoardsArePlayable
<1>2. QED
  BY <1>1, Invariance, PTL

(* Only the goal or the limit ends a board, and only the real board ends   *)
(* the rollout, always as a success.                                       *)
THEOREM EndsInTime == Spec => []EndsAtGoalOrLimit
<1>1. IInv => EndsAtGoalOrLimit
  BY DEF IInv, BoardInv, Ends, PhaseInv, EndsAtGoalOrLimit
<1>2. QED
  BY <1>1, Invariance, PTL

(* Whatever moves the tool agent found and whatever they earned: a plan    *)
(* agent that plays the same ones in the same turn makes both agents' pay  *)
(* of the turn the same.                                                   *)
THEOREM SameMovesArePaidTheSame == Spec => []SameMovesSamePay
<1>1. TypeOK /\ PayInv => SameMovesSamePay
  BY DEF TypeOK, PayInv, Answered, SameMovesSamePay, Agents
<1>2. QED
  BY <1>1, TypeCorrect, PayInvariant, PTL

=============================================================================
