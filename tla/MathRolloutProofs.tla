------------------------- MODULE MathRolloutProofs -------------------------
(***************************************************************************)
(* Theorems about MathRollout, for any answers, any relation verify may    *)
(* be, any number of turns and of failures.                                *)
(***************************************************************************)
EXTENDS MathRollout, TLAPS

Own == IF env.code = Error THEN -1 ELSE Point(Verify(env.code, Truth))

\* The tool agent has had its turn, its share is still to come.
Stepped == pc \in {"reason", "reward", "raised"}

(* A step in time resets the tool agent's pay to its own part, which is    *)
(* known until the reward; a late one has been counted in lates already.   *)
PayInv ==
  /\ pay[Tool] \in -1..(2 + lates)
  /\ Stepped => pay[Tool] <= 1 + lates
  /\ Stepped /\ ~late => pay[Tool] = Own
  /\ env.success <=> Verify(env.reason, Truth)

(* done is set by the last reasoning step of the episode. *)
DoneInv ==
  /\ env.done => pc \in {"reward", "paid", "over"}
  /\ pc \in {"reward", "paid", "over"} => (env.done <=> Verify(env.code, env.reason))

IInv == TypeOK /\ PayInv /\ DoneInv /\ StopsOnAgreement /\ PayIsEarned

LEMMA InitInv == Init => IInv
<1> SUFFICES ASSUME Init PROVE IInv
  OBVIOUS
<1>1. ~Verify(Unset, Truth)
  BY MathAssumption DEF Verify
<1>2. /\ pc = "generate" /\ turn = 0 /\ late = FALSE /\ lates = 0 /\ faults = 0
      /\ env = [code |-> Unset, reason |-> Unset, done |-> FALSE, success |-> FALSE]
      /\ pay = [a \in Agents |-> 0] /\ Tool \in Agents
  BY DEF Init, Agents
<1>3. TypeOK
  <2>1. turn \in 0..(MaxTurns - 1) /\ faults \in 0..MaxFaults /\ pay \in [Agents -> Int]
    BY <1>2, MathAssumption
  <2>2. env \in [code : Answers \cup {Unset, Error}, reason : Answers \cup {Unset},
                 done : BOOLEAN, success : BOOLEAN]
    BY <1>2
  <2>3. QED
    BY <1>2, <2>1, <2>2 DEF TypeOK
<1>4. PayInv /\ DoneInv /\ StopsOnAgreement /\ PayIsEarned
  BY <1>1, <1>2 DEF PayInv, DoneInv, StopsOnAgreement, PayIsEarned, Stepped
<1>5. QED
  BY <1>3, <1>4 DEF IInv

-----------------------------------------------------------------------------
LEMMA GenerateKeeps == IInv /\ Generate => IInv'
<1> SUFFICES ASSUME IInv, Generate PROVE IInv'
  OBVIOUS
<1>1. TypeOK'
  BY DEF IInv, TypeOK, Generate
<1>2. ~env.done
  BY DEF IInv, DoneInv, Generate
<1>3. PayInv' /\ DoneInv' /\ StopsOnAgreement' /\ PayIsEarned'
  BY <1>2 DEF IInv, TypeOK, PayInv, DoneInv, StopsOnAgreement, PayIsEarned, Generate, Stepped, Own
<1>4. QED
  BY <1>1, <1>3 DEF IInv

(* The tool agent's part of a turn. *)
ToolPart == ToolAnswers \/ ToolRaises \/ ToolIsLate

LEMMA ToolKeeps == IInv /\ ToolPart => IInv'
<1> SUFFICES ASSUME IInv, ToolPart PROVE IInv'
  OBVIOUS
<1>1. /\ TypeOK /\ PayInv /\ ~env.done /\ pc = "tool" /\ pc' = "reason"
      /\ UNCHANGED turn
  BY DEF IInv, DoneInv, ToolPart, ToolAnswers, ToolRaises, ToolIsLate, Runs
<1>2. /\ env' = [env EXCEPT !.code = env'.code]
      /\ env'.code \in Answers \cup {Unset, Error}
  BY <1>1 DEF TypeOK, ToolPart, ToolAnswers, ToolRaises, ToolIsLate
<1>3. lates' \in Nat /\ late' \in BOOLEAN /\ faults' \in 0..MaxFaults
  <2>1. ASSUME Fault PROVE faults' \in 0..MaxFaults
    BY <1>1, <2>1, MathAssumption DEF Fault, TypeOK
  <2>2. ASSUME UNCHANGED faults PROVE faults' \in 0..MaxFaults
    BY <1>1, <2>2 DEF TypeOK
  <2>3. Fault \/ UNCHANGED faults
    BY DEF ToolPart, ToolAnswers, ToolRaises, ToolIsLate
  <2>4. lates' \in Nat /\ late' \in BOOLEAN
    <3>1. \/ lates' = lates + 1 /\ late' = TRUE
          \/ lates' = lates /\ late' = late
      BY DEF ToolPart, ToolAnswers, ToolRaises, ToolIsLate
    <3>2. lates \in Nat /\ late \in BOOLEAN
      BY <1>1 DEF TypeOK
    <3>3. CASE lates' = lates + 1 /\ late' = TRUE
      BY <3>2, <3>3
    <3>4. CASE lates' = lates /\ late' = late
      BY <3>2, <3>4
    <3>5. QED
      BY <3>1, <3>3, <3>4
  <2>5. QED
    BY <2>1, <2>2, <2>3, <2>4
<1>4. /\ pay' \in [Agents -> Int]
      /\ pay'[Tool] \in -1..(2 + lates')
      /\ pay'[Tool] <= 1 + lates'
      /\ ~late' => pay'[Tool] = Own'
  <2>1. CASE ToolAnswers
    BY <1>1, <2>1, MathAssumption DEF ToolAnswers, TypeOK, PayInv, Own, Point, Agents, Error
  <2>2. CASE ToolRaises
    BY <1>1, <2>2 DEF ToolRaises, TypeOK, PayInv, Own, Agents
  <2>3. CASE ToolIsLate
    BY <1>1, <2>3 DEF ToolIsLate, TypeOK, PayInv, Own
  <2>4. QED
    BY <2>1, <2>2, <2>3 DEF ToolPart
<1>5. TypeOK'
  BY <1>1, <1>2, <1>3, <1>4 DEF TypeOK
<1>6. PayInv'
  BY <1>1, <1>2, <1>4 DEF PayInv, Stepped, TypeOK
<1>7. DoneInv' /\ StopsOnAgreement' /\ PayIsEarned'
  BY <1>1, <1>2, <1>4 DEF DoneInv, StopsOnAgreement, PayIsEarned, TypeOK
<1>8. QED
  BY <1>5, <1>6, <1>7 DEF IInv

(* The reasoning agent's part. *)
ReasonerPart == ReasonerAnswers \/ ReasonerRaises

LEMMA ReasonerKeeps == IInv /\ ReasonerPart => IInv'
<1> SUFFICES ASSUME IInv, ReasonerPart PROVE IInv'
  OBVIOUS
<1>1. TypeOK /\ PayInv /\ ~env.done /\ pc = "reason" /\ UNCHANGED <<turn, pay, late, lates>>
  BY DEF IInv, DoneInv, ReasonerPart, ReasonerAnswers, ReasonerRaises
<1>2. CASE ReasonerAnswers
  <2>1. PICK a \in Answers : env' = Reasoned(a)
    BY <1>2 DEF ReasonerAnswers
  <2>2. /\ pc' = "reward" /\ UNCHANGED faults
        /\ env' = [code |-> env.code, reason |-> a,
                   done |-> Verify(env.code, a), success |-> Verify(a, Truth)]
    <3>1. env' = [env EXCEPT !.reason = a, !.success = Verify(a, Truth), !.done = Verify(env.code, a)]
      <4>1. (env.done \/ Verify(env.code, a)) = Verify(env.code, a)
        BY <1>1 DEF Verify
      <4>2. QED
        BY <2>1, <4>1 DEF Reasoned
    <3>2. env \in [code : Answers \cup {Unset, Error}, reason : Answers \cup {Unset},
                   done : BOOLEAN, success : BOOLEAN]
      BY <1>1 DEF TypeOK
    <3>3. QED
      BY <1>2, <3>1, <3>2 DEF ReasonerAnswers
  <2>3. TypeOK'
    BY <1>1, <2>2 DEF TypeOK, Verify
  <2>4. PayInv'
    BY <1>1, <2>2, MathAssumption DEF PayInv, Stepped, Own
  <2>5. DoneInv' /\ StopsOnAgreement' /\ PayIsEarned'
    BY <1>1, <2>2, <2>4 DEF DoneInv, StopsOnAgreement, PayIsEarned, PayInv
  <2>6. QED
    BY <2>3, <2>4, <2>5 DEF IInv
<1>3. CASE ReasonerRaises
  <2>1. pc' = "raised" /\ UNCHANGED env /\ faults' \in 0..MaxFaults
    BY <1>1, <1>3, MathAssumption DEF ReasonerRaises, Fault, TypeOK
  <2>2. TypeOK' /\ PayInv'
    BY <1>1, <2>1 DEF TypeOK, PayInv, Stepped, Own
  <2>3. DoneInv' /\ StopsOnAgreement' /\ PayIsEarned'
    BY <1>1, <2>1, <2>2 DEF DoneInv, StopsOnAgreement, PayIsEarned, PayInv
  <2>4. QED
    BY <2>2, <2>3 DEF IInv
<1>4. QED
  BY <1>2, <1>3 DEF ReasonerPart

(* The rewards. *)
LEMMA RewardKeeps == IInv /\ Reward => IInv'
<1> SUFFICES ASSUME IInv, Reward PROVE IInv'
  OBVIOUS
<1>1. /\ TypeOK /\ PayInv /\ DoneInv /\ pc = "reward" /\ pc' = "paid"
      /\ UNCHANGED <<turn, env, late, lates, faults>>
  BY DEF IInv, Reward
<1>2. Point(env.success) \in {0, 1} /\ env.success = Verify(env.reason, Truth)
  BY <1>1 DEF PayInv, Point, TypeOK, Verify
<1>3. /\ pay' \in [Agents -> Int]
      /\ pay'[Tool] = pay[Tool] + Point(env.success)
      /\ pay'[Reasoner] = 2 * Point(env.success)
  BY <1>1, <1>2 DEF Reward, TypeOK, Agents, Tool, Reasoner
<1>4. TypeOK'
  BY <1>1, <1>3 DEF TypeOK
<1>5. pay'[Tool] \in -1..(2 + lates)
  <2>1. pay[Tool] \in -1..(2 + lates) /\ pay[Tool] <= 1 + lates /\ lates \in Nat
    BY <1>1 DEF PayInv, Stepped, TypeOK
  <2>2. QED
    BY <1>2, <1>3, <2>1
<1>6. PayInv' /\ DoneInv' /\ StopsOnAgreement'
  BY <1>1, <1>5 DEF PayInv, DoneInv, Stepped, StopsOnAgreement
<1>7. PayIsEarned'
  <2>1. ~late => pay[Tool] = Own
    BY <1>1 DEF PayInv, Stepped
  <2>2. ~late => pay'[Tool] = Own + Point(Verify(env.reason, Truth))
    BY <1>2, <1>3, <2>1
  <2>3. pay'[Reasoner] = 2 * Point(Verify(env.reason, Truth))
    BY <1>2, <1>3
  <2>4. QED
    BY <1>1, <1>5, <2>2, <2>3 DEF PayIsEarned, Own
<1>8. QED
  BY <1>4, <1>6, <1>7 DEF IInv

LEMMA NextTurnKeeps == IInv /\ NextTurn => IInv'
<1> SUFFICES ASSUME IInv, NextTurn PROVE IInv'
  OBVIOUS
<1>1. TypeOK /\ PayInv /\ DoneInv /\ pc = "paid" /\ UNCHANGED <<env, pay, late, lates, faults>>
  BY DEF IInv, NextTurn
<1>2. \/ (env.done \/ turn = MaxTurns - 1) /\ pc' = "over" /\ turn' = turn
      \/ ~env.done /\ turn # MaxTurns - 1 /\ pc' = "generate" /\ turn' = turn + 1
  BY <1>1 DEF NextTurn
<1>3. TypeOK'
  BY <1>1, <1>2, MathAssumption DEF TypeOK
<1>4. PayInv' /\ DoneInv' /\ PayIsEarned'
  BY <1>1, <1>2 DEF PayInv, DoneInv, PayIsEarned, Stepped, Own
<1>5. StopsOnAgreement'
  BY <1>1, <1>2 DEF StopsOnAgreement, DoneInv, PayInv
<1>6. QED
  BY <1>3, <1>4, <1>5 DEF IInv

LEMMA NextInv == IInv /\ [Next]_vars => IInv'
<1>1. IInv /\ UNCHANGED vars => IInv'
  BY DEF IInv, TypeOK, PayInv, DoneInv, StopsOnAgreement, PayIsEarned, Stepped, Own, vars
<1>2. QED
  BY <1>1, GenerateKeeps, ToolKeeps, ReasonerKeeps, RewardKeeps, NextTurnKeeps
     DEF Next, ToolPart, ReasonerPart, Ended

(* Every episode of the math task keeps its types. *)
THEOREM TypeCorrect == Spec => []TypeOK
<1>1. IInv => TypeOK
  BY DEF IInv
<1>2. QED
  BY <1>1, InitInv, NextInv, PTL DEF Spec

(* An episode ends on agreement, whatever verify accepts and what fails. *)
THEOREM EndsByAgreement == Spec => []StopsOnAgreement
<1>1. IInv => StopsOnAgreement
  BY DEF IInv
<1>2. QED
  BY <1>1, InitInv, NextInv, PTL DEF Spec

(* What a turn pays, over any number of turns and cancelled steps. *)
THEOREM PaysWhatIsEarned == Spec => []PayIsEarned
<1>1. IInv => PayIsEarned
  BY DEF IInv
<1>2. QED
  BY <1>1, InitInv, NextInv, PTL DEF Spec

=============================================================================
