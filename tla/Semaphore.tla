----------------------------- MODULE Semaphore -----------------------------
(***************************************************************************)
(* What asyncio.Semaphore promises its users: at most Permits of them are  *)
(* past it, those who wait are let in in the order they came, and who      *)
(* gives up while waiting is forgotten.                                    *)
(***************************************************************************)
EXTENDS Naturals, FiniteSets, SequencesExt

CONSTANTS Users, Permits

VARIABLES
  line,     \* users that wait, first come first
  holding   \* users that hold a permit

Init == line = <<>> /\ holding = {}

InLine(u) == \E k \in DOMAIN line : line[k] = u

Wait(u) ==
  /\ ~InLine(u)
  /\ u \notin holding
  /\ line' = Append(line, u)
  /\ UNCHANGED holding

Enter ==
  /\ line # <<>>
  /\ Cardinality(holding) < Permits
  /\ line' = Tail(line)
  /\ holding' = holding \cup {Head(line)}

Leave(u) ==
  /\ u \in holding
  /\ holding' = holding \ {u}
  /\ UNCHANGED line

GiveUp(k) ==
  /\ line' = RemoveAt(line, k)
  /\ UNCHANGED holding

Next ==
  \/ Enter
  \/ \E u \in Users : Wait(u) \/ Leave(u)
  \/ \E k \in DOMAIN line : GiveUp(k)

Spec == Init /\ [][Next]_<<line, holding>>

=============================================================================
