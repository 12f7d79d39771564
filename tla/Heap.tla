------------------------------- MODULE Heap -------------------------------
(* What an allocator promises its callers: a range it hands out lies in    *)
(* its space and overlaps no range that somebody still owns.               *)
EXTENDS Integers

VARIABLES space,    \* the units that can be handed out, fixed
          owned     \* the ranges in use: records [at, size]

Units(b) == b.at .. (b.at + b.size - 1)

Init == owned = {}

Grant(b) ==
  /\ Units(b) # {} /\ Units(b) \subseteq space
  /\ \A o \in owned : Units(o) \cap Units(b) = {}
  /\ owned' = owned \cup {b}

Release(b) == owned' = owned \ {b}

Next ==
  /\ UNCHANGED space
  /\ \/ \E b \in owned' \ owned : Grant(b)
     \/ \E b \in owned : Release(b)

Spec == Init /\ [][Next]_<<space, owned>>

=============================================================================
