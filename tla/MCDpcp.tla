------------------------------- MODULE MCDpcp -------------------------------
(* Applications of priority-ceiling resources. *)
EXTENDS Dpcp, TLC

CONSTANTS hi, mid, lo, r1, r2

(* A less urgent and a more urgent thread of one CPU share r1; r2 belongs  *)
(* to the less urgent one, which may sleep with either; mid interferes.    *)
Local ==
  [prio |-> hi :> 0 @@ mid :> 1 @@ lo :> 2, home |-> hi :> 0 @@ mid :> 0 @@ lo :> 0,
   type |-> r1 :> "local" @@ r2 :> "local", cpu |-> r1 :> 0 @@ r2 :> 0,
   uses |-> hi :> {r1} @@ mid :> {} @@ lo :> {r1, r2},
   jobs |-> hi :> 2 @@ mid :> 1 @@ lo :> 2, naps |-> {lo}]

(* The more urgent user sleeps instead. *)
LocalHi == [Local EXCEPT !.naps = {hi}]

(* hi and lo come from CPU 1 to use r1 of CPU 0, where mid lives. *)
Global == [Local EXCEPT !.home = hi :> 1 @@ mid :> 0 @@ lo :> 1,
             !.type = r1 :> "global" @@ r2 :> "global",
             !.uses = hi :> {r1} @@ mid :> {r1} @@ lo :> {r1}]
GlobalTwo == [Global EXCEPT !.uses = hi :> {r1} @@ mid :> {} @@ lo :> {r1, r2}]

(* The same where only hi comes, or only lo. *)
GlobalHi == [Global EXCEPT !.home = hi :> 1 @@ mid :> 0 @@ lo :> 0]
TwoHi == [GlobalTwo EXCEPT !.home = hi :> 1 @@ mid :> 0 @@ lo :> 0]
TwoLo == [GlobalTwo EXCEPT !.home = hi :> 0 @@ mid :> 1 @@ lo :> 1]

(* mid shares the global r1 with hi and the local r2 with lo. *)
Both == [GlobalHi EXCEPT !.type = r1 :> "global" @@ r2 :> "local",
             !.uses = hi :> {r1} @@ mid :> {r1, r2} @@ lo :> {r2}]

Sound == {Local, LocalHi, Global, GlobalTwo, GlobalHi, TwoHi, TwoLo, Both}

(* Three users of a local resource; a global resource whose more urgent    *)
(* user sleeps with it; three users of two local resources; two threads    *)
(* that come from CPU 1.                                                   *)
ThreeUsers == {[Local EXCEPT !.uses = hi :> {r1} @@ mid :> {r1} @@ lo :> {r1}]}
GlobalNap == {[TwoHi EXCEPT !.naps = {hi}]}
TwoResources == {[Local EXCEPT !.uses = hi :> {r1} @@ mid :> {r1, r2} @@ lo :> {r1, r2}]}
Crossing == {Global}
Plain == {Local}
=============================================================================
