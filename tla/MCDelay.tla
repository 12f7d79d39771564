------------------------------ MODULE MCDelay ------------------------------
(* Instances of the delay queue: three sleepers on the clock's CPU; one    *)
(* there and two on the other CPU, some of them killed in their sleep.     *)
EXTENDS Delay, TLC

CONSTANTS t1, t2, t3

OneCpu == t1 :> 0 @@ t2 :> 0 @@ t3 :> 0
TwoCpus == t1 :> 0 @@ t2 :> 1 @@ t3 :> 1

Exact == [cpu |-> OneCpu, ticks |-> {1, 2, 3}, killable |-> {}]
Shared == [cpu |-> TwoCpus, ticks |-> {1, 2}, killable |-> {}]
Deadly == [cpu |-> TwoCpus, ticks |-> {1, 2}, killable |-> {t1, t2}]

ExactAndDeadly == {Exact, Deadly}
OnlyShared == {Shared}
=============================================================================
