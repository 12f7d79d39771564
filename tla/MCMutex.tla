------------------------------ MODULE MCMutex ------------------------------
(* Applications of the mutex. *)
EXTENDS Mutex, TLC

CONSTANTS t1, t2, t3

ThreePrios == t1 :> 1 @@ t2 :> 2 @@ t3 :> 3

(* Two CPUs with kills of waiters, threads of one priority on two CPUs,    *)
(* and one CPU without kills.                                              *)
Uses ==
  {[cpu |-> t1 :> 0 @@ t2 :> 1 @@ t3 :> 0, prio |-> ThreePrios, killable |-> {t1, t2}],
   [cpu |-> t1 :> 0 @@ t2 :> 1 @@ t3 :> 0, prio |-> t1 :> 1 @@ t2 :> 1 @@ t3 :> 3, killable |-> {}],
   [cpu |-> t1 :> 0 @@ t2 :> 0 @@ t3 :> 0, prio |-> ThreePrios, killable |-> {}]}
=============================================================================
