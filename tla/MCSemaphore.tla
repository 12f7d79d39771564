---------------------------- MODULE MCSemaphore ----------------------------
(* Applications of the semaphore: which threads exist, on which CPU, at    *)
(* which priority, what they call and who may be killed.                   *)
EXTENDS Semaphore, TLC

CONSTANTS t1, t2, t3

OneCpu == t1 :> 0 @@ t2 :> 0 @@ t3 :> 0
TwoCpus == t1 :> 1 @@ t2 :> 1 @@ t3 :> 0
PosterLast == t1 :> 1 @@ t2 :> 2 @@ t3 :> 3
PosterFirst == t1 :> 2 @@ t2 :> 3 @@ t3 :> 1

TwoPendOnePosts == t1 :> {"pend", "trypend"} @@ t2 :> {"pend"} @@ t3 :> {"post"}
PendAndPost == t1 :> {"pend", "post"} @@ t2 :> {"pend", "trypend"} @@ t3 :> {"post", "pend"}
BroadcastOps == t1 :> {"pends"} @@ t2 :> {"pends"} @@ t3 :> {"posts"}

App(cpu, prio, ops, num, killable) ==
  [cpu |-> cpu, prio |-> prio, ops |-> ops, num |-> num, killable |-> killable]

(* One CPU and a poster that is less urgent than the waiters; two CPUs     *)
(* that wait, try and post with waiters being killed; the broadcast pair.  *)
Uses ==
  {App(OneCpu, PosterLast, TwoPendOnePosts, 1, {}),
   App(TwoCpus, PosterLast, PendAndPost, 1, {t1, t2}),
   App(OneCpu, PosterLast, BroadcastOps, 0, {})}

(* The poster is the most urgent thread of the only CPU. *)
UrgentPoster == {App(OneCpu, PosterFirst, TwoPendOnePosts, 0, {})}
=============================================================================
