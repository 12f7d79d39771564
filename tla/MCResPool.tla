----------------------------- MODULE MCResPool -----------------------------
(* Applications of the resource pools: who creates and who releases, on    *)
(* which CPU, and how the control blocks are configured.                   *)
EXTENDS ResPool, TLC

CONSTANTS t1, t2, t3, thrd, ipc

Ctrl(type, size, want, max) == [type |-> type, size |-> size, want |-> want, max |-> max]

(* Two resources of size 3 ask for 6 and get a block of 8. *)
Small == Ctrl(1, 3, 2, 2)
(* The same with one pool only. *)
Single == Ctrl(1, 3, 2, 1)
(* Five resources in one pool: the last link of its free list, index div 4 *)
(* of a resource in use, is not always 0.                                  *)
Five == Ctrl(1, 3, 5, 1)
Ipc == Ctrl(2, 4, 1, 2)

App(cpu, role, ctrl, tctrl, bits) ==
  [cpu |-> cpu, prio |-> t1 :> 1 @@ t2 :> 2 @@ t3 :> 3, role |-> role, ctrl |-> ctrl, bits |-> bits,
   ctrls |-> thrd :> tctrl @@ ipc :> Ipc]

AllThrd == t1 :> thrd @@ t2 :> thrd @@ t3 :> thrd
OneIpc == t1 :> thrd @@ t2 :> ipc @@ t3 :> thrd
TwoGet == t1 :> "get" @@ t2 :> "get" @@ t3 :> "release"
OneGets == t1 :> "get" @@ t2 :> "masked" @@ t3 :> "release"
OneCpu == t1 :> 0 @@ t2 :> 0 @@ t3 :> 0
Apart == t1 :> 0 @@ t2 :> 0 @@ t3 :> 1
Across == t1 :> 0 @@ t2 :> 1 @@ t3 :> 1

(* Threads are created on CPU 0 and released on both CPUs; created on both *)
(* and released on CPU 1; created on CPU 0 from a single pool of five and  *)
(* released on CPU 1; thread and ipc blocks on one CPU; and threads from   *)
(* one pool run on both CPUs, so that the last link may leave the pool.    *)
Uses == {App(Apart, OneGets, AllThrd, Small, {0}), App(Across, TwoGet, AllThrd, Small, {0}),
         App(Apart, TwoGet, AllThrd, Five, {0}), App(OneCpu, TwoGet, OneIpc, Small, {0}),
         App(Apart, OneGets, AllThrd, Single, {0, 1})}

(* The daemon and a more urgent thread that creates threads, on one CPU. *)
Daemon == {App(OneCpu, TwoGet, AllThrd, Small, {0})}

(* Thread blocks on CPU 0 and ipc blocks on CPU 1. *)
Race == {App(Across, TwoGet, OneIpc, Small, {0})}

(* The theorems of ResPoolProofs cover what the run checks, but not Race. *)
ASSUME ExclusionAssumption ==
  (\A a \in Uses \cup Daemon : CreatorsExclude(a)) /\ \A a \in Race : ~CreatorsExclude(a)
=============================================================================
