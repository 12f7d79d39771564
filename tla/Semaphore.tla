----------------------------- MODULE Semaphore -----------------------------
(* The counting semaphore of kernel/src/ipc.c: acoral_sem_pend, _trypend,  *)
(* _pends, _post, _posts and the kill of a waiting thread (thread.c).      *)
(* count is 1 minus the free resources; a blocked pend has already added   *)
(* itself to count, stays in the wait queue after it is readied, and takes *)
(* itself out when it runs again.                                          *)
EXTENDS IpcBase

(* An application also says, in its fields                                 *)
(*   ops  [Threads -> set of operations the thread calls],                 *)
(*   num  the resources the semaphore is created with.                     *)
OpNames == {"pend", "trypend", "pends", "post", "posts"}

ASSUME SemAppsAssumption ==
  \A a \in Apps : a.ops \in [Threads -> SUBSET OpNames] /\ a.num \in Nat

(* The kernel has CFG_MAX_THREAD = 60 threads; from 127 waiters on the     *)
(* test of count below would take a taken semaphore for a free one.        *)
ASSUME ThreadCountAssumption == Cardinality(Threads) < 127

Ops == app.ops
SemNum == app.num

VARIABLES count,      \* ipc->count, acoral_16
          targets,    \* [Threads -> threads a post in progress has yet to ready]
          granted,    \* pends and trypends that returned KR_OK (history)
          posted,     \* posts that entered the semaphore (history)
          lostPost    \* a post took the "Err Sem post" path (history)

vars == <<baseVars, count, targets, granted, posted, lostPost>>

Places == Resting \cup OpNames \cup {"gap", "gaps", "wake", "wakes", "ready", "readyall"}

SEM_AVAI == 0
SEM_NOAVAI == 1

(* Conversion of an integer to acoral_16 and acoral_8. *)
Int16 == {n \in Int : -32768 <= n /\ n <= 32767}
ToInt16(n) == ((n + 32768) % 65536) - 32768
ToInt8(n) == ((n + 128) % 256) - 128

(* The test "(acoral_8)ipc->count <= SEM_AVAI". *)
Available == ToInt8(count) <= SEM_AVAI

-----------------------------------------------------------------------------
(* acoral_sem_init *)
Init ==
  /\ BaseInit
  /\ count = ToInt16(1 - SemNum)
  /\ targets = [t \in Threads |-> << >>]
  /\ granted = 0
  /\ posted = 0
  /\ lostPost = FALSE

(* A thread calls an operation: acoral_enter_critical, then it spins on    *)
(* ipc->lock at the place named after the operation.                       *)
Call(t) ==
  /\ pc[t] = "rest" /\ CanRun(t) /\ calls[t] < MaxCalls
  /\ calls' = [calls EXCEPT ![t] = @ + 1]
  /\ \E op \in Ops[t] : GoTo(t, op)
  /\ EnterCritical(t)
  /\ UNCHANGED <<app, suspended, mailbox, lock, wait_queue, ipc, count, targets,
                 granted, posted, lostPost>>

(* Mutant: the resource is handed out without being counted. *)
PendTakeNoCount(t) ==
  /\ pc[t] \in {"pend", "trypend", "pends"} /\ InCritical(t) /\ lock = NoThread
  /\ Available
  /\ granted' = IF pc[t] = "pends" THEN granted ELSE granted + 1
  /\ GoTo(t, "rest")
  /\ ExitCritical(t)
  /\ UNCHANGED <<app, suspended, mailbox, lock, wait_queue, ipc, calls, count, targets, posted,
                 lostPost>>

(* pend, trypend and pends find a resource.  pends does not take it. *)
PendTake(t) ==
  /\ pc[t] \in {"pend", "trypend", "pends"} /\ InCritical(t) /\ lock = NoThread
  /\ Available
  /\ count' = IF pc[t] = "pends" THEN count ELSE ToInt16(count + 1)
  /\ granted' = IF pc[t] = "pends" THEN granted ELSE granted + 1
  /\ GoTo(t, "rest")
  /\ ExitCritical(t)
  /\ UNCHANGED <<app, suspended, mailbox, lock, wait_queue, ipc, calls, targets, posted, lostPost>>

(* trypend finds none: KR_IPC_ERR_TIMEOUT. *)
TrypendFail(t) ==
  /\ pc[t] = "trypend" /\ InCritical(t) /\ lock = NoThread
  /\ ~Available
  /\ GoTo(t, "rest")
  /\ ExitCritical(t)
  /\ UNCHANGED <<app, suspended, mailbox, lock, wait_queue, ipc, calls, count, targets,
                 granted, posted, lostPost>>

(* pend and pends find none: count (pend only), suspend self, enqueue and  *)
(* leave the critical section.                                             *)
PendBlock(t) ==
  /\ pc[t] \in {"pend", "pends"} /\ InCritical(t) /\ lock = NoThread
  /\ ~Available
  /\ count' = IF pc[t] = "pend" THEN ToInt16(count + 1) ELSE count
  /\ suspended' = suspended \cup {t}
  /\ WaitQueueAdd(t)
  /\ GoTo(t, IF pc[t] = "pend" THEN "gap" ELSE "gaps")
  /\ ExitCritical(t)
  /\ UNCHANGED <<app, mailbox, lock, calls, targets, granted, posted, lostPost>>

(* The thread has been readied and runs again after the scheduling gap. *)
PendResume(t) ==
  /\ pc[t] \in {"gap", "gaps"} /\ CanRun(t)
  /\ EnterCritical(t)
  /\ GoTo(t, IF pc[t] = "gap" THEN "wake" ELSE "wakes")
  /\ UNCHANGED <<app, suspended, mailbox, lock, wait_queue, ipc, calls, count, targets,
                 granted, posted, lostPost>>

(* Mutant: a woken pend counts itself a second time. *)
PendReturnCounts(t) ==
  /\ pc[t] \in {"wake", "wakes"} /\ InCritical(t) /\ lock = NoThread
  /\ WaitQueueDel(t)
  /\ count' = IF pc[t] = "wake" THEN ToInt16(count + 1) ELSE count
  /\ granted' = IF pc[t] = "wake" THEN granted + 1 ELSE granted
  /\ GoTo(t, "rest")
  /\ ExitCritical(t)
  /\ UNCHANGED <<app, suspended, mailbox, lock, calls, targets, posted, lostPost>>

(* It leaves the wait queue and returns KR_OK. *)
PendReturn(t) ==
  /\ pc[t] \in {"wake", "wakes"} /\ InCritical(t) /\ lock = NoThread
  /\ WaitQueueDel(t)
  /\ granted' = IF pc[t] = "wake" THEN granted + 1 ELSE granted
  /\ GoTo(t, "rest")
  /\ ExitCritical(t)
  /\ UNCHANGED <<app, suspended, mailbox, lock, calls, count, targets, posted, lostPost>>

(* post without a waiter to serve: the resource is put back. *)
PostFree(t) ==
  /\ pc[t] = "post" /\ InCritical(t) /\ lock = NoThread
  /\ count <= SEM_NOAVAI
  /\ count' = ToInt16(count - 1)
  /\ posted' = posted + 1
  /\ GoTo(t, "rest")
  /\ ExitCritical(t)
  /\ UNCHANGED <<app, suspended, mailbox, lock, wait_queue, ipc, calls, targets, granted, lostPost>>

(* post with count saying that somebody waits, and the queue empty: the    *)
(* message "Err Sem post" and KR_IPC_ERR_UNDEF.                            *)
PostLost(t) ==
  /\ pc[t] = "post" /\ InCritical(t) /\ lock = NoThread
  /\ count > SEM_NOAVAI /\ HighThread = NoThread
  /\ count' = ToInt16(count - 1)
  /\ posted' = posted + 1
  /\ lostPost' = TRUE
  /\ GoTo(t, "rest")
  /\ ExitCritical(t)
  /\ UNCHANGED <<app, suspended, mailbox, lock, wait_queue, ipc, calls, targets, granted>>

(* Mutant: the waiter is picked but never readied. *)
PostWakeForgets(t) ==
  /\ pc[t] = "post" /\ InCritical(t) /\ lock = NoThread
  /\ count > SEM_NOAVAI /\ HighThread # NoThread
  /\ count' = ToInt16(count - 1)
  /\ posted' = posted + 1
  /\ lock' = t
  /\ GoTo(t, "ready")
  /\ UNCHANGED <<app, suspended, crit, mailbox, wait_queue, ipc, calls, targets, granted, lostPost>>

(* post with a waiter: pick the head of the queue; ipc->lock stays held    *)
(* while the waiter is readied.                                            *)
PostWake(t) ==
  /\ pc[t] = "post" /\ InCritical(t) /\ lock = NoThread
  /\ count > SEM_NOAVAI /\ HighThread # NoThread
  /\ count' = ToInt16(count - 1)
  /\ posted' = posted + 1
  /\ lock' = t
  /\ targets' = [targets EXCEPT ![t] = <<HighThread>>]
  /\ GoTo(t, "ready")
  /\ UNCHANGED <<app, suspended, crit, mailbox, wait_queue, ipc, calls, granted, lostPost>>

(* Mutant: only the head of the queue is readied. *)
PostsWakeOne(t) ==
  /\ pc[t] = "posts" /\ InCritical(t) /\ lock = NoThread
  /\ count' = IF count <= SEM_NOAVAI THEN ToInt16(count - 1) ELSE count
  /\ posted' = IF count <= SEM_NOAVAI THEN posted + 1 ELSE posted
  /\ lock' = t
  /\ targets' = [targets EXCEPT ![t] = SubSeq(wait_queue, 1, IF wait_queue = << >> THEN 0 ELSE 1)]
  /\ GoTo(t, "readyall")
  /\ UNCHANGED <<app, suspended, crit, mailbox, wait_queue, ipc, calls, granted, lostPost>>

(* posts: put a resource back unless count says threads of pend wait, then *)
(* ready every waiter.                                                     *)
PostsWakeAll(t) ==
  /\ pc[t] = "posts" /\ InCritical(t) /\ lock = NoThread
  /\ count' = IF count <= SEM_NOAVAI THEN ToInt16(count - 1) ELSE count
  /\ posted' = IF count <= SEM_NOAVAI THEN posted + 1 ELSE posted
  /\ lock' = t
  /\ targets' = [targets EXCEPT ![t] = wait_queue]
  /\ GoTo(t, "readyall")
  /\ UNCHANGED <<app, suspended, crit, mailbox, wait_queue, ipc, calls, granted, lostPost>>

(* One acoral_rdy_thread of a post in progress. *)
PostReady(t) ==
  /\ pc[t] \in {"ready", "readyall"} /\ targets[t] # << >>
  /\ RdyThread(t, Head(targets[t]))
  /\ targets' = [targets EXCEPT ![t] = Tail(@)]
  /\ UNCHANGED <<app, crit, lock, wait_queue, ipc, pc, calls, count, granted, posted, lostPost>>

PostEnd(t) ==
  /\ pc[t] \in {"ready", "readyall"} /\ targets[t] = << >>
  /\ lock' = NoThread
  /\ GoTo(t, "rest")
  /\ ExitCritical(t)
  /\ UNCHANGED <<app, suspended, mailbox, wait_queue, ipc, calls, count, targets, granted,
                 posted, lostPost>>

(* acoral_kill_thread on the CPU of a waiting thread: it leaves the wait   *)
(* queue under ipc->lock; count is not touched.                            *)
Kill(t) ==
  /\ t \in Killable /\ t \in suspended /\ t \in ipc
  /\ crit[Cpu[t]] = NoThread /\ lock = NoThread
  /\ suspended' = suspended \ {t}
  /\ WaitQueueDel(t)
  /\ GoTo(t, "dead")
  /\ UNCHANGED <<app, crit, mailbox, lock, calls, count, targets, granted, posted, lostPost>>

Ipi(c) ==
  /\ IpiHandler(c)
  /\ UNCHANGED <<app, crit, lock, wait_queue, ipc, pc, calls, count, targets, granted,
                 posted, lostPost>>

ThreadStep(t) ==
  \/ PendTake(t) \/ TrypendFail(t) \/ PendBlock(t) \/ PendResume(t) \/ PendReturn(t)
  \/ PostFree(t) \/ PostLost(t) \/ PostWake(t) \/ PostsWakeAll(t)
  \/ PostReady(t) \/ PostEnd(t)

(* Everybody has finished or waits with nobody left to post. *)
Finished ==
  /\ \A t \in Threads : pc[t] \in Resting \/ t \in suspended
  /\ \A c \in Cpus : mailbox[c] = NoThread
  /\ \A t \in Threads : pc[t] = "rest" => calls[t] = MaxCalls
  /\ UNCHANGED vars

Next ==
  \/ \E t \in Threads : Call(t) \/ ThreadStep(t) \/ Kill(t)
  \/ \E c \in Cpus : Ipi(c)
  \/ Finished

(* A thread inside a call keeps executing when it has its CPU, and a CPU   *)
(* that accepts interrupts takes a pending one.  Starting a call and being *)
(* killed are the application's choice.                                    *)
Fairness ==
  /\ \A t \in Threads : WF_vars(ThreadStep(t))
  /\ \A c \in Cpus : WF_vars(Ipi(c))

Spec == Init /\ [][Next]_vars /\ Fairness

-----------------------------------------------------------------------------
TypeOK ==
  /\ app \in Apps
  /\ suspended \subseteq Threads
  /\ crit \in [Cpus -> Threads \cup {NoThread}]
  /\ mailbox \in [Cpus -> Threads \cup {NoThread}]
  /\ lock \in Threads \cup {NoThread}
  /\ wait_queue \in Seq(Threads)
  /\ ipc \subseteq Threads
  /\ pc \in [Threads -> Places]
  /\ calls \in [Threads -> 0 .. MaxCalls]
  /\ count \in Int16
  /\ targets \in [Threads -> Seq(Threads)]
  /\ granted \in Nat /\ posted \in Nat /\ lostPost \in BOOLEAN

(* Pends that wait or have been readied but have not returned. *)
Pending == {t \in Threads : pc[t] \in {"gap", "wake"}}

(* No resource is handed out twice and none is withheld.  The pends that   *)
(* came back successful never outnumber the initial resources plus the     *)
(* posts, although a woken pend returns KR_OK without looking at count     *)
(* again; and while a resource is free and not promised to a pend that     *)
(* waits a new pend does not block: the test of count really tells whether *)
(* resources are left, unless a kill took a waiter's share with it.        *)
Conservation ==
  /\ TypeOK
  /\ granted <= SemNum + posted
  /\ (SemNum + posted > granted + Cardinality(Pending) /\ \A t \in Threads : pc[t] # "dead")
       => Available

(* acoral_sem_post's own reading of count: when count is at most           *)
(* SEM_NOAVAI nobody is blocked in acoral_sem_pend any more, except a      *)
(* waiter whose wakeup is on its way.                                      *)
NoWaiterForgotten ==
  (count <= SEM_NOAVAI /\ lock = NoThread /\ \A c \in Cpus : mailbox[c] = NoThread) =>
     \A t \in Threads : pc[t] = "gap" => t \notin suspended

(* The use the semaphore supports: one CPU, no kills, and whoever posts is *)
(* less urgent than whoever waits, so that a woken waiter runs before the  *)
(* next post.                                                              *)
Calm ==
  /\ Killable = {} /\ \A t, u \in Threads : Cpu[t] = Cpu[u]
  /\ \A p, w \in Threads : ("post" \in Ops[p] /\ "pend" \in Ops[w]) => Prio[w] < Prio[p]

(* acoral_sem_post's error path, "there should be a waiting thread and     *)
(* none is found", is taken only after a waiter was killed: however posts  *)
(* and wakeups of two CPUs interleave, count never promises a waiter that  *)
(* the queue does not hold.                                                *)
PostFindsWaiter == lostPost => \E t \in Threads : pc[t] = "dead"

(* A waiter is not left behind by the posts that were meant for it: a      *)
(* blocked pend either returns or the semaphore is again out of resources. *)
WaiterServed ==
  \A t \in Threads :
     (Calm /\ pc[t] = "gap") ~> (pc[t] # "gap" \/ posted + SemNum <= granted)

(* posts is a broadcast: every thread that waits in pends when posts looks *)
(* at the queue comes back from pends.                                     *)
BroadcastServes ==
  \A t \in Threads :
     (Calm /\ pc[t] = "gaps" /\ \E p \in Threads : pc[p] = "readyall") ~> pc[t] = "rest"
=============================================================================
