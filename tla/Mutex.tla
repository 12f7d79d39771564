------------------------------- MODULE Mutex -------------------------------
(* The mutex of kernel/src/ipc.c: acoral_mutex_pend, _trypend and _post,   *)
(* and the kill of a waiting thread (thread.c).  Post frees the mutex,     *)
(* leaves the critical section and only then readies the head of the wait  *)
(* queue; a readied waiter takes the mutex if it finds it free and         *)
(* otherwise comes back with KR_IPC_ERR_UNDEF, still in the wait queue,    *)
(* where it stands when it goes on: it may take the mutex, pend again or   *)
(* exit.                                                                   *)
EXTENDS IpcBase

VARIABLES count,      \* ipc->count: "AVAI" or "NOAVAI"
          data,       \* ipc->data: the owner, or NULL
          target,     \* [Threads -> the waiter a post has yet to ready]
          left,       \* history: threads whose pend failed and left them queued
          broken      \* the links of the wait queue no longer are one list

vars == <<baseVars, count, data, target, left, broken>>

Counts == {"AVAI", "NOAVAI"}
Places == {"rest", "pend", "trypend", "gap", "wake", "hold", "post", "ready", "hung", "dead"}

-----------------------------------------------------------------------------
(* acoral_mutex_init *)
Init ==
  /\ BaseInit
  /\ count = "AVAI"
  /\ data = NoThread
  /\ target = [t \in Threads |-> NoThread]
  /\ left = {} /\ broken = FALSE

(* Enter acoral_mutex_pend or _trypend up to the spin on ipc->lock. *)
Call(t) ==
  /\ pc[t] = "rest" /\ CanRun(t) /\ calls[t] < MaxCalls
  /\ calls' = [calls EXCEPT ![t] = @ + 1]
  /\ \E op \in {"pend", "trypend"} : GoTo(t, op)
  /\ EnterCritical(t)
  /\ UNCHANGED <<app, suspended, mailbox, lock, wait_queue, ipc, count, data, target, left, broken>>

(* Mutant: the mutex is taken without looking at count. *)
TakeUnchecked(t) ==
  /\ pc[t] \in {"pend", "trypend"} /\ InCritical(t) /\ lock = NoThread
  /\ count' = "NOAVAI"
  /\ data' = t
  /\ GoTo(t, "hold")
  /\ ExitCritical(t)
  /\ UNCHANGED <<app, suspended, mailbox, lock, wait_queue, ipc, calls, target, left, broken>>

(* The mutex is available. *)
Take(t) ==
  /\ pc[t] \in {"pend", "trypend"} /\ InCritical(t) /\ lock = NoThread
  /\ count = "AVAI"
  /\ count' = "NOAVAI"
  /\ data' = t
  /\ GoTo(t, "hold")
  /\ ExitCritical(t)
  /\ UNCHANGED <<app, suspended, mailbox, lock, wait_queue, ipc, calls, target, left, broken>>

(* trypend gives up: KR_IPC_ERR_TIMEOUT. *)
TrypendFail(t) ==
  /\ pc[t] = "trypend" /\ InCritical(t) /\ lock = NoThread
  /\ count # "AVAI"
  /\ GoTo(t, "rest")
  /\ ExitCritical(t)
  /\ UNCHANGED <<app, suspended, mailbox, lock, wait_queue, ipc, calls, count, data, target, left, broken>>

(* acoral_prio_queue_add(t) puts a node that is already linked behind the  *)
(* threads of its priority that stand behind it; if there are none the     *)
(* node becomes its own predecessor, and acoral_list_add spins on the lock *)
(* of the node, which it has taken itself.                                 *)
EqualBehind(t) ==
  \E i, j \in 1 .. Len(wait_queue) :
    i < j /\ wait_queue[i] = t /\ Prio[wait_queue[j]] = Prio[t]

(* The list after an operation.  What its links are once they are broken   *)
(* is left open.                                                           *)
Links(queue) == wait_queue' = IF broken' THEN << >> ELSE queue

(* pend suspends its thread, enqueues it and leaves the critical section.  *)
(* Linked a second time, the node takes those between its two places out   *)
(* of the list.                                                            *)
PendBlock(t) ==
  /\ pc[t] = "pend" /\ InCritical(t) /\ lock = NoThread
  /\ count # "AVAI"
  /\ t \in QueuedThreads => EqualBehind(t)
  /\ broken' = (broken \/ t \in QueuedThreads)
  /\ Links(QueueAdd(wait_queue, t))
  /\ ipc' = ipc \cup {t}
  /\ suspended' = suspended \cup {t}
  /\ GoTo(t, "gap")
  /\ ExitCritical(t)
  /\ UNCHANGED <<app, mailbox, lock, calls, count, data, target, left>>

(* pend never comes back from the wait queue, interrupts masked and        *)
(* ipc->lock taken.  In broken links a removal may end like this, too.     *)
PendHangs(t) ==
  /\ InCritical(t) /\ lock = NoThread
  /\ \/ /\ pc[t] = "pend" /\ count # "AVAI"
        /\ broken \/ (t \in QueuedThreads /\ ~EqualBehind(t))
        /\ suspended' = suspended \cup {t}
     \/ /\ pc[t] = "wake" /\ data = NoThread /\ broken
        /\ UNCHANGED suspended
  /\ lock' = t
  /\ GoTo(t, "hung")
  /\ UNCHANGED <<app, crit, mailbox, wait_queue, ipc, calls, count, data, target, left, broken>>

(* The loop of a hung thread, or of one that waits for its lock. *)
Spin(t) ==
  /\ pc[t] = "hung"
  /\ UNCHANGED vars

(* After the scheduling gap. *)
PendResume(t) ==
  /\ pc[t] = "gap" /\ CanRun(t)
  /\ EnterCritical(t)
  /\ GoTo(t, "wake")
  /\ UNCHANGED <<app, suspended, mailbox, lock, wait_queue, ipc, calls, count, data, target, left, broken>>

(* Mutant: the waiter takes the mutex and stays in the wait queue. *)
PendTakeStaysQueued(t) ==
  /\ pc[t] = "wake" /\ InCritical(t) /\ lock = NoThread
  /\ data = NoThread
  /\ ipc' = ipc \ {t}
  /\ count' = "NOAVAI"
  /\ data' = t
  /\ GoTo(t, "hold")
  /\ ExitCritical(t)
  /\ UNCHANGED <<app, suspended, mailbox, lock, wait_queue, calls, target, left, broken>>

(* The readied waiter finds the mutex without owner and takes it. *)
PendTake(t) ==
  /\ pc[t] = "wake" /\ InCritical(t) /\ lock = NoThread
  /\ data = NoThread
  /\ WaitQueueDel(t)
  /\ count' = "NOAVAI"
  /\ data' = t
  /\ GoTo(t, "hold")
  /\ ExitCritical(t)
  /\ UNCHANGED <<app, suspended, mailbox, lock, calls, target, left, broken>>

(* Another thread was faster: KR_IPC_ERR_UNDEF, without leaving the wait   *)
(* queue.                                                                  *)
PendFail(t) ==
  /\ pc[t] = "wake" /\ InCritical(t) /\ lock = NoThread
  /\ data # NoThread
  /\ left' = left \cup {t}
  /\ GoTo(t, "rest")
  /\ ExitCritical(t)
  /\ UNCHANGED <<app, suspended, mailbox, lock, wait_queue, ipc, calls, count, data, target, broken>>

(* acoral_mutex_post, whose owner check precedes the critical section. *)
PostCall(t) ==
  /\ pc[t] = "hold" /\ CanRun(t)
  /\ data = t
  /\ ipc' = ipc \ {t}
  /\ EnterCritical(t)
  /\ GoTo(t, "post")
  /\ UNCHANGED <<app, suspended, mailbox, lock, wait_queue, calls, count, data, target, left, broken>>

(* Mutant: the release forgets the owner. *)
PostKeepsOwner(t) ==
  /\ pc[t] = "post" /\ InCritical(t) /\ lock = NoThread
  /\ count' = "AVAI"
  /\ target' = [target EXCEPT ![t] = HighThread]
  /\ GoTo(t, IF HighThread = NoThread THEN "rest" ELSE "ready")
  /\ ExitCritical(t)
  /\ UNCHANGED <<app, suspended, mailbox, lock, wait_queue, ipc, calls, data, left, broken>>

(* Mutant: a release with a waiter returns as if there were none. *)
PostNoWaiter(t) ==
  /\ pc[t] = "post" /\ InCritical(t) /\ lock = NoThread
  /\ count' = "AVAI"
  /\ data' = NoThread
  /\ GoTo(t, "rest")
  /\ ExitCritical(t)
  /\ UNCHANGED <<app, suspended, mailbox, lock, wait_queue, ipc, calls, target, left, broken>>

(* What acoral_ipc_high_thread can return. *)
HighThreads == IF broken THEN Threads \cup {NoThread} ELSE {HighThread}

(* The mutex is free again; the head of the wait queue is to be readied. *)
Post(t) ==
  /\ pc[t] = "post" /\ InCritical(t) /\ lock = NoThread
  /\ count' = "AVAI"
  /\ data' = NoThread
  /\ \E high \in HighThreads :
       /\ target' = [target EXCEPT ![t] = high]
       /\ GoTo(t, IF high = NoThread THEN "rest" ELSE "ready")
  /\ ExitCritical(t)
  /\ UNCHANGED <<app, suspended, mailbox, lock, wait_queue, ipc, calls, left, broken>>

(* acoral_rdy_thread(thread) after the critical section. *)
PostReady(t) ==
  /\ pc[t] = "ready" /\ CanRun(t)
  /\ RdyThread(t, target[t])
  /\ target' = [target EXCEPT ![t] = NoThread]
  /\ GoTo(t, "rest")
  /\ UNCHANGED <<app, crit, lock, wait_queue, ipc, calls, count, data, left, broken>>

(* acoral_kill_thread on the CPU of a waiting thread. *)
Kill(t) ==
  /\ t \in Killable /\ t \in suspended /\ t \in ipc
  /\ crit[Cpu[t]] = NoThread /\ lock = NoThread
  /\ suspended' = suspended \ {t}
  /\ WaitQueueDel(t)
  /\ GoTo(t, "dead")
  /\ UNCHANGED <<app, crit, mailbox, lock, calls, count, data, target, left, broken>>

(* acoral_thread_exit: a thread that is not suspended is not taken out of  *)
(* the wait queue, and its node goes into the release queue.               *)
Exit(t) ==
  /\ t \in Killable /\ pc[t] = "rest" /\ CanRun(t)
  /\ broken' = (broken \/ t \in QueuedThreads)
  /\ Links(wait_queue)
  /\ GoTo(t, "dead")
  /\ UNCHANGED <<app, suspended, crit, mailbox, lock, ipc, calls, count, data, target, left>>

Ipi(c) ==
  /\ IpiHandler(c)
  /\ UNCHANGED <<app, crit, lock, wait_queue, ipc, pc, calls, count, data, target, left, broken>>

(* What a thread that has its CPU does next inside the mutex code. *)
ThreadStep(t) ==
  \/ Take(t) \/ TrypendFail(t) \/ PendBlock(t) \/ PendResume(t) \/ PendTake(t)
  \/ PendFail(t) \/ PendHangs(t) \/ PostCall(t) \/ Post(t) \/ PostReady(t)

(* Nobody holds the mutex or is on the way to it, and no call is left. *)
Finished ==
  /\ \A t \in Threads : \/ pc[t] = "dead" \/ t \in suspended
                        \/ pc[t] = "rest" /\ calls[t] = MaxCalls
  /\ \A c \in Cpus : mailbox[c] = NoThread
  /\ UNCHANGED vars

Next ==
  \/ \E t \in Threads : Call(t) \/ ThreadStep(t) \/ Kill(t) \/ Exit(t) \/ Spin(t)
  \/ \E c \in Cpus : Ipi(c)
  \/ Finished

(* Threads with a CPU keep running and release what they hold; pending     *)
(* interrupts are taken.                                                   *)
Fairness ==
  /\ \A t \in Threads : WF_vars(ThreadStep(t))
  /\ \A c \in Cpus : WF_vars(Ipi(c))

Spec == Init /\ [][Next]_vars /\ Fairness

-----------------------------------------------------------------------------
(* The fields have their types, and a post never readies NULL. *)
TypeOK ==
  /\ app \in Apps
  /\ suspended \subseteq Threads
  /\ crit \in [Cpus -> Threads \cup {NoThread}]
  /\ mailbox \in [Cpus -> Threads \cup {NoThread}]
  /\ lock \in Threads \cup {NoThread}
  /\ wait_queue \in Seq(Threads)
  /\ ipc \subseteq Threads
  /\ pc \in [Threads -> Places]
  /\ calls \in [Threads -> 0 .. MaxCalls]
  /\ count \in Counts
  /\ data \in Threads \cup {NoThread}
  /\ target \in [Threads -> Threads \cup {NoThread}]
  /\ \A t \in Threads : pc[t] = "ready" => target[t] # NoThread
  /\ left \subseteq Threads /\ broken \in BOOLEAN

(* A thread that came back from pend or trypend with KR_OK and has not yet *)
(* released the mutex.                                                     *)
Holds(t) == pc[t] \in {"hold", "post"}

(* At most one thread holds the mutex. *)
MutualExclusion == \A t, u \in Threads : Holds(t) /\ Holds(u) => t = u

(* The owner recorded in the object is the thread that holds it, and count *)
(* and owner agree; this is what makes MutualExclusion inductive, because  *)
(* a fresh pend tests count and a readied one tests the owner.             *)
OwnerAgrees ==
  /\ \A t \in Threads : Holds(t) <=> data = t
  /\ count = "AVAI" <=> data = NoThread

(* The wait queue, whose head acoral_mutex_post readies and whose          *)
(* emptiness acoral_mutex_del takes for "no thread waits", holds every     *)
(* thread that waits, once, and beside them exactly those whose pend came  *)
(* back with KR_IPC_ERR_UNDEF, wherever they are by now.  This is so until *)
(* such a thread pends or exits while it is queued, which breaks the list. *)
QueueHoldsWaiters ==
  /\ TypeOK
  /\ ~broken =>
       /\ IsInjective(wait_queue)
       /\ \A t \in Threads : t \in QueuedThreads <=> pc[t] \in {"gap", "wake"} \/ t \in left

(* All threads on one CPU, and no kills. *)
OneCpu == Killable = {} /\ \A t, u \in Threads : Cpu[t] = Cpu[u]

(* On one CPU a thread blocked in pend gets the mutex, provided that the   *)
(* owner gives it back without sleeping (see Fairness).                    *)
WaiterServed == \A t \in Threads : (OneCpu /\ pc[t] = "gap") ~> (pc[t] = "hold")

(* What the code does not keep (see the README): no thread hangs inside    *)
(* the wait queue.  No run checks it.                                      *)
PendsReturn == \A t \in Threads : pc[t] # "hung"
=============================================================================
