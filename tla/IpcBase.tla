------------------------------ MODULE IpcBase ------------------------------
(* What the semaphore and the mutex of kernel/src/ipc.c share: the ipc     *)
(* object's spin lock and priority-ordered wait queue, the kernel critical *)
(* section of each CPU (kernel/src/sched.c), and readying a thread, local  *)
(* or through the one-slot command mailbox of another CPU (thread.c,       *)
(* ipi.c).  Scheduling is strict priority per CPU: a thread takes a step   *)
(* only if no more urgent thread of its CPU is inside a call and able to   *)
(* run; a thread outside every call is waiting for time to pass.           *)
EXTENDS Integers, Sequences, FiniteSets, SequencesExt

CONSTANTS Threads,    \* the threads that use the object
          Cpus,
          NoThread,   \* NULL
          MaxCalls,   \* bound: calls one thread makes
          Apps        \* applications that use the object: records with fields
                      \*   cpu       [Threads -> Cpus]: thread->cpu
                      \*   prio      [Threads -> Nat]: smaller is more urgent
                      \*   killable  threads that may be killed while they wait

ASSUME ThreadsAssumption == NoThread \notin Threads /\ IsFiniteSet(Threads)
ASSUME MaxCallsAssumption == MaxCalls \in Nat
ASSUME AppsAssumption ==
  \A a \in Apps : /\ a.cpu \in [Threads -> Cpus]
                  /\ a.prio \in [Threads -> Nat]
                  /\ a.killable \subseteq Threads

VARIABLES app,        \* the application, chosen at the start
          suspended,  \* threads whose state has ACORAL_THREAD_STATE_SUSPEND
          crit,       \* [Cpus -> thread inside a critical section]: irqs masked
          mailbox,    \* [Cpus -> thread of the pending READY command]
          lock,       \* holder of ipc->lock beyond a single step
          wait_queue, \* ipc->wait_queue, head first
          ipc,        \* threads whose thread->ipc points to the object
          pc,         \* [Threads -> where the thread is]
          calls       \* [Threads -> calls made so far]

baseVars == <<app, suspended, crit, mailbox, lock, wait_queue, ipc, pc, calls>>

Cpu == app.cpu
Prio == app.prio
Killable == app.killable

(* Places outside a call: "rest" between calls, "dead" after a kill. *)
Resting == {"rest", "dead"}

-----------------------------------------------------------------------------
CanRun(t) ==
  /\ t \notin suspended
  /\ crit[Cpu[t]] = NoThread
  /\ \A u \in Threads :
       (Cpu[u] = Cpu[t] /\ Prio[u] < Prio[t]) => (u \in suspended \/ pc[u] \in Resting)

EnterCritical(t) == crit' = [crit EXCEPT ![Cpu[t]] = t]
ExitCritical(t) == crit' = [crit EXCEPT ![Cpu[t]] = NoThread]
InCritical(t) == crit[Cpu[t]] = t

GoTo(t, place) == pc' = [pc EXCEPT ![t] = place]

(* acoral_ipc_high_thread *)
HighThread == IF wait_queue = << >> THEN NoThread ELSE Head(wait_queue)

(* acoral_prio_queue_add: before the first node with a larger value, where *)
(* the value of a node is the priority the thread was created with.        *)
QueueAdd(queue, t) ==
  LET after == {i \in 1 .. Len(queue) : Prio[queue[i]] > Prio[t]}
  IN InsertAt(queue, IF after = {} THEN Len(queue) + 1 ELSE Min(after), t)

(* acoral_prio_queue_del *)
QueueDel(queue, t) == RemoveFirst(queue, t)

QueuedThreads == ToSet(wait_queue)

(* acoral_ipc_wait_queue_add and _del *)
WaitQueueAdd(t) == wait_queue' = QueueAdd(wait_queue, t) /\ ipc' = ipc \cup {t}
WaitQueueDel(t) == wait_queue' = QueueDel(wait_queue, t) /\ ipc' = ipc \ {t}

(* acoral_rdy_thread(t) called by p.  A thread that is not suspended is    *)
(* left alone; one of another CPU needs the free mailbox of that CPU, and  *)
(* while the mailbox is taken the caller spins (the action is disabled).   *)
RdyThread(p, t) ==
  \/ t \notin suspended /\ UNCHANGED <<suspended, mailbox>>
  \/ /\ t \in suspended /\ Cpu[t] = Cpu[p]
     /\ suspended' = suspended \ {t}
     /\ UNCHANGED mailbox
  \/ /\ t \in suspended /\ Cpu[t] # Cpu[p]
     /\ mailbox[Cpu[t]] = NoThread
     /\ mailbox' = [mailbox EXCEPT ![Cpu[t]] = t]
     /\ UNCHANGED suspended

(* acoral_ipi_cmd_handler on CPU c, entered only while its irqs are not    *)
(* masked: frees the mailbox, then acoral_rdy_thread_by_id.                *)
IpiHandler(c) ==
  /\ crit[c] = NoThread
  /\ mailbox[c] # NoThread
  /\ suspended' = suspended \ {mailbox[c]}
  /\ mailbox' = [mailbox EXCEPT ![c] = NoThread]

BaseInit ==
  /\ app \in Apps
  /\ suspended = {}
  /\ crit = [c \in Cpus |-> NoThread]
  /\ mailbox = [c \in Cpus |-> NoThread]
  /\ lock = NoThread
  /\ wait_queue = << >>
  /\ ipc = {}
  /\ pc = [t \in Threads |-> "rest"]
  /\ calls = [t \in Threads |-> 0]
=============================================================================
