----------------------------- MODULE Scheduler -----------------------------
(* Scheduling on several CPUs: the per-CPU ready queues and the context    *)
(* switch (kernel/src/sched.c), ready, suspend, priority change, migration *)
(* and kill of threads (thread.c), the one-slot command mailbox of each    *)
(* CPU (ipi.c), interrupt exit (int.c) and the daemon that releases killed *)
(* threads (smp.c).  A context, that is a thread or the interrupt handler  *)
(* of a CPU, carries out one call at a time, in the steps between which    *)
(* another context can see or change what the call relies on.              *)
EXTENDS Integers, Sequences, FiniteSets, SequencesExt

CONSTANTS Cpus, Threads, Prios,
          Idle,       \* [Cpus -> Threads]: the idle thread of each CPU
          Daem,       \* the daemon thread
          InitCpu,    \* [Threads -> Cpus]
          InitPrio,   \* [Threads -> Prios]: smaller is more urgent
          Preempt,    \* [Threads -> {"LOCAL", "GLOBAL", "TIMED"}]: preempt_type
          Apps,       \* applications: each a set of the calls it makes, records
                      \* [by, op, thread, arg, once]; a once call is made once
          None

ASSUME SetsAssumption ==
  /\ IsFiniteSet(Threads) /\ IsFiniteSet(Prios) /\ Prios \subseteq Nat
  /\ None \notin Threads \cup Cpus /\ Threads \cap Cpus = {}
ASSUME ThreadAssumption ==
  /\ Idle \in [Cpus -> Threads] /\ Daem \in Threads
  /\ InitCpu \in [Threads -> Cpus] /\ InitPrio \in [Threads -> Prios]
  /\ Preempt \in [Threads -> {"LOCAL", "GLOBAL", "TIMED"}]
  /\ \A c \in Cpus : InitCpu[Idle[c]] = c /\ Idle[c] # Daem

Ops == {"ready", "suspend", "chg_prio", "moveto", "movein", "kill"}

ASSUME AppsAssumption ==
  \A app \in Apps :
     /\ app \subseteq [by : Threads \cup Cpus, op : Ops, thread : Threads,
                       arg : Prios \cup Cpus \cup {None}, once : BOOLEAN]
     /\ \A k \in app : /\ k.op # "movein"
                       /\ k.op = "chg_prio" => k.arg \in Prios
                       /\ k.op = "moveto" => k.arg \in Cpus

VARIABLES state,      \* [Threads -> set of ACORAL_THREAD_STATE flags]
          cpu, prio,  \* thread->cpu, thread->prio
          queue,      \* [Cpus -> [Prios -> Seq(Threads)]]: array.queue
          bitmap,     \* [Cpus -> SUBSET Prios]: array.bitmap
          num,        \* [Cpus -> Int]: array.num
          running,    \* [Cpus -> Threads]: running_thread
          stack,      \* [Cpus -> the thread on whose stack the CPU executes]
          need_sched, \* CPUs whose need_sched is set
          irq_switch, \* CPUs whose hal_irq_switch is set
          crit,       \* CPUs whose thread is inside a critical section
          move_lock,  \* threads whose move_lock is taken
          mailbox,    \* [Cpus -> command or None]: ipi_cmd
          call,       \* [Threads \cup Cpus -> the call in progress]
          release,    \* acoral_release_queue
          tmp,        \* the daemon's tmp; None at the queue's head
          walk,       \* where the daemon is in its loop
          script      \* the calls the application may still make

vars == <<state, cpu, prio, queue, bitmap, num, running, stack, need_sched, irq_switch,
          crit, move_lock, mailbox, call, release, tmp, walk, script>>
rqVars == <<queue, bitmap, num>>
moveVars == <<cpu, move_lock>>
daemonVars == <<release, tmp, walk>>

-----------------------------------------------------------------------------
(* A call in progress: where it is, what it does, and the CPU it sends to. *)
NoCall == [pc |-> "none", op |-> "none", thread |-> None, arg |-> None, to |-> None]
ExitCall == [NoCall EXCEPT !.pc = "exit"]
CallAt(pc, op, t, arg, to) == [pc |-> pc, op |-> op, thread |-> t, arg |-> arg, to |-> to]
Command(op, t, arg) == [op |-> op, thread |-> t, arg |-> arg]

(* What is left of context x's work when its call returns: a handler has   *)
(* still to leave its interrupt.                                           *)
Returned(x) == IF x \in Cpus THEN ExitCall ELSE NoCall

SetCall(x, k) == call' = [call EXCEPT ![x] = k]
Return(x) == SetCall(x, Returned(x))

(* Context x has CPU c: the handler while an interrupt is being served,    *)
(* otherwise the running thread, once a requested switch has been made.    *)
Has(c, x) ==
  \/ x = c /\ call[c] # NoCall
  \/ /\ x = running[c] /\ x = stack[c] /\ call[c] = NoCall
     /\ c \in need_sched => c \in crit

(* Interrupts are taken outside critical sections and do not nest. *)
IrqOpen(c) == call[c] = NoCall /\ c \notin crit /\ stack[c] = running[c]

-----------------------------------------------------------------------------
(* acoral_thread_prio_queue_add, and the flags of rdyqueue_add. *)
AddQ(q, c, p, t) == [q EXCEPT ![c][p] = Append(@, t)]
AddFlags(f) == (f \ {"SUSPEND"}) \cup {"READY"}

(* acoral_list_del unlinks the node from whichever list it is in, while    *)
(* num and bitmap are those of the thread's cpu and prio.                  *)
DelQ(q, t) == [c \in Cpus |-> [p \in Prios |-> RemoveFirst(q[c][p], t)]]
DelFlags(f) == (f \ {"READY", "RUNNING"}) \cup {"SUSPEND"}

(* acoral_sched_rdyqueue_add(t) by a context of CPU c.  Its last write,    *)
(* the CPU bit of res.id, is read by res_pool.c only and modelled there    *)
(* (ResPool, Mark).                                                        *)
RdyQueueAdd(c, t) ==
  /\ queue' = AddQ(queue, cpu[t], prio[t], t)
  /\ bitmap' = [bitmap EXCEPT ![cpu[t]] = @ \cup {prio[t]}]
  /\ num' = [num EXCEPT ![cpu[t]] = @ + 1]
  /\ state' = [state EXCEPT ![t] = AddFlags(@)]
  /\ need_sched' = need_sched \cup {c}

(* Mutant: the bitmap bit stays when the last thread of a priority leaves. *)
ClearedBitsLazy(q, bits, c, p) == bits

(* The bit of priority p of CPU c goes when its queue is empty. *)
ClearedBits(q, bits, c, p) ==
  IF q[c][p] = << >> THEN [bits EXCEPT ![c] = @ \ {p}] ELSE bits

(* acoral_sched_rdyqueue_del(t) by a context of CPU c, leaving the flags   *)
(* to the caller.                                                          *)
RdyQueueDel(c, t) ==
  /\ queue' = DelQ(queue, t)
  /\ bitmap' = ClearedBits(DelQ(queue, t), bitmap, cpu[t], prio[t])
  /\ num' = [num EXCEPT ![cpu[t]] = @ - 1]
  /\ need_sched' = need_sched \cup {c}

(* acoral_select_thread *)
Selected(c) == Head(queue[c][Min(bitmap[c])])

(* What switch_context lets happen: a suspended thread always yields, a    *)
(* ready one unless it is timed, or global with a local successor.         *)
CanSwitch(prev, next) ==
  \/ "SUSPEND" \in state[prev]
  \/ ~(Preempt[prev] = "TIMED" \/ (Preempt[prev] = "GLOBAL" /\ Preempt[next] = "LOCAL"))

(* Mutant: the lock of a migrating thread stays taken. *)
LocksKept(prev) == move_lock

(* A thread that migrates itself is unlocked once it has left its CPU. *)
LocksAfter(prev) == IF "MOVE" \in state[prev] THEN move_lock \ {prev} ELSE move_lock

(* acoral_switch_context on CPU c. *)
SwitchContext(c) ==
  LET prev == running[c]
      next == Selected(c)
      left == IF state[prev] = {"EXIT"} THEN {"RELEASE"} ELSE state[prev] \ {"RUNNING", "MOVE"}
  IN /\ need_sched' = need_sched \ {c}
     /\ IF prev # next /\ (state[prev] = {"EXIT"} \/ CanSwitch(prev, next))
        THEN /\ running' = [running EXCEPT ![c] = next]
             /\ state' = [state EXCEPT ![prev] = left, ![next] = @ \cup {"RUNNING"}]
             /\ move_lock' = LocksAfter(prev)
        ELSE UNCHANGED <<running, state, move_lock>>

(* acoral_sched at the end of a thread's critical section. *)
Schedule(c) ==
  /\ IrqOpen(c) /\ c \in need_sched
  /\ SwitchContext(c)
  /\ UNCHANGED <<cpu, prio, rqVars, stack, irq_switch, crit, mailbox, call, daemonVars, script>>

(* acoral_intr_exit and the end of the interrupt entry code, which looks   *)
(* at hal_irq_switch only; nothing clears that flag.  An interrupt that    *)
(* hits acoral_exit_critical after HAL_INTR_RESTORE finds the sched_lock   *)
(* taken and leaves the switch to the thread (Schedule).                   *)
IntrExit(c) ==
  /\ call[c] = ExitCall
  /\ SetCall(c, NoCall)
  /\ \/ c \in need_sched /\ irq_switch' = irq_switch \cup {c}
     \/ irq_switch' = irq_switch
  /\ IF c \in irq_switch' THEN SwitchContext(c)
     ELSE UNCHANGED <<need_sched, running, state, move_lock>>
  /\ UNCHANGED <<cpu, prio, rqVars, stack, crit, mailbox, daemonVars, script>>

(* portRESTORE_CONTEXT, interrupts still off: until here the CPU executes  *)
(* acoral_switch_context on the stack of the thread it leaves.             *)
RestoreContext(c) ==
  /\ stack[c] # running[c]
  /\ stack' = [stack EXCEPT ![c] = running[c]]
  /\ UNCHANGED <<state, moveVars, prio, rqVars, running, need_sched, irq_switch, crit,
                 mailbox, call, daemonVars, script>>

-----------------------------------------------------------------------------
(* The checks a call makes before its critical section, by context x of    *)
(* CPU c, and where it goes on.                                            *)
Route(c, x, k) ==
  LET t == k.thread
      local == CallAt("commit", k.op, t, k.arg, None)
      remote == CallAt("send", k.op, t, k.arg, cpu[t])
      here == IF cpu[t] = c THEN local ELSE remote
  IN CASE k.op = "ready" -> IF "SUSPEND" \in state[t] THEN here ELSE Returned(x)
       [] k.op = "suspend" -> IF "READY" \in state[t] THEN here ELSE Returned(x)
       [] k.op \in {"chg_prio", "kill"} -> here
       [] k.op = "moveto" -> IF cpu[t] = k.arg THEN Returned(x)
                             ELSE CallAt("enter", k.op, t, k.arg, None)
       [] k.op = "movein" -> CallAt("spin", k.op, t, k.arg, None)

(* The thread running on c calls one of the operations, for a thread that  *)
(* has not been killed.                                                    *)
Begin(c, k) ==
  LET x == running[c] IN
  /\ Has(c, x) /\ call[x] = NoCall
  /\ k.by = x /\ state[k.thread] \cap {"EXIT", "RELEASE", "FREE"} = {}
  /\ script' = IF k.once THEN script \ {k} ELSE script
  /\ SetCall(x, Route(c, x, k))
  /\ UNCHANGED <<state, moveVars, prio, rqVars, running, stack, need_sched, irq_switch, crit,
                 mailbox, daemonVars>>

(* A clock or device interrupt of CPU c whose handler makes call k. *)
Interrupt(c, k) ==
  /\ IrqOpen(c)
  /\ k.by = c /\ state[k.thread] \cap {"EXIT", "RELEASE", "FREE"} = {}
  /\ script' = IF k.once THEN script \ {k} ELSE script
  /\ SetCall(c, Route(c, c, k))
  /\ UNCHANGED <<state, moveVars, prio, rqVars, running, stack, need_sched, irq_switch, crit,
                 mailbox, daemonVars>>

(* acoral_ipi_cmd_handler: read the command, free the mailbox, carry out. *)
IpiCmd(c) ==
  /\ IrqOpen(c) /\ mailbox[c] # None
  /\ \A x \in Threads : ~(call[x].pc = "sgi" /\ call[x].to = c)
  /\ SetCall(c, Route(c, c, mailbox[c]))
  /\ mailbox' = [mailbox EXCEPT ![c] = None]
  /\ UNCHANGED <<state, moveVars, prio, rqVars, running, stack, need_sched, irq_switch, crit,
                 daemonVars, script>>

(* acoral_ipi_cmd_send in a handler or a critical section: spins until the *)
(* mailbox of the CPU is free.  A migration unlocks afterwards, unless the *)
(* thread moves itself away: then the switch unlocks.                      *)
Send(c, x) ==
  LET k == call[x] IN
  /\ Has(c, x) /\ k.pc = "send" /\ (x = c \/ c \in crit)
  /\ mailbox[k.to] = None
  /\ mailbox' = [mailbox EXCEPT ![k.to] = Command(k.op, k.thread, k.arg)]
  /\ move_lock' = IF k.op = "moveto" \/ (k.op = "movein" /\ k.thread # running[c])
                  THEN move_lock \ {k.thread} ELSE move_lock
  /\ crit' = crit \ {c}
  /\ Return(x)
  /\ UNCHANGED <<state, cpu, prio, rqVars, running, stack, need_sched, irq_switch, daemonVars,
                 script>>

(* acoral_ipi_cmd_send by a thread whose interrupts are open: it locks and *)
(* fills the mailbox ...                                                   *)
SendFill(c) ==
  LET x == running[c]
      k == call[x]
  IN
  /\ Has(c, x) /\ k.pc = "send" /\ k.op \in {"ready", "suspend", "chg_prio", "kill"}
  /\ c \notin crit
  /\ mailbox[k.to] = None
  /\ mailbox' = [mailbox EXCEPT ![k.to] = Command(k.op, k.thread, k.arg)]
  /\ SetCall(x, CallAt("sgi", "none", None, None, k.to))
  /\ UNCHANGED <<state, moveVars, prio, rqVars, running, stack, need_sched, irq_switch, crit,
                 daemonVars, script>>

(* ... and then raises the interrupt.  An interrupt or a more urgent       *)
(* thread of its CPU can come in between.                                  *)
SendSignal(c) ==
  LET x == running[c] IN
  /\ Has(c, x) /\ call[x].pc = "sgi"
  /\ Return(x)
  /\ UNCHANGED <<state, moveVars, prio, rqVars, running, stack, need_sched, irq_switch, crit,
                 mailbox, daemonVars, script>>

(* Mutant: readying a thread asks for no switch. *)
CommitReadyUnflagged(c, x) ==
  LET k == call[x]
      t == k.thread
  IN
  /\ Has(c, x) /\ k.pc = "commit" /\ k.op \in {"ready", "movein"}
  /\ queue' = AddQ(queue, cpu[t], prio[t], t)
  /\ bitmap' = [bitmap EXCEPT ![cpu[t]] = @ \cup {prio[t]}]
  /\ num' = [num EXCEPT ![cpu[t]] = @ + 1]
  /\ state' = [state EXCEPT ![t] = AddFlags(@)]
  /\ move_lock' = IF k.op = "movein" THEN move_lock \ {t} ELSE move_lock
  /\ Return(x)
  /\ UNCHANGED <<cpu, prio, running, stack, need_sched, irq_switch, crit, mailbox, daemonVars,
                 script>>

(* The critical section of acoral_rdy_thread; for acoral_movein_thread     *)
(* also its unlock.                                                        *)
CommitReady(c, x) ==
  LET k == call[x] IN
  /\ Has(c, x) /\ k.pc = "commit" /\ k.op \in {"ready", "movein"}
  /\ RdyQueueAdd(c, k.thread)
  /\ move_lock' = IF k.op = "movein" THEN move_lock \ {k.thread} ELSE move_lock
  /\ Return(x)
  /\ UNCHANGED <<cpu, prio, running, stack, irq_switch, crit, mailbox, daemonVars, script>>

(* The critical section of acoral_suspend_thread. *)
CommitSuspend(c, x) ==
  LET k == call[x] IN
  /\ Has(c, x) /\ k.pc = "commit" /\ k.op = "suspend"
  /\ RdyQueueDel(c, k.thread)
  /\ state' = [state EXCEPT ![k.thread] = DelFlags(@)]
  /\ Return(x)
  /\ UNCHANGED <<moveVars, prio, running, stack, irq_switch, crit, mailbox, daemonVars, script>>

(* The priority asked for. *)
NewPrio(k) == k.arg

(* acoral_thread_change_prio: a ready thread leaves its queue and joins    *)
(* that of the new priority.                                               *)
CommitPrio(c, x) ==
  LET k == call[x]
      t == k.thread
      out == DelQ(queue, t)
  IN
  /\ Has(c, x) /\ k.pc = "commit" /\ k.op = "chg_prio"
  /\ prio' = [prio EXCEPT ![t] = NewPrio(k)]
  /\ IF "READY" \in state[t]
     THEN /\ queue' = AddQ(out, cpu[t], NewPrio(k), t)
          /\ bitmap' = [ClearedBits(out, bitmap, cpu[t], prio[t])
                          EXCEPT ![cpu[t]] = @ \cup {NewPrio(k)}]
          /\ state' = [state EXCEPT ![t] = AddFlags(DelFlags(@))]
          /\ need_sched' = need_sched \cup {c}
     ELSE UNCHANGED <<queue, bitmap, state, need_sched>>
  /\ Return(x)
  /\ UNCHANGED <<moveVars, num, running, stack, irq_switch, crit, mailbox, daemonVars, script>>

(* acoral_moveto_thread enters its critical section ... *)
MoveEnter(c, x) ==
  /\ Has(c, x) /\ call[x].pc = "enter"
  /\ crit' = crit \cup {c}
  /\ SetCall(x, [call[x] EXCEPT !.pc = "spin"])
  /\ UNCHANGED <<state, moveVars, prio, rqVars, running, stack, need_sched, irq_switch, mailbox,
                 daemonVars, script>>

(* ... takes the move_lock, and passes the call on to the thread's CPU, or *)
(* suspends the thread, marks it and is to tell the target CPU.            *)
MoveTo(c, x) ==
  LET k == call[x]
      t == k.thread
  IN
  /\ Has(c, x) /\ k.pc = "spin" /\ k.op = "moveto"
  /\ t \notin move_lock
  /\ move_lock' = move_lock \cup {t}
  /\ \/ /\ cpu[t] # c
        /\ SetCall(x, CallAt("send", "moveto", t, k.arg, cpu[t]))
        /\ UNCHANGED <<state, rqVars, need_sched>>
     \/ /\ cpu[t] = c /\ "READY" \in state[t]
        /\ RdyQueueDel(c, t)
        /\ state' = [state EXCEPT ![t] = DelFlags(@) \cup {"MOVE"}]
        /\ SetCall(x, CallAt("send", "movein", t, None, k.arg))
     \/ /\ cpu[t] = c /\ "READY" \notin state[t]
        /\ state' = [state EXCEPT ![t] = @ \cup {"MOVE"}]
        /\ SetCall(x, CallAt("send", "movein", t, None, k.arg))
        /\ UNCHANGED <<rqVars, need_sched>>
  /\ UNCHANGED <<cpu, prio, running, stack, irq_switch, crit, mailbox, daemonVars, script>>

(* Mutant: the arriving thread is taken over without its move_lock. *)
MoveInUnlocked(c, x) ==
  LET k == call[x]
      t == k.thread
  IN
  /\ Has(c, x) /\ k.pc = "spin" /\ k.op = "movein"
  /\ cpu' = [cpu EXCEPT ![t] = c]
  /\ SetCall(x, CallAt("commit", "movein", t, None, None))
  /\ UNCHANGED <<state, move_lock, prio, rqVars, running, stack, need_sched, irq_switch, crit,
                 mailbox, daemonVars, script>>

(* acoral_movein_thread: with the move_lock the thread changes its CPU;    *)
(* acoral_rdy_thread then looks whether it is suspended.                   *)
MoveIn(c, x) ==
  LET k == call[x]
      t == k.thread
  IN
  /\ Has(c, x) /\ k.pc = "spin" /\ k.op = "movein"
  /\ t \notin move_lock
  /\ cpu' = [cpu EXCEPT ![t] = c]
  /\ IF "SUSPEND" \in state[t]
     THEN /\ move_lock' = move_lock \cup {t}
          /\ SetCall(x, CallAt("commit", "movein", t, None, None))
     ELSE UNCHANGED move_lock /\ Return(x)
  /\ UNCHANGED <<state, prio, rqVars, running, stack, need_sched, irq_switch, crit, mailbox,
                 daemonVars, script>>

-----------------------------------------------------------------------------
(* acoral_kill_thread on the thread's CPU: take the thread out of the      *)
(* ready queue, mark it, queue it for release; the daemon is readied by    *)
(* the next step, still inside the critical section.                       *)
CommitKill(c, x) ==
  LET k == call[x]
      t == k.thread
  IN
  /\ Has(c, x) /\ k.pc = "commit" /\ k.op = "kill"
  /\ IF "READY" \in state[t] THEN RdyQueueDel(c, t) ELSE UNCHANGED <<rqVars, need_sched>>
  /\ state' = [state EXCEPT ![t] = {"EXIT"}]
  /\ release' = Append(release, t)
  /\ crit' = crit \cup {c}
  /\ SetCall(x, CallAt("daem", "ready", Daem, None, None))
  /\ UNCHANGED <<moveVars, prio, running, stack, irq_switch, mailbox, tmp, walk, script>>

(* Mutant: the daemon is not woken. *)
WakeDaemForgotten(c, x) ==
  /\ Has(c, x) /\ call[x].pc = "daem"
  /\ crit' = crit \ {c}
  /\ Return(x)
  /\ UNCHANGED <<state, moveVars, prio, rqVars, running, stack, need_sched, irq_switch, mailbox,
                 daemonVars, script>>

(* acoral_prerelease_thread readies the daemon, through the mailbox of its *)
(* CPU if that is another one.                                             *)
WakeDaem(c, x) ==
  /\ Has(c, x) /\ call[x].pc = "daem"
  /\ \/ /\ "SUSPEND" \notin state[Daem]
        /\ crit' = crit \ {c}
        /\ Return(x)
        /\ UNCHANGED <<state, rqVars, need_sched>>
     \/ /\ "SUSPEND" \in state[Daem] /\ cpu[Daem] = c
        /\ RdyQueueAdd(c, Daem)
        /\ crit' = crit \ {c}
        /\ Return(x)
     \/ /\ "SUSPEND" \in state[Daem] /\ cpu[Daem] # c
        /\ SetCall(x, CallAt("send", "ready", Daem, None, cpu[Daem]))
        /\ UNCHANGED <<state, rqVars, need_sched, crit>>
  /\ UNCHANGED <<moveVars, prio, running, stack, irq_switch, mailbox, daemonVars, script>>

(* Mutant: the walk does not notice the queue's head. *)
NextInCircular(q, t) ==
  LET at == {i \in 1 .. Len(q) : q[i] = t}
  IN IF at = {} THEN None ELSE q[(Min(at) % Len(q)) + 1]

(* The node after the first occurrence of t in the release queue. *)
NextIn(q, t) ==
  LET at == {i \in 1 .. Len(q) : q[i] = t}
  IN IF at = {} \/ Min(at) = Len(q) THEN None ELSE q[Min(at) + 1]

(* daem when it runs again: start at the first node. *)
DaemStart(c) ==
  /\ Has(c, Daem) /\ running[c] = Daem /\ call[Daem] = NoCall /\ walk = "start"
  /\ tmp' = IF release = << >> THEN None ELSE Head(release)
  /\ walk' = "walk"
  /\ UNCHANGED <<state, moveVars, prio, rqVars, running, stack, need_sched, irq_switch, crit,
                 mailbox, call, release, script>>

(* Mutant: a thread that has not left its CPU is released too. *)
DaemNodeEager(c) ==
  /\ Has(c, Daem) /\ running[c] = Daem /\ call[Daem] = NoCall /\ walk = "walk" /\ tmp # None
  /\ tmp' = NextIn(release, tmp)
  /\ release' = RemoveFirst(release, tmp)
  /\ state' = [state EXCEPT ![tmp] = {"FREE"}]
  /\ UNCHANGED <<moveVars, prio, rqVars, running, stack, need_sched, irq_switch, crit, mailbox,
                 call, walk, script>>

(* daem, one node of its walk: a thread that has left its CPU is released, *)
(* one that has not goes to the end of the queue.                          *)
DaemNode(c) ==
  /\ Has(c, Daem) /\ running[c] = Daem /\ call[Daem] = NoCall /\ walk = "walk" /\ tmp # None
  /\ tmp' = NextIn(release, tmp)
  /\ LET rest == RemoveFirst(release, tmp) IN
     \/ /\ state[tmp] = {"RELEASE"}
        /\ release' = rest
        /\ state' = [state EXCEPT ![tmp] = {"FREE"}]
     \/ /\ state[tmp] # {"RELEASE"}
        /\ release' = Append(rest, tmp)
        /\ UNCHANGED state
  /\ UNCHANGED <<moveVars, prio, rqVars, running, stack, need_sched, irq_switch, crit, mailbox,
                 call, walk, script>>

(* daem at the end of a walk: suspend itself. *)
DaemSuspend(c) ==
  /\ Has(c, Daem) /\ running[c] = Daem /\ call[Daem] = NoCall /\ walk = "walk" /\ tmp = None
  /\ SetCall(Daem, Route(c, Daem, Command("suspend", Daem, None)))
  /\ walk' = "start"
  /\ UNCHANGED <<state, moveVars, prio, rqVars, running, stack, need_sched, irq_switch, crit,
                 mailbox, release, tmp, script>>

(* The running thread runs its own code, an idle thread its while(1). *)
Compute(c) ==
  /\ Has(c, running[c]) /\ call[running[c]] = NoCall /\ running[c] # Daem
  /\ UNCHANGED vars

-----------------------------------------------------------------------------
(* All threads created and made ready, the most urgent of each CPU running *)
(* and the daemon not yet started.                                         *)
Init ==
  /\ cpu = InitCpu /\ prio = InitPrio
  /\ queue = [c \in Cpus |-> [p \in Prios |->
       SetToSeq({t \in Threads : InitCpu[t] = c /\ InitPrio[t] = p})]]
  /\ bitmap = [c \in Cpus |-> {InitPrio[t] : t \in {u \in Threads : InitCpu[u] = c}}]
  /\ num = [c \in Cpus |-> Cardinality({t \in Threads : InitCpu[t] = c})]
  /\ running = [c \in Cpus |-> Selected(c)] /\ stack = running
  /\ state = [t \in Threads |-> IF running[cpu[t]] = t THEN {"READY", "RUNNING"} ELSE {"READY"}]
  /\ need_sched = {} /\ irq_switch = {} /\ crit = {} /\ move_lock = {}
  /\ mailbox = [c \in Cpus |-> None]
  /\ call = [x \in Threads \cup Cpus |-> NoCall]
  /\ release = << >> /\ tmp = None /\ walk = "start"
  /\ script \in Apps

(* A step of a call in progress. *)
CallStep(c, x) ==
  \/ Send(c, x) \/ CommitReady(c, x) \/ CommitSuspend(c, x) \/ CommitPrio(c, x)
  \/ MoveEnter(c, x) \/ MoveTo(c, x) \/ MoveIn(c, x)
  \/ CommitKill(c, x) \/ WakeDaem(c, x)

(* What CPU c does by itself, for a thread and for a handler. *)
ThreadStep(c) ==
  \/ Schedule(c) \/ SendFill(c) \/ SendSignal(c) \/ DaemStart(c) \/ DaemNode(c) \/ DaemSuspend(c)
  \/ CallStep(c, running[c])
HandlerStep(c) == IntrExit(c) \/ RestoreContext(c) \/ CallStep(c, c)

Next ==
  \/ \E c \in Cpus : ThreadStep(c) \/ HandlerStep(c) \/ IpiCmd(c) \/ Compute(c)
  \/ \E c \in Cpus, k \in script : Begin(c, k) \/ Interrupt(c, k)

(* CPUs keep executing, take pending inter-processor interrupts once they  *)
(* are not masked, and interrupts do not come so fast that the thread they *)
(* hit never goes on.                                                      *)
Fairness ==
  \A c \in Cpus : WF_vars(HandlerStep(c)) /\ SF_vars(ThreadStep(c)) /\ SF_vars(IpiCmd(c))

Spec == Init /\ [][Next]_vars /\ Fairness

-----------------------------------------------------------------------------
Flags == {"READY", "SUSPEND", "RUNNING", "EXIT", "RELEASE", "MOVE", "FREE"}

CallRecords ==
  [pc : {"none", "exit", "commit", "send", "sgi", "enter", "spin", "daem"}, op : Ops \cup {"none"},
   thread : Threads \cup {None}, arg : Prios \cup Cpus \cup {None}, to : Cpus \cup {None}]

TypeOK ==
  /\ state \in [Threads -> SUBSET Flags]
  /\ cpu \in [Threads -> Cpus] /\ prio \in [Threads -> Prios]
  /\ queue \in [Cpus -> [Prios -> Seq(Threads)]]
  /\ bitmap \in [Cpus -> SUBSET Prios]
  /\ num \in [Cpus -> Int]
  /\ running \in [Cpus -> Threads] /\ stack \in [Cpus -> Threads]
  /\ need_sched \subseteq Cpus /\ irq_switch \subseteq Cpus /\ crit \subseteq Cpus
  /\ move_lock \subseteq Threads
  /\ mailbox \in [Cpus -> [op : Ops, thread : Threads, arg : Prios \cup Cpus \cup {None}] \cup {None}]
  /\ call \in [Threads \cup Cpus -> CallRecords]
  /\ release \in Seq(Threads) /\ tmp \in Threads \cup {None} /\ walk \in {"start", "walk"}
  /\ \E app \in Apps : script \subseteq app

(* How often t stands in the list of CPU c and priority p. *)
Occurrences(t, c, p) == Cardinality({i \in 1 .. Len(queue[c][p]) : queue[c][p][i] = t})

(* The ready queues say what the flags say: a thread is in one list, once, *)
(* that of its cpu and prio, exactly while it is READY; a bit is set       *)
(* exactly while its list is not empty; num counts the threads.  The       *)
(* switch relies on it: it takes the first node of the list of the lowest  *)
(* set bit without looking whether there is one.                           *)
QueuesAgree ==
  /\ TypeOK
  /\ \A t \in Threads, c \in Cpus, p \in Prios :
       Occurrences(t, c, p) = IF "READY" \in state[t] /\ cpu[t] = c /\ prio[t] = p THEN 1 ELSE 0
  /\ \A c \in Cpus : bitmap[c] = {p \in Prios : queue[c][p] # << >>}
  /\ \A c \in Cpus : num[c] = Cardinality({t \in Threads : "READY" \in state[t] /\ cpu[t] = c})

(* A CPU that owes no switch runs its most urgent ready thread, unless     *)
(* that thread was refused because the running one is not preemptable.     *)
RunsMostUrgent ==
  \A c \in Cpus : (IrqOpen(c) /\ c \notin need_sched) =>
     running[c] = Selected(c) \/ ~CanSwitch(running[c], Selected(c))

(* The threads that some application migrates. *)
Movers == {k.thread : k \in {l \in UNION Apps : l.op = "moveto"}}

(* No thread is the running thread of two CPUs at once, and two CPUs are   *)
(* on one stack only while a thread that migrates has left one of them and *)
(* that one has not restored its next context: acoral_switch_context gives *)
(* up the move_lock before it is off the stack.                            *)
OneCpuEach ==
  \A c, d \in Cpus : c # d =>
     /\ running[c] # running[d]
     /\ stack[c] = stack[d] =>
          stack[c] \in Movers /\ (stack[c] # running[c] \/ stack[d] # running[d])

(* What the daemon has released runs nowhere and is in no ready list, and  *)
(* the daemon's CPU is off its stack.  Another CPU may still be on it:     *)
(* acoral_switch_context marks the thread RELEASE before it is off the     *)
(* stack (StacksUnshared).                                                 *)
ReleasedIsGone ==
  \A t \in Threads : "FREE" \in state[t] =>
     /\ \A c \in Cpus : running[c] # t /\ \A p \in Prios : Occurrences(t, c, p) = 0
     /\ stack[cpu[Daem]] # t

(* A call made on the CPU where its thread lives, by a thread. *)
LocalCall(k) == k.by \in Threads /\ InitCpu[k.by] = InitCpu[k.thread]
MoversOf(app) == {k.thread : k \in {l \in app : l.op = "moveto"}}

(* What an application must do without, for its threads' states and queues *)
(* to stay in order (the README tells what happens otherwise): it leaves   *)
(* the kernel's threads alone; a thread that a thread of its CPU readies   *)
(* is readied or killed by nobody else, and the same for suspending,       *)
(* because thread.c tests the state before its critical section; and a     *)
(* thread that migrates handles itself, and itself only.                   *)
Disciplined(app) ==
  /\ \A k \in app : k.thread # Daem /\ \A c \in Cpus : k.thread # Idle[c]
  /\ \A k, l \in app :
       (LocalCall(k) /\ k.op \in {"ready", "suspend"} /\ l.thread = k.thread /\ l.op \in {k.op, "kill"})
         => l.by = k.by
  /\ \A t \in MoversOf(app), k \in app : k.thread = t <=> k.by = t

(* A migration that has begun ends with the thread on the other CPU. *)
MigrationArrives ==
  \A t \in Movers, c \in Cpus :
     (\E x \in Threads \cup Cpus : call[x] = CallAt("send", "movein", t, None, c))
       ~> (cpu[t] = c)

(* Threads of the daemon's CPU that are less urgent than the daemon. *)
Meek ==
  {t \in Threads : /\ InitCpu[t] = InitCpu[Daem] /\ InitPrio[t] > InitPrio[Daem]
                   /\ \A c \in Cpus : t # Idle[c]}

(* t has killed itself: nobody else kills it. *)
HasEnded(t) ==
  "EXIT" \in state[t] /\ \A k \in script : k.op = "kill" /\ k.thread = t => k.by = t

(* A system that becomes idle again and again has its killed threads       *)
(* released by the daemon, if they end themselves, cannot preempt the      *)
(* daemon and leave their CPU before it runs.                              *)
KilledIsReleased ==
  ([]<>(running[cpu[Daem]] = Idle[cpu[Daem]])) =>
     \A t \in Meek : HasEnded(t) ~> ("FREE" \in state[t])

(* The daemon comes to the end of its walk and gives up its CPU, unless    *)
(* two killed threads stay that have not left their CPU: it puts each      *)
(* behind the other and never meets the queue's head.                      *)
DaemonRests ==
  \/ []<>(running[cpu[Daem]] # Daem)
  \/ <>[](Cardinality({t \in Threads : state[t] = {"EXIT"}}) > 1)

-----------------------------------------------------------------------------
(* What the docs promise and the code does not keep: see the README.  No   *)
(* run checks these four.                                                  *)

(* KilledIsReleased for every thread. *)
EveryKilledIsReleased ==
  ([]<>(running[cpu[Daem]] = Idle[cpu[Daem]])) =>
     \A t \in Threads : ("EXIT" \in state[t]) ~> ("FREE" \in state[t])

(* No CPU executes on the stack of a released thread or on the stack       *)
(* another CPU executes on.                                                *)
StacksUnshared ==
  \A c \in Cpus : /\ "FREE" \notin state[stack[c]]
                  /\ \A d \in Cpus : c # d => stack[c] # stack[d]

(* DaemonRests however many threads stand in the release queue. *)
DaemonAlwaysRests == []<>(running[cpu[Daem]] # Daem)

(* A command that a context wants to send to another CPU gets sent. *)
SendsComplete ==
  \A x \in Threads \cup Cpus : (call[x].pc = "send") ~> (call[x].pc # "send")
=============================================================================
