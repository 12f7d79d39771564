-------------------------------- MODULE Dpcp --------------------------------
(* The priority-ceiling resources of kernel/src/ipc.c, acoral_dpcp_pend    *)
(* and acoral_dpcp_post, on top of fixed-priority scheduling per CPU.  A   *)
(* local resource is used on its CPU; to use a global one a thread         *)
(* migrates to the resource's CPU and is then preempted only by other      *)
(* users of global resources.  Every critical section is one step that     *)
(* ends with the switch acoral_exit_critical makes, if one was asked for;  *)
(* interrupts come between the steps.  A migration has its parts: the      *)
(* departure, the command to the other CPU, the switch that releases       *)
(* move_lock, and over there the handler that waits for it.                *)
EXTENDS Integers, Sequences, FiniteSets

CONSTANTS Threads, Resources, Cpus,
          NoThread,   \* NULL, and the idle thread where running names it
          MaxPrio,    \* ACORAL_MAX_PRIO_NUM, less urgent than every thread
          DpcpApps    \* the applications: see DpcpAppsAssumption

(* The clock interrupts this CPU. *)
ClockCpu == 0

(* prio and home of the threads, type and cpu of the resources, which      *)
(* resources a thread may use (one per job), how many jobs it does, and    *)
(* who sleeps once while it uses a resource.                               *)
ASSUME DpcpAppsAssumption ==
  /\ NoThread \notin Threads /\ ClockCpu \in Cpus
  /\ \A a \in DpcpApps :
       /\ a.prio \in [Threads -> 0 .. MaxPrio - 1]
       /\ a.home \in [Threads -> Cpus]
       /\ a.type \in [Resources -> {"local", "global"}]
       /\ a.cpu \in [Resources -> Cpus]
       /\ a.uses \in [Threads -> SUBSET Resources]
       /\ a.jobs \in [Threads -> Nat]
       /\ a.naps \subseteq Threads
       /\ \A t \in Threads : \A r \in a.uses[t] :
            a.type[r] = "local" => a.home[t] = a.cpu[r]

VARIABLES app,
          prio,      \* [Threads -> thread->prio]
          cpu,       \* [Threads -> thread->cpu]
          rdy,       \* [Cpus -> ready threads, the one readied last at the end]
          running,   \* [Cpus -> running_thread]
          global,    \* threads whose preempt_type is ACORAL_PREEMPT_GLOBAL
          pc,        \* [Threads -> where the thread is: see Places]
          want,      \* [Threads -> the resource of the current call]
          origin,    \* [Threads -> CPU the thread came from, in thread->data]
          jobs,      \* [Threads -> jobs still to come]
          mail,      \* [Cpus -> thread of the command under way to it: ipi_cmd]
          enters,    \* [Cpus -> thread its interrupt handler is to take in]
          data,      \* [Resources -> sem->data, the user]
          count,     \* [Resources -> sem->count]
          stack,     \* [system -> resources in use, the last one first]
          sysprio,   \* [system -> acoral_dpcp_system[type][cpu].prio]
          wait       \* [system -> threads that wait]

vars == <<app, prio, cpu, rdy, running, global, pc, want, origin, jobs,
          mail, enters, data, count, stack, sysprio, wait>>
moves == <<mail, enters>>
resources == <<data, count, stack, sysprio, wait>>

Systems == {"local", "global"} \X Cpus
SystemOf(r) == <<app.type[r], app.cpu[r]>>

(* prio_ceiling, which the application sets to the most urgent priority of *)
(* the resource's users.                                                   *)
Ceiling(r) ==
  CHOOSE p \in {app.prio[t] : t \in {u \in Threads : r \in app.uses[u]}} :
    \A t \in Threads : r \in app.uses[t] => p <= app.prio[t]

-----------------------------------------------------------------------------
Members(q) == {q[i] : i \in 1 .. Len(q)}
Without(q, x) == SelectSeq(q, LAMBDA y : y # x)
IsReady(t) == \E c \in Cpus : t \in Members(rdy[c])

(* acoral_select_thread: of the most urgent threads the one readied first. *)
Selected(q, pr) ==
  IF q = << >> THEN NoThread
  ELSE q[CHOOSE i \in 1 .. Len(q) :
           /\ \A j \in 1 .. Len(q) : pr[q[i]] <= pr[q[j]]
           /\ \A j \in 1 .. i - 1 : pr[q[i]] < pr[q[j]]]

(* acoral_switch_context: a user of a global resource goes on unless the   *)
(* selected thread is one too.                                             *)
Switched(c, q, pr, gl) ==
  LET prev == running[c]
      next == Selected(q, pr)
  IN IF prev \in Members(q) /\ prev \in gl /\ next \notin gl THEN prev ELSE next

Resched(c, q, pr, gl) == running' = [running EXCEPT ![c] = Switched(c, q, pr, gl)]

(* The CPU takes interrupts: none is being handled, and its thread is not  *)
(* waiting inside a critical section.                                      *)
Interruptible(c) ==
  /\ enters[c] = NoThread
  /\ \A t \in Threads : pc[t] \in {"send", "hung"} => running[c] # t

(* t executes. *)
Active(t) == running[cpu[t]] = t /\ enters[cpu[t]] = NoThread

(* acoral_prio_queue_add: pending's value is the priority at creation. *)
WaitAdd(q, t) ==
  LET ahead == {i \in 1 .. Len(q) : app.prio[q[i]] <= app.prio[t]}
      n == Cardinality(ahead)
  IN SubSeq(q, 1, n) \o <<t>> \o SubSeq(q, n + 1, Len(q))

-----------------------------------------------------------------------------
(* acoral_dpcp_system_init, acoral_dpcp_create; every thread still sleeps. *)
Init ==
  /\ app \in DpcpApps
  /\ prio = app.prio /\ cpu = app.home
  /\ rdy = [c \in Cpus |-> << >>]
  /\ running = [c \in Cpus |-> NoThread]
  /\ global = {}
  /\ pc = [t \in Threads |-> "sleep"]
  /\ want = [t \in Threads |-> CHOOSE r \in Resources : TRUE]
  /\ origin = cpu
  /\ jobs = app.jobs
  /\ mail = [c \in Cpus |-> NoThread]
  /\ enters = [c \in Cpus |-> NoThread]
  /\ data = [r \in Resources |-> NoThread]
  /\ count = [r \in Resources |-> 0]
  /\ stack = [s \in Systems |-> << >>]
  /\ sysprio = [s \in Systems |-> MaxPrio]
  /\ wait = [s \in Systems |-> << >>]

(* An interrupt readies a sleeping thread for its next job. *)
Arrive(t) ==
  /\ pc[t] = "sleep" /\ jobs[t] > 0 /\ Interruptible(cpu[t])
  /\ jobs' = [jobs EXCEPT ![t] = @ - 1]
  /\ pc' = [pc EXCEPT ![t] = "run"]
  /\ LET q == Append(rdy[cpu[t]], t)
     IN /\ rdy' = [rdy EXCEPT ![cpu[t]] = q]
        /\ Resched(cpu[t], q, prio, global)
  /\ UNCHANGED <<app, prio, cpu, global, want, origin, moves, resources>>

(* A clock interrupt enters acoral_switch_context at its end. *)
Clock ==
  /\ Interruptible(ClockCpu)
  /\ Resched(ClockCpu, rdy[ClockCpu], prio, global)
  /\ running' # running
  /\ UNCHANGED <<app, prio, cpu, rdy, global, pc, want, origin, jobs, moves, resources>>

(* The thread sleeps until its next job. *)
Finish(t) ==
  /\ pc[t] \in {"run", "done"} /\ Active(t)
  /\ pc' = [pc EXCEPT ![t] = "sleep"]
  /\ LET q == Without(rdy[cpu[t]], t)
     IN /\ rdy' = [rdy EXCEPT ![cpu[t]] = q]
        /\ Resched(cpu[t], q, prio, global)
  /\ UNCHANGED <<app, prio, cpu, global, want, origin, jobs, moves, resources>>

(* acoral_dpcp_pend(r) up to the jump to the CPU of a global resource. *)
Pend(t) ==
  /\ pc[t] = "run" /\ Active(t)
  /\ \E r \in app.uses[t] :
       /\ want' = [want EXCEPT ![t] = r]
       /\ pc' = [pc EXCEPT ![t] = IF app.type[r] = "global" /\ cpu[t] # app.cpu[r]
                                 THEN "jump" ELSE "pend"]
  /\ origin' = [origin EXCEPT ![t] = cpu[t]]
  /\ UNCHANGED <<app, prio, cpu, rdy, running, global, jobs, moves, resources>>

-----------------------------------------------------------------------------
(* Where t jumps to: the CPU of the resource, or back. *)
Dest(t) == IF cpu[t] = origin[t] THEN app.cpu[want[t]] ELSE origin[t]

(* acoral_jump_cpu: interrupts off, t takes its own move_lock and leaves   *)
(* the ready queue.                                                        *)
Jump(t) ==
  /\ pc[t] = "jump" /\ Active(t)
  /\ pc' = [pc EXCEPT ![t] = "send"]
  /\ rdy' = [rdy EXCEPT ![cpu[t]] = Without(@, t)]
  /\ UNCHANGED <<app, prio, cpu, running, global, want, origin, jobs, moves, resources>>

(* acoral_ipi_cmd_send waits for the other CPU's command to be free and    *)
(* fills it in; acoral_exit_critical opens the interrupts.                 *)
JumpSend(t) ==
  /\ pc[t] = "send" /\ mail[Dest(t)] = NoThread
  /\ pc' = [pc EXCEPT ![t] = "moving"]
  /\ mail' = [mail EXCEPT ![Dest(t)] = t]
  /\ UNCHANGED <<app, prio, cpu, rdy, running, global, want, origin, jobs, enters, resources>>

(* acoral_sched after it: the switch from t releases move_lock, as does a  *)
(* switch at the end of an interrupt that comes first.                     *)
MoveLocked(t) == pc[t] = "moving" /\ running[cpu[t]] = t

JumpSwitch(t) ==
  /\ MoveLocked(t) /\ enters[cpu[t]] = NoThread
  /\ Resched(cpu[t], rdy[cpu[t]], prio, global)
  /\ UNCHANGED <<app, prio, cpu, rdy, global, pc, want, origin, jobs, moves, resources>>

(* acoral_ipi_cmd_handler reads the command and frees it. *)
IpiCmd(c) ==
  /\ mail[c] # NoThread /\ Interruptible(c)
  /\ enters' = [enters EXCEPT ![c] = mail[c]]
  /\ mail' = [mail EXCEPT ![c] = NoThread]
  /\ UNCHANGED <<app, prio, cpu, rdy, running, global, pc, want, origin, jobs, resources>>

(* acoral_movein_thread, once move_lock is free. *)
MoveIn(c) ==
  LET t == enters[c]
      q == Append(rdy[c], t)
  IN /\ t # NoThread /\ ~MoveLocked(t)
     /\ enters' = [enters EXCEPT ![c] = NoThread]
     /\ cpu' = [cpu EXCEPT ![t] = c]
     /\ rdy' = [rdy EXCEPT ![c] = q]
     /\ pc' = [pc EXCEPT ![t] = IF c = origin[t] THEN "done" ELSE "pend"]
     /\ Resched(c, q, prio, global)
     /\ UNCHANGED <<app, prio, global, want, origin, jobs, mail, resources>>

-----------------------------------------------------------------------------
(* Mutant: a thread as urgent as the system priority is let in. *)
AdmittedEqual(t, s) == prio[t] <= sysprio[s]

(* The thread is more urgent than the system. *)
Admitted(t, s) == prio[t] < sysprio[s]

(* The system priority keeps t out: queue it.  The user of the last local  *)
(* resource gets t's priority, which puts it behind t among the ready.     *)
PendBlock(t) ==
  LET s == SystemOf(want[t])
      c == cpu[t]
      h == data[Head(stack[s])]
      pr == IF s[1] = "local" THEN [prio EXCEPT ![h] = prio[t]] ELSE prio
      q == IF s[1] = "local" /\ h \in Members(rdy[c]) THEN Append(Without(rdy[c], h), h)
           ELSE rdy[c]
      gl == IF s[1] = "global" THEN global \cup {t} ELSE global
  IN /\ pc[t] = "pend" /\ Active(t) /\ ~Admitted(t, s)
     /\ prio' = pr
     /\ rdy' = [rdy EXCEPT ![c] = q]
     /\ global' = gl
     /\ wait' = [wait EXCEPT ![s] = WaitAdd(@, t)]
     /\ pc' = [pc EXCEPT ![t] = "wait"]
     /\ IF s[1] = "local" THEN Resched(c, q, pr, gl) ELSE UNCHANGED running
     /\ UNCHANGED <<app, cpu, want, origin, jobs, moves, data, count, stack, sysprio>>

(* acoral_suspend_self, a critical section of its own; a thread that is    *)
(* readied after it tests the system priority again.                       *)
PendSuspend(t) ==
  /\ pc[t] = "wait" /\ Active(t)
  /\ pc' = [pc EXCEPT ![t] = "pend"]
  /\ LET q == Without(rdy[cpu[t]], t)
     IN /\ rdy' = [rdy EXCEPT ![cpu[t]] = q]
        /\ Resched(cpu[t], q, prio, global)
  /\ UNCHANGED <<app, prio, cpu, global, want, origin, jobs, moves, resources>>

(* What the system priority's consent leads to.  A resource on top of the  *)
(* stack already: acoral_list_add waits for the lock of its node, which it *)
(* has itself, interrupts off.  The semaphore free: the resource is t's.   *)
(* Taken: acoral_sem_pend suspends t, queues it and takes it out of the    *)
(* queue again before the outermost acoral_exit_critical switches, and     *)
(* nobody will ready it.                                                   *)
Outcome(r, s) == IF stack[s] # << >> /\ Head(stack[s]) = r THEN "hung"
                 ELSE IF count[r] = 0 THEN "hold" ELSE "stuck"

(* The system priority lets t in: it is raised, the resource goes on the   *)
(* stack and its semaphore is asked for, in one critical section.          *)
PendTake(t) ==
  LET r == want[t]
      s == SystemOf(r)
      c == cpu[t]
      place == Outcome(r, s)
      gl == IF s[1] = "global" THEN global \cup {t} ELSE global
      q == IF place = "stuck" THEN Without(rdy[c], t) ELSE rdy[c]
  IN /\ pc[t] = "pend" /\ Active(t) /\ Admitted(t, s)
     /\ pc' = [pc EXCEPT ![t] = place]
     /\ global' = gl
     /\ sysprio' = [sysprio EXCEPT ![s] = Ceiling(r)]
     /\ IF place = "hung" THEN UNCHANGED <<stack, data, count>>
        ELSE /\ stack' = [stack EXCEPT ![s] = <<r>> \o @]
             /\ data' = [data EXCEPT ![r] = IF @ = NoThread THEN t ELSE @]
             /\ count' = [count EXCEPT ![r] = @ + 1]
     /\ rdy' = [rdy EXCEPT ![c] = q]
     /\ IF place = "stuck" THEN Resched(c, q, prio, gl) ELSE UNCHANGED running
     /\ UNCHANGED <<app, prio, cpu, want, origin, jobs, moves, wait>>

(* The user sleeps, and is readied by the clock. *)
Nap(t) ==
  /\ pc[t] = "hold" /\ Active(t) /\ t \in app.naps
  /\ pc' = [pc EXCEPT ![t] = "nap"]
  /\ LET q == Without(rdy[cpu[t]], t)
     IN /\ rdy' = [rdy EXCEPT ![cpu[t]] = q]
        /\ Resched(cpu[t], q, prio, global)
  /\ UNCHANGED <<app, prio, cpu, global, want, origin, jobs, moves, resources>>

Wake(t) ==
  /\ pc[t] = "nap" /\ Interruptible(cpu[t])
  /\ pc' = [pc EXCEPT ![t] = "again"]
  /\ LET q == Append(rdy[cpu[t]], t)
     IN /\ rdy' = [rdy EXCEPT ![cpu[t]] = q]
        /\ Resched(cpu[t], q, prio, global)
  /\ UNCHANGED <<app, prio, cpu, global, want, origin, jobs, moves, resources>>

(* Mutants: no resource is below another; the head of the wait queue is    *)
(* taken out and not readied.                                              *)
BelowNothing(rest) == MaxPrio
ReadiedNobody(q, s) == q

(* stack.head.next->value, once the resource is out. *)
Below(rest) == IF rest = << >> THEN MaxPrio ELSE Ceiling(Head(rest))

(* acoral_rdy_thread of the first waiter, ignored for one that is ready. *)
Readied(q, s) ==
  IF wait[s] = << >> \/ IsReady(Head(wait[s])) THEN q ELSE Append(q, Head(wait[s]))

(* acoral_dpcp_post up to the jump back: the resource leaves its stack,    *)
(* the system priority is that of the resource below it, the first waiter  *)
(* is readied.  The user keeps the priority it was given: prio_switch is   *)
(* eight bits wide and the flag that asks to restore it the sixteenth.     *)
Post(t) ==
  LET r == want[t]
      s == SystemOf(r)
      c == cpu[t]
      rest == Without(stack[s], r)
      q == Readied(rdy[c], s)
      gl == global \ {t}
  IN /\ pc[t] \in {"hold", "again"} /\ Active(t) /\ data[r] = t
     /\ stack' = [stack EXCEPT ![s] = rest]
     /\ sysprio' = [sysprio EXCEPT ![s] = Below(rest)]
     /\ wait' = [wait EXCEPT ![s] = IF @ = << >> THEN @ ELSE Tail(@)]
     /\ data' = [data EXCEPT ![r] = NoThread]
     /\ count' = [count EXCEPT ![r] = @ - 1]
     /\ global' = gl
     /\ rdy' = [rdy EXCEPT ![c] = q]
     /\ pc' = [pc EXCEPT ![t] = IF origin[t] = c THEN "done" ELSE "jump"]
     /\ IF q # rdy[c] THEN Resched(c, q, prio, gl) ELSE UNCHANGED running
     /\ UNCHANGED <<app, prio, cpu, want, origin, jobs, moves>>

(* What a thread goes on with once it has the CPU; what a CPU does. *)
Step(t) == \/ PendBlock(t) \/ PendSuspend(t) \/ PendTake(t)
           \/ Post(t) \/ Wake(t) \/ Jump(t) \/ JumpSend(t) \/ JumpSwitch(t)

Handle(c) == IpiCmd(c) \/ MoveIn(c)

Next == \/ Clock
        \/ \E c \in Cpus : Handle(c)
        \/ \E t \in Threads : Arrive(t) \/ Finish(t) \/ Pend(t) \/ Nap(t) \/ Step(t)

(* Calls go on when their thread has the CPU, commands are handled, jobs   *)
(* come to their end, and the clock keeps interrupting.                    *)
Fairness == /\ WF_vars(Clock)
            /\ \A c \in Cpus : WF_vars(Handle(c))
            /\ \A t \in Threads : WF_vars(Step(t)) /\ WF_vars(Finish(t) \/ Pend(t))

Spec == Init /\ [][Next]_vars /\ Fairness

-----------------------------------------------------------------------------
Places == {"sleep", "run", "jump", "send", "moving", "pend", "wait", "hold", "nap",
           "again", "done", "stuck", "hung"}

TypeOK ==
  /\ app \in DpcpApps
  /\ prio \in [Threads -> 0 .. MaxPrio - 1]
  /\ cpu \in [Threads -> Cpus] /\ origin \in [Threads -> Cpus]
  /\ rdy \in [Cpus -> Seq(Threads)]
  /\ running \in [Cpus -> Threads \cup {NoThread}]
  /\ global \subseteq Threads
  /\ pc \in [Threads -> Places]
  /\ want \in [Threads -> Resources]
  /\ jobs \in [Threads -> Nat]
  /\ mail \in [Cpus -> Threads \cup {NoThread}]
  /\ enters \in [Cpus -> Threads \cup {NoThread}]
  /\ data \in [Resources -> Threads \cup {NoThread}]
  /\ count \in [Resources -> Nat]
  /\ stack \in [Systems -> Seq(Resources)]
  /\ sysprio \in [Systems -> 0 .. MaxPrio]
  /\ wait \in [Systems -> Seq(Threads)]

Users(r) == {t \in Threads : pc[t] \in {"hold", "nap", "again"} /\ want[t] = r}

(* The ceilings protect the resources: nobody whom the system priority     *)
(* lets in finds the semaphore taken, which it would never get, and the    *)
(* only user of a resource is the recorded one, also while priorities      *)
(* inherited from waiters change who is let in.                            *)
CeilingProtects ==
  /\ \A t \in Threads : pc[t] \notin {"stuck", "hung"}
  /\ \A r \in Resources :
       /\ Users(r) = IF data[r] = NoThread THEN {} ELSE {data[r]}
       /\ count[r] = Cardinality(Users(r))

(* A system's stack holds its resources in use, most urgent ceiling first, *)
(* and its priority is the ceiling on top.  Those in its wait queue wait,  *)
(* and while they do, a user or a readied thread will come to post: no     *)
(* waiter is left behind.                                                  *)
SystemExact ==
  /\ TypeOK
  /\ \A s \in Systems :
       LET st == stack[s] IN
       /\ Members(st) = {r \in Resources : SystemOf(r) = s /\ Users(r) # {}}
       /\ Cardinality(Members(st)) = Len(st)
       /\ \A i \in 1 .. Len(st) - 1 : Ceiling(st[i]) <= Ceiling(st[i + 1])
       /\ sysprio[s] = IF st = << >> THEN MaxPrio ELSE Ceiling(st[1])
       /\ \A t \in Members(wait[s]) : SystemOf(want[t]) = s /\ pc[t] \in {"wait", "pend"}
       /\ wait[s] # << >> => \/ st # << >>
                             \/ \E t \in Threads : pc[t] = "pend" /\ IsReady(t) /\ SystemOf(want[t]) = s

(* t is in acoral_dpcp_pend: on its way to the resource, or there. *)
Asks(t) == \/ pc[t] \in {"pend", "wait"}
           \/ pc[t] \in {"jump", "send", "moving"} /\ cpu[t] = origin[t]

(* The threads that migrate to use a resource. *)
Comers == {t \in Threads : \E r \in app.uses[t] :
             app.type[r] = "global" /\ app.home[t] # app.cpu[r]}

(* Whoever asks for a resource gets it, if at most one thread migrates:    *)
(* through the migration, the wait queue and the inherited priority no     *)
(* call is left without somebody to continue it.  Two threads that pass    *)
(* each other stop both CPUs: see JumpsEnd.                                *)
PendsEnd == \A t \in Threads :
              Cardinality(Comers) <= 1 /\ Asks(t) ~> pc[t] = "hold"

-----------------------------------------------------------------------------
(* What the code does not keep: see the README. *)

(* A thread outside of every resource has the priority it was created      *)
(* with.                                                                   *)
PriorityRestored == \A t \in Threads : pc[t] \in {"sleep", "run", "done"} => prio[t] = app.prio[t]

(* A thread that jumps arrives: not where two pass each other, the handler *)
(* of each CPU waiting for the move_lock the other releases by switching.  *)
JumpsEnd == \A t \in Threads : pc[t] \in {"jump", "send", "moving"} ~>
                               pc[t] \in {"pend", "done"}
=============================================================================
