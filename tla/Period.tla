------------------------------- MODULE Period -------------------------------
(* Period threads: creation through the policy table (kernel/src/policy.c, *)
(* period_thrd.c, comm_thrd.c), the clock handler with both of its delta   *)
(* queues (kernel/src/timer.c, period_thrd.c), the end and the restart of  *)
(* a job, sleeping and killing (kernel/src/thread.c), on the CPU that      *)
(* takes the clock interrupt.  acoral_exit_critical opens interrupts       *)
(* before it switches, so a tick can fall between the suspension of a      *)
(* thread and the switch that saves its registers.                         *)
EXTENDS Integers, Sequences, FiniteSets, SequencesExt

CONSTANTS Threads,
          Idle,       \* the idle thread, always ready
          PeriodApps  \* the applications: see PeriodAppsAssumption

(* policy, period and priority of each thread (0 is the most urgent), how  *)
(* long it may sleep, in which states the application kills it, who exists *)
(* at the start, which allocations can fail, and what comes to its end     *)
(* before the period does: jobs with their sleeps, and the creation of a   *)
(* thread that would preempt its creator.                                  *)
ASSUME PeriodAppsAssumption ==
  /\ Idle \notin Threads
  /\ \A a \in PeriodApps :
       /\ a.policy \in [Threads -> {"comm", "period"}]
       /\ a.time \in [Threads -> Nat \ {0}]
       /\ a.prio \in [Threads -> Nat]
       /\ \A t, u \in Threads : a.prio[t] = a.prio[u] => t = u
       /\ a.sleeps \in [Threads -> SUBSET Nat]
       /\ a.kill \in [Threads -> SUBSET {"ready", "suspended"}]
       /\ a.main \in Threads
       /\ a.fails \subseteq {"tcb", "data", "stack"}
       /\ a.punctual \subseteq {"jobs", "creations"}

VARIABLES app,
          state,      \* [Threads -> "none", "ready", "suspended" or "exit"]
          memory,     \* [Threads -> what is allocated for the thread]
          timing,     \* period_time_queue, as [thread, value] in list order
          delaying,   \* time_delay_queue
          creates,    \* [Threads -> whom it has created and still has to ready]
          running,    \* running_thread
          live,       \* where the CPU is in the running thread
          ctx,        \* [Threads and Idle -> where thread->stack resumes]
          need_sched  \* acoral_need_sched; a switch is due

vars == <<app, state, memory, timing, delaying, creates, running, live, ctx,
          need_sched>>

-----------------------------------------------------------------------------
(* When the i-th node of a delta queue is due. *)
DueAt(q) ==
  LET sum[i \in 0 .. Len(q)] == IF i = 0 THEN 0 ELSE sum[i - 1] + q[i].value IN sum

Members(q) == {q[i].thread : i \in 1 .. Len(q)}

Without(q, t) == SelectSeq(q, LAMBDA node : node.thread # t)

(* acoral_tick_queue_add: before the first node that is due after d ticks, *)
(* which then waits so much less.                                          *)
TickQueueAdd(q, t, d) ==
  LET due == DueAt(q)
      i == CHOOSE i \in 1 .. Len(q) + 1 :
             /\ i <= Len(q) => d < due[i]
             /\ \A j \in 1 .. i - 1 : due[j] <= d
      rest == d - due[i - 1]
      behind == SubSeq(q, i, Len(q))
  IN SubSeq(q, 1, i - 1) \o <<[thread |-> t, value |-> rest]>>
       \o (IF behind = << >> THEN << >>
           ELSE [behind EXCEPT ![1].value = @ - rest])

(* head->next->value--, the same in time_delay_deal and period_time_deal. *)
CountDown(q) ==
  IF q # << >> /\ q[1].value > 0 THEN [q EXCEPT ![1].value = @ - 1] ELSE q

(* The nodes at the head without ticks left, and the nodes behind them. *)
Expired(q) == LET n == CHOOSE n \in 0 .. Len(q) :
                         /\ \A i \in 1 .. n : q[i].value <= 0
                         /\ n < Len(q) => q[n + 1].value > 0
              IN SubSeq(q, 1, n)
Pending(q) == SubSeq(q, Len(Expired(q)) + 1, Len(q))

-----------------------------------------------------------------------------
MostUrgent(ready) ==
  IF ready = {} THEN Idle
  ELSE CHOOSE t \in ready : \A u \in ready : app.prio[t] <= app.prio[u]

Ready(st) == {t \in Threads : st[t] = "ready"}

(* acoral_switch_context between the save of the interrupted registers and *)
(* the restore of the selected thread's: the save overwrites whatever      *)
(* thread->stack of the running thread was set to.                         *)
SwitchTo(st, saved) ==
  LET next == MostUrgent(Ready(st))
      all == [saved EXCEPT ![running] = live]
  IN /\ running' = next
     /\ live' = all[next]
     /\ ctx' = all
     /\ need_sched' = FALSE

(* HAL_COMM_SWITCH at the end of the thread's critical section. *)
Switch ==
  /\ need_sched
  /\ SwitchTo(state, ctx)
  /\ UNCHANGED <<app, state, memory, timing, delaying, creates>>

-----------------------------------------------------------------------------
Init ==
  /\ app \in PeriodApps
  /\ state = [t \in Threads |-> IF t = app.main THEN "ready" ELSE "none"]
  /\ memory = [t \in Threads |-> IF t = app.main THEN {"tcb", "stack"} ELSE {}]
  /\ timing = << >> /\ delaying = << >>
  /\ creates = [t \in Threads |-> Idle]
  /\ running = app.main
  /\ live = "job"
  /\ ctx = [t \in Threads \cup {Idle} |-> "job"]
  /\ need_sched = FALSE

(* Thread t is in its route; it executes application code there unless it  *)
(* is in the middle of a creation.                                         *)
OnCpu(t) == running = t /\ live = "job" /\ state[t] = "ready" /\ ~need_sched
Runs(t) == OnCpu(t) /\ creates[t] = Idle

(* period_thread_reload *)
Reload(q, t) == TickQueueAdd(q, t, app.time[t])

(* create_thread_by_policy, run by p for t, with the period policy: the    *)
(* thread is initialised, suspended, and its first period's end queued in  *)
(* a critical section of its own.                                          *)
CreatePeriod(p, t) ==
  /\ Runs(p) /\ state[t] = "none" /\ app.policy[t] = "period"
  /\ state' = [state EXCEPT ![t] = "suspended"]
  /\ memory' = [memory EXCEPT ![t] = {"tcb", "data", "stack"}]
  /\ timing' = Reload(timing, t)
  /\ ctx' = [ctx EXCEPT ![t] = "job"]
  /\ creates' = [creates EXCEPT ![p] = t]
  /\ UNCHANGED <<app, delaying, running, live, need_sched>>

(* acoral_rdy_thread at the end of that call, if the thread is suspended:  *)
(* the clock may have started it in between.                               *)
CreateReadies(p) ==
  LET t == creates[p] IN
  /\ OnCpu(p) /\ t # Idle
  /\ creates' = [creates EXCEPT ![p] = Idle]
  /\ IF state[t] = "suspended"
     THEN /\ state' = [state EXCEPT ![t] = "ready"]
          /\ need_sched' = TRUE
     ELSE UNCHANGED <<state, need_sched>>
  /\ UNCHANGED <<app, memory, timing, delaying, running, live, ctx>>

(* The same with the common policy, which queues nothing before it readies *)
(* the thread.                                                             *)
CreateComm(p, t) ==
  /\ Runs(p) /\ state[t] = "none" /\ app.policy[t] = "comm"
  /\ state' = [state EXCEPT ![t] = "ready"]
  /\ memory' = [memory EXCEPT ![t] = {"tcb", "stack"}]
  /\ ctx' = [ctx EXCEPT ![t] = "job"]
  /\ need_sched' = TRUE
  /\ UNCHANGED <<app, timing, delaying, creates, running, live>>

(* A creation that finds no memory for the control block, the private data *)
(* or the stack.  Without a stack the private data stay allocated.         *)
CreateFails(p, t) ==
  /\ Runs(p) /\ state[t] = "none"
  /\ \E what \in app.fails :
       /\ what = "data" => app.policy[t] = "period"
       /\ memory' = [memory EXCEPT ![t] =
            @ \cup (IF what = "stack" /\ app.policy[t] = "period" THEN {"data"} ELSE {})]
  /\ UNCHANGED <<app, state, timing, delaying, creates, running, live, ctx, need_sched>>

(* The job is done: period_thread_exit suspends the thread. *)
JobEnd(t) ==
  /\ Runs(t) /\ app.policy[t] = "period"
  /\ state' = [state EXCEPT ![t] = "suspended"]
  /\ live' = "exit"
  /\ need_sched' = TRUE
  /\ UNCHANGED <<app, memory, timing, delaying, creates, running, ctx>>

(* Ticks to the end of t's period. *)
Left(t) == IF t \notin Members(timing) THEN 0
           ELSE DueAt(timing)[CHOOSE i \in 1 .. Len(timing) : timing[i].thread = t]

(* acoral_delay_ms.  A thread restarted while it slept is still queued and *)
(* gets KR_THREAD_ERR_UNDEF instead.                                       *)
Sleep(t) ==
  /\ Runs(t) /\ t \notin Members(delaying)
  /\ \E d \in app.sleeps[t] :
       /\ "jobs" \in app.punctual /\ app.policy[t] = "period" => d <= Left(t)
       /\ delaying' = TickQueueAdd(delaying, t, d)
  /\ state' = [state EXCEPT ![t] = "suspended"]
  /\ live' = "asleep"
  /\ need_sched' = TRUE
  /\ UNCHANGED <<app, memory, timing, creates, running, ctx>>

(* The call that suspended the running thread returns: acoral_delay_ms to  *)
(* the job, period_thread_exit to whatever its return address is.          *)
Return(t) ==
  /\ running = t /\ ~need_sched /\ state[t] = "ready"
  /\ live \in {"asleep", "exit"}
  /\ live' = IF live = "asleep" THEN "job" ELSE "astray"
  /\ UNCHANGED <<app, state, memory, timing, delaying, creates, running, ctx, need_sched>>

(* Only t itself knows its id before the creation has returned it. *)
Known(k, t) == k = t \/ \A p \in Threads : creates[p] # t

(* Mutant: a sleeper that is killed keeps its place in the delay queue. *)
KillKeepsNode(k, t) ==
  /\ Runs(k) /\ state[t] \in app.kill[t] /\ Known(k, t)
  /\ timing' = IF state[t] = "suspended" THEN Without(timing, t) ELSE timing
  /\ state' = [state EXCEPT ![t] = "exit"]
  /\ need_sched' = TRUE
  /\ UNCHANGED <<app, memory, delaying, creates, running, live, ctx>>

(* acoral_kill_thread, run by k (k = t for acoral_thread_exit): only a     *)
(* suspended thread is taken out of the queues, and hands no ticks on.     *)
Kill(k, t) ==
  /\ Runs(k) /\ state[t] \in app.kill[t] /\ Known(k, t)
  /\ IF state[t] = "suspended"
     THEN timing' = Without(timing, t) /\ delaying' = Without(delaying, t)
     ELSE UNCHANGED <<timing, delaying>>
  /\ state' = [state EXCEPT ![t] = "exit"]
  /\ need_sched' = TRUE
  /\ UNCHANGED <<app, memory, creates, running, live, ctx>>

-----------------------------------------------------------------------------
(* Mutants: the expired node of an overrun is not reloaded; the stack is   *)
(* not set up again.                                                       *)
ReloadedLate(q, st) ==
  FoldLeft(LAMBDA rest, node : IF st[node.thread] = "ready" THEN rest
                               ELSE Reload(rest, node.thread), Pending(q), Expired(q))
RestartedAsIs(saved, due) == saved

(* period_thread_reload of every expired node, in list order. *)
Reloaded(q, st) ==
  FoldLeft(LAMBDA rest, node : Reload(rest, node.thread), Pending(q), Expired(q))

(* HAL_STACK_INIT: the next switch to the thread starts its route. *)
Restarted(saved, due) == [t \in DOMAIN saved |-> IF t \in due THEN "job" ELSE saved[t]]

(* acoral_ticks_handler: time_delay_deal readies the sleepers whose delay  *)
(* is over, then period_time_deal restarts the suspended threads whose     *)
(* period is.  The switch that follows happens at the end of the           *)
(* interrupt, or, if the tick fell before a switch that was due anyway,    *)
(* possibly there.                                                         *)
Tick ==
  LET delays == CountDown(delaying)
      periods == CountDown(timing)
      woken == {t \in Members(Expired(delays)) : state[t] = "suspended"}
      awake == [t \in Threads |-> IF t \in woken THEN "ready" ELSE state[t]]
      due == {t \in Members(Expired(periods)) : awake[t] = "suspended"}
      st == [t \in Threads |-> IF t \in due THEN "ready" ELSE awake[t]]
      saved == Restarted(ctx, due)
  IN /\ "jobs" \in app.punctual => ~(live = "exit" /\ running \in due)
     /\ "creations" \in app.punctual =>
          \A p \in Threads : state[p] = "ready" /\ creates[p] \in due =>
                              app.prio[p] < app.prio[creates[p]]
     /\ delaying' = Pending(delays)
     /\ timing' = Reloaded(periods, awake)
     /\ state' = st
     /\ \/ SwitchTo(st, saved)
        \/ /\ need_sched
           /\ ctx' = saved
           /\ UNCHANGED <<running, live, need_sched>>
     /\ UNCHANGED <<app, memory, creates>>

Next ==
  \/ \E p, t \in Threads : \/ CreatePeriod(p, t) \/ CreateComm(p, t)
                           \/ CreateFails(p, t) \/ Kill(p, t)
  \/ \E t \in Threads : CreateReadies(t) \/ JobEnd(t) \/ Sleep(t) \/ Return(t)
  \/ Switch \/ Tick

(* The clock ticks, due switches happen and a creation's call goes on;     *)
(* jobs may take any time.                                                 *)
Fairness == /\ SF_vars(Tick) /\ WF_vars(Switch)
            /\ \A t \in Threads : WF_vars(CreateReadies(t))

Spec == Init /\ [][Next]_vars /\ Fairness

-----------------------------------------------------------------------------
Places == {"job", "exit", "asleep", "astray"}

Nodes == [thread : Threads, value : Nat]

TypeOK ==
  /\ app \in PeriodApps
  /\ state \in [Threads -> {"none", "ready", "suspended", "exit"}]
  /\ memory \in [Threads -> SUBSET {"tcb", "data", "stack"}]
  /\ timing \in Seq(Nodes) /\ delaying \in Seq(Nodes)
  /\ creates \in [Threads -> Threads \cup {Idle}]
  /\ running \in Threads \cup {Idle}
  /\ live \in Places
  /\ ctx \in [Threads \cup {Idle} -> Places]
  /\ need_sched \in BOOLEAN

Exists(t) == state[t] \in {"ready", "suspended"}

(* Where t is, in the CPU or in its saved registers. *)
At(t) == IF running = t THEN live ELSE ctx[t]

(* The two queues agree with the threads: a period thread's node is queued *)
(* once, due within its period, as long as the thread exists (and after,   *)
(* if it was killed while ready); exactly the sleepers are in the delay    *)
(* queue; a failed creation leaves nothing allocated.                      *)
QueuesExact ==
  /\ TypeOK
  /\ Cardinality(Members(timing)) = Len(timing)
  /\ Cardinality(Members(delaying)) = Len(delaying)
  /\ \A t \in Threads :
       /\ app.policy[t] = "period" /\ Exists(t) =>
            t \in Members(timing) /\ Left(t) \in 1 .. app.time[t]
       /\ t \in Members(delaying) <=> state[t] = "suspended" /\ At(t) = "asleep"
       /\ state[t] = "none" <=> memory[t] = {}

PeriodThreads == {t \in Threads : app.policy[t] = "period"}

Waits(t) == state[t] = "suspended" /\ At(t) = "exit"

Abstract == INSTANCE Periods WITH
  time <- app.time,
  left <- [t \in Threads |-> IF t \in PeriodThreads /\ Exists(t) THEN Left(t) ELSE 0],
  job <- [t \in Threads |->
            IF t \notin PeriodThreads \/ ~Exists(t) THEN "off"
            ELSE IF Waits(t) THEN "waiting"
            ELSE IF At(t) \in {"exit", "astray"} THEN "astray"
            ELSE "active"]

(* Where jobs, their sleeps and the creations of more urgent threads end   *)
(* before the period does, the policy keeps one count per thread without   *)
(* drift, an overrun costs its own release only, and a waiting thread      *)
(* starts its route anew, never where it stopped: period_time_deal with    *)
(* period_thread_reload implements Periods.                                *)
ImplementsPeriods == Abstract!Spec

(* A thread that has ended its job starts the next one: the handler loses  *)
(* no period thread.                                                       *)
JobsRestart == \A t \in Threads : Waits(t) ~> ~Waits(t)

-----------------------------------------------------------------------------
(* What the code does not keep in every application: see the README.       *)

(* No thread returns from period_thread_exit, which has nothing to return  *)
(* to.                                                                     *)
NoneAstray == live # "astray"

(* acoral_kill_thread leaves nothing of the thread behind in the queues.   *)
KilledIsUnqueued == \A t \in Threads : state[t] = "exit" =>
                      t \notin Members(timing) \cup Members(delaying)
=============================================================================
