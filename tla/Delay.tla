------------------------------- MODULE Delay -------------------------------
(* acoral_delay_ms: the delta-encoded tick queue (kernel/src/queue.c), the *)
(* clock interrupt that counts it down (kernel/src/timer.c) and the delay, *)
(* kill and ready of threads (kernel/src/thread.c).  The clock interrupts  *)
(* TickCpu only.  Its handler runs to its end before TickCpu's threads go  *)
(* on, and is held off by their critical sections; the threads of another  *)
(* CPU run beside it and are readied through that CPU's one-slot mailbox.  *)
EXTENDS Integers, Sequences, FiniteSets, SequencesExt

CONSTANTS Threads,
          TickCpu,    \* the CPU that takes the clock interrupt
          NoThread,   \* NULL, and &queue->head where the handler's tmp points
          TickWrap,   \* ticks counts modulo TickWrap (2^32 in the code)
          DelayApps   \* applications: where each thread runs (cpu), which delays
                      \* are asked for (ticks), who may be killed (killable)

ASSUME DelayAppsAssumption ==
  /\ NoThread \notin Threads /\ NoThread \notin Int /\ TickWrap \in Nat \ {0}
  /\ \A a \in DelayApps :
       DOMAIN a.cpu = Threads /\ a.ticks \subseteq Nat /\ a.killable \subseteq Threads

VARIABLES app,        \* the application, one of DelayApps
          ticks,      \* the system clock
          queue,      \* time_delay_queue, threads in list order
          value,      \* [Threads -> thread->delaying.value]
          suspended,  \* threads whose state has SUSPEND
          pc,         \* [Threads -> "run", "init", "added" or "dead"]
          handler,    \* the clock handler: "idle", "store", "scan" or "ready"
          tmp,        \* its tmp
          tmp1,       \* its tmp1
          loaded,     \* the value it loaded from head->next
          mailbox     \* [Cpus -> thread of a pending READY command]

vars == <<app, ticks, queue, value, suspended, pc, handler, tmp, tmp1, loaded, mailbox>>

Cpu == app.cpu
DelayTicks == app.ticks
Cpus == {a.cpu[t] : a \in DelayApps, t \in Threads} \cup {TickCpu}

(* One CPU, and nobody is killed. *)
Calm == (\A t \in Threads : Cpu[t] = TickCpu) /\ app.killable = {}

-----------------------------------------------------------------------------
Queued == ToSet(queue)

First == IF queue = << >> THEN NoThread ELSE Head(queue)

(* node->next; a node that list_del took out points to itself. *)
NextOf(t) ==
  IF t \notin Queued THEN t
  ELSE LET i == CHOOSE i \in 1 .. Len(queue) : queue[i] = t
       IN IF i = Len(queue) THEN NoThread ELSE queue[i + 1]

(* The sum of the first i values of a queue: when its i-th node is due. *)
DueAt(q, val) ==
  LET sum[i \in 0 .. Len(q)] == IF i = 0 THEN 0 ELSE sum[i - 1] + val[q[i]] IN sum

(* Mutant: the comparison comes before the subtraction. *)
PlaceLate(q, val, d) ==
  LET due == DueAt(q, val)
      later == {i \in 1 .. Len(q) : d - due[i - 1] < 0}
  IN IF later = {} THEN Len(q) + 1 ELSE Min(later)

(* Where acoral_tick_queue_add stops: before the first node that is due    *)
(* after d ticks.                                                          *)
Place(q, val, d) ==
  LET due == DueAt(q, val)
      later == {i \in 1 .. Len(q) : d - due[i] < 0}
  IN IF later = {} THEN Len(q) + 1 ELSE Min(later)

(* Mutant: the node that follows keeps its value. *)
TickQueueAddNoAdjust(t) ==
  LET i == Place(queue, value, value[t])
      rest == value[t] - DueAt(queue, value)[i - 1]
  IN /\ queue' = InsertAt(queue, i, t)
     /\ value' = [value EXCEPT ![t] = rest]

(* acoral_tick_queue_add: the new node keeps what is left of its ticks     *)
(* after the nodes before it, and the node that follows loses as much.     *)
TickQueueAdd(t) ==
  LET i == Place(queue, value, value[t])
      rest == value[t] - DueAt(queue, value)[i - 1]
  IN /\ queue' = InsertAt(queue, i, t)
     /\ value' = [u \in Threads |->
                    IF u = t THEN rest
                    ELSE IF i <= Len(queue) /\ u = queue[i] THEN value[u] - rest
                    ELSE value[u]]

(* acoral_tick_queue_del, and the bare acoral_list_del of acoral_kill_thread. *)
TickQueueDel(t) == queue' = RemoveFirst(queue, t)

-----------------------------------------------------------------------------
(* acoral_tick_queue_init *)
Init ==
  /\ app \in DelayApps
  /\ ticks = 0
  /\ queue = << >>
  /\ value = [t \in Threads |-> 0]
  /\ suspended = {}
  /\ pc = [t \in Threads |-> "run"]
  /\ handler = "idle"
  /\ tmp = NoThread /\ tmp1 = NoThread /\ loaded = 0
  /\ mailbox = [c \in Cpus |-> NoThread]

InCritical(c) == \E t \in Threads : Cpu[t] = c /\ pc[t] = "added"

(* A thread can take a step: it is not suspended, no other thread of its   *)
(* CPU is inside a critical section, and its CPU is not in the handler.    *)
CanRun(t) ==
  /\ t \notin suspended
  /\ pc[t] = "added" \/ ~InCritical(Cpu[t])
  /\ Cpu[t] = TickCpu => handler = "idle"

(* acoral_delay_ms(d) -> acoral_delay_thread up to the critical section.   *)
(* A thread whose node is still queued gets KR_THREAD_ERR_UNDEF instead    *)
(* and runs on.                                                            *)
Delay(t) ==
  /\ pc[t] = "run" /\ CanRun(t) /\ t \notin Queued
  /\ \E d \in DelayTicks : value' = [value EXCEPT ![t] = d]
  /\ pc' = [pc EXCEPT ![t] = "init"]
  /\ UNCHANGED <<app, ticks, queue, suspended, handler, tmp, tmp1, loaded, mailbox>>

(* acoral_time_delay_queue_add: enter the critical section and queue. *)
Add(t) ==
  /\ pc[t] = "init" /\ CanRun(t)
  /\ TickQueueAdd(t)
  /\ pc' = [pc EXCEPT ![t] = "added"]
  /\ UNCHANGED <<app, ticks, suspended, handler, tmp, tmp1, loaded, mailbox>>

(* acoral_suspend_thread and the end of the critical section. *)
Suspend(t) ==
  /\ pc[t] = "added" /\ CanRun(t)
  /\ suspended' = suspended \cup {t}
  /\ pc' = [pc EXCEPT ![t] = "run"]
  /\ UNCHANGED <<app, ticks, queue, value, handler, tmp, tmp1, loaded, mailbox>>

(* acoral_kill_thread of a sleeping thread, on its CPU. *)
Kill(t) ==
  /\ t \in app.killable /\ t \in suspended /\ pc[t] = "run"
  /\ ~InCritical(Cpu[t])
  /\ Cpu[t] = TickCpu => handler = "idle"
  /\ TickQueueDel(t)
  /\ suspended' = suspended \ {t}
  /\ pc' = [pc EXCEPT ![t] = "dead"]
  /\ UNCHANGED <<app, ticks, value, handler, tmp, tmp1, loaded, mailbox>>

-----------------------------------------------------------------------------
(* acoral_ticks_handler -> time_delay_deal: count the tick; nothing more   *)
(* to do for an empty queue, otherwise load the value of the first node.   *)
Tick ==
  /\ handler = "idle" /\ ~InCritical(TickCpu)
  /\ ticks' = (ticks + 1) % TickWrap
  /\ \/ /\ queue = << >>
        /\ UNCHANGED <<tmp, loaded, handler>>
     \/ /\ queue # << >>
        /\ tmp' = First
        /\ loaded' = value[First]
        /\ handler' = IF value[First] > 0 THEN "store" ELSE "scan"
  /\ UNCHANGED <<app, queue, value, suspended, pc, tmp1, mailbox>>

(* head->next->value--: the write half, without the queue's lock, so a     *)
(* change that another CPU made since the load is lost.                    *)
Store ==
  /\ handler = "store"
  /\ value' = [value EXCEPT ![tmp] = loaded - 1]
  /\ tmp' = First
  /\ handler' = "scan"
  /\ UNCHANGED <<app, ticks, queue, suspended, pc, tmp1, loaded, mailbox>>

(* A node without ticks left: take it out, remembering its successor. *)
Pop ==
  /\ handler = "scan" /\ tmp # NoThread /\ value[tmp] <= 0
  /\ tmp1' = NextOf(tmp)
  /\ TickQueueDel(tmp)
  /\ handler' = "ready"
  /\ UNCHANGED <<app, ticks, value, suspended, pc, tmp, loaded, mailbox>>

(* Mutant: the node is taken out but its thread is not readied. *)
ReadySkipped ==
  /\ handler = "ready"
  /\ UNCHANGED <<suspended, mailbox>>
  /\ tmp' = tmp1
  /\ handler' = "scan"
  /\ UNCHANGED <<app, ticks, queue, value, pc, tmp1, loaded>>

(* acoral_rdy_thread, whose KR_THREAD_ERR_STATE for a thread that is not   *)
(* suspended is ignored; another CPU's mailbox must be free.               *)
Ready ==
  /\ handler = "ready"
  /\ \/ tmp \notin suspended /\ UNCHANGED <<suspended, mailbox>>
     \/ /\ tmp \in suspended /\ Cpu[tmp] = TickCpu
        /\ suspended' = suspended \ {tmp}
        /\ UNCHANGED mailbox
     \/ /\ tmp \in suspended /\ Cpu[tmp] # TickCpu
        /\ mailbox[Cpu[tmp]] = NoThread
        /\ mailbox' = [mailbox EXCEPT ![Cpu[tmp]] = tmp]
        /\ UNCHANGED suspended
  /\ tmp' = tmp1
  /\ handler' = "scan"
  /\ UNCHANGED <<app, ticks, queue, value, pc, tmp1, loaded>>

(* The end of the list, or a node with ticks left. *)
HandlerReturn ==
  /\ handler = "scan"
  /\ tmp # NoThread => value[tmp] > 0
  /\ handler' = "idle"
  /\ tmp' = NoThread /\ tmp1' = NoThread /\ loaded' = 0
  /\ UNCHANGED <<app, ticks, queue, value, suspended, pc, mailbox>>

HandlerStep == Store \/ Pop \/ Ready \/ HandlerReturn

(* acoral_ipi_cmd_handler: READY. *)
Ipi(c) ==
  /\ mailbox[c] # NoThread /\ ~InCritical(c)
  /\ suspended' = suspended \ {mailbox[c]}
  /\ mailbox' = [mailbox EXCEPT ![c] = NoThread]
  /\ UNCHANGED <<app, ticks, queue, value, pc, handler, tmp, tmp1, loaded>>

Next ==
  \/ \E t \in Threads : Delay(t) \/ Add(t) \/ Suspend(t) \/ Kill(t)
  \/ Tick \/ HandlerStep
  \/ \E c \in Cpus : Ipi(c)

(* The clock keeps ticking (strongly fair: a critical section delays the   *)
(* interrupt but does not lose it), handlers and calls come to their end,  *)
(* and pending commands are taken.                                         *)
Fairness ==
  /\ SF_vars(Tick) /\ WF_vars(HandlerStep)
  /\ \A t \in Threads : WF_vars(Suspend(t))
  /\ \A c \in Cpus : SF_vars(Ipi(c))

Spec == Init /\ [][Next]_vars /\ Fairness

-----------------------------------------------------------------------------
TypeOK ==
  /\ app \in DelayApps
  /\ ticks \in 0 .. TickWrap - 1
  /\ queue \in Seq(Threads)
  /\ value \in [Threads -> Int]
  /\ suspended \subseteq Threads
  /\ pc \in [Threads -> {"run", "init", "added", "dead"}]
  /\ handler \in {"idle", "store", "scan", "ready"}
  /\ tmp \in Threads \cup {NoThread} /\ tmp1 \in Threads \cup {NoThread}
  /\ loaded \in Int
  /\ mailbox \in [Cpus -> Threads \cup {NoThread}]

(* How many ticks a queued thread has still to wait, by the delta code: a  *)
(* tick counts from the moment its decrement is stored.                    *)
Remaining(t) == DueAt(queue, value)[CHOOSE i \in 1 .. Len(queue) : queue[i] = t]

(* A sleeper is never forgotten: a suspended thread is queued, or the      *)
(* handler or a mailbox is about to ready it.                              *)
SleepersQueued ==
  \A t \in suspended : \/ t \in Queued
                       \/ handler = "ready" /\ tmp = t
                       \/ \E c \in Cpus : mailbox[c] = t

(* The same for the threads of the clock's CPU, whatever the threads of    *)
(* other CPUs do to the shared queue meanwhile.                            *)
ClockSleepersQueued ==
  \A t \in suspended : Cpu[t] = TickCpu => t \in Queued \/ (handler = "ready" /\ tmp = t)

(* On one CPU the deltas stay non-negative, which is what lets the handler *)
(* stop at the first node with ticks left, and everywhere a sleeper is     *)
(* queued once.                                                            *)
DeltasSorted ==
  /\ TypeOK
  /\ Calm => \A t \in Queued : value[t] >= 0
  /\ Cardinality(Queued) = Len(queue)

(* On one CPU whoever goes to sleep wakes up. *)
SleepersWake == \A t \in Threads : (Calm /\ t \in suspended) ~> (t \notin suspended)

(* Asleep, or about to be, in an application that the refinement is about. *)
Sleeping(t) == Calm /\ (t \in suspended \/ pc[t] = "added")

(* The clock and the sleepers' counters that a caller could observe.       *)
Now == IF handler = "store" THEN (ticks - 1) % TickWrap ELSE ticks
Left == [t \in Threads |-> IF ~Sleeping(t) THEN NoThread
                           ELSE IF t \in Queued THEN Remaining(t)
                           ELSE 0]

Abstract == INSTANCE Delays WITH
  Ticks <- UNION {a.ticks : a \in DelayApps},
  Awake <- NoThread,
  Wrap <- TickWrap,
  now <- Now,
  left <- Left

(* On the clock's CPU and without kills a thread sleeps for exactly the    *)
(* ticks it asked for: the delta queue implements one counter per thread   *)
(* (the sleepers of other applications are not counted).                   *)
ImplementsDelays == Abstract!Spec

-----------------------------------------------------------------------------
(* What the docs promise and the code does not keep: see the README.  No   *)
(* run checks these two.                                                   *)

(* Every clock tick brings every sleeper one tick nearer: the handler      *)
(* counts down the first node only, so between two ticks the first node    *)
(* must have a tick to give whenever a later one has.                      *)
EveryTickCounts ==
  (handler = "idle" /\ \E t \in Queued : Remaining(t) > 0) => value[First] > 0

(* Killing a sleeper leaves the others their delays: no step takes more    *)
(* than one tick off a thread that stays queued.                           *)
OthersKeepTheirDelay ==
  [][\A t \in Queued : t \in Queued' => Remaining(t)' >= Remaining(t) - 1]_vars
=============================================================================
