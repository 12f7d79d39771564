------------------------------ MODULE MemBase ------------------------------
(* What both allocators of kernel/src/mem.c stand on: threads that call    *)
(* them, one call at a time, under strict priority scheduling on each CPU. *)
(* A call is a record whose op names the place it has reached.             *)
EXTENDS Integers, FiniteSets

CONSTANTS Threads, NoThread,
          Apps         \* applications; app.calls bounds the calls of each thread

VARIABLES app,         \* the application, chosen from Apps at the start
          call,        \* [Threads -> the call in progress]
          calls,       \* [Threads -> calls made so far]
          suspended    \* threads with state SUSPEND

memBaseVars == <<app, call, calls, suspended>>

ASSUME MemBaseAssumption == NoThread \notin Threads

Idle == [op |-> "idle"]

MoreUrgent(u, t) == app.cpu[u] = app.cpu[t] /\ app.prio[u] < app.prio[t]

(* Strict priority scheduling: a thread runs while no more urgent thread   *)
(* of its CPU has something to do.                                         *)
CanRun(t) ==
  /\ t \notin suspended
  /\ \A u \in Threads : MoreUrgent(u, t) => u \in suspended \/ call[u] = Idle

MemBaseInit ==
  /\ app \in Apps
  /\ call = [t \in Threads |-> Idle]
  /\ calls = [t \in Threads |-> 0]
  /\ suspended = {}

(* Thread t enters a function of the allocators and reaches c. *)
Begin(t, c) ==
  /\ call[t] = Idle /\ calls[t] < app.calls[t] /\ CanRun(t)
  /\ calls' = [calls EXCEPT ![t] = @ + 1]
  /\ call' = [call EXCEPT ![t] = c]

(* Thread t has reached place op of its call and may go on. *)
At(t, op) == call[t].op = op /\ CanRun(t)

GoOn(t, c) == call' = [call EXCEPT ![t] = c]

=============================================================================
