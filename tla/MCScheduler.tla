--------------------------- MODULE MCScheduler -----------------------------
(* Instances of the scheduler: two CPUs, their idle threads, the daemon on *)
(* the first CPU, and up to four application threads a, b, d and e.  e is  *)
(* less urgent than the daemon, as the shell is.                           *)
EXTENDS Scheduler, TLC

CONSTANTS c0, c1, i0, i1, dm, a, b, d, e

IdleThreads == c0 :> i0 @@ c1 :> i1
StartCpu == [t \in Threads |-> IF t \in {i1, b} THEN c1 ELSE c0]
StartPrio == [t \in Threads |-> CASE t \in {i0, i1} -> 9 [] t = dm -> 4 [] t = e -> 5
                                 [] t \in {a, b} -> 2 [] t = d -> 1]
AllLocal == [t \in Threads |-> "LOCAL"]
GlobalA == [t \in Threads |-> IF t = a THEN "GLOBAL" ELSE "LOCAL"]

Call(by, op, t, arg) == [by |-> by, op |-> op, thread |-> t, arg |-> arg, once |-> FALSE]
CallOnce(by, op, t, arg) == [Call(by, op, t, arg) EXCEPT !.once = TRUE]

(* d sleeps and is woken by the clock handler. *)
Sleeper == {Call(d, "suspend", d, None), Call(c0, "ready", d, None)}

(* Threads of two CPUs suspend themselves and ready each other. *)
Mutual ==
  {Call(a, "suspend", a, None), Call(b, "suspend", b, None), Call(d, "suspend", d, None),
   Call(b, "ready", a, None), Call(a, "ready", b, None)}

(* A thread sleeps, is readied from the other CPU and has its priority     *)
(* changed from there and by itself, while the clock handler wakes another *)
(* one: no target is handled by a thread and an interrupt of the same CPU. *)
Readied == Sleeper \cup
  {Call(a, "suspend", a, None), Call(b, "ready", a, None),
   Call(b, "chg_prio", a, 1), Call(a, "chg_prio", a, 5)}

(* One thread migrates itself to and fro while others sleep and wake. *)
OneMover == Sleeper \cup
  {Call(a, "moveto", a, c0), Call(a, "moveto", a, c1), Call(b, "suspend", b, None)}

(* One thread is migrated to and fro by another, and wakes up when it is   *)
(* migrated in its sleep.                                                  *)
Moved == Sleeper \cup
  {CallOnce(b, "moveto", a, c0), CallOnce(b, "moveto", a, c1), Call(a, "suspend", a, None)}

(* Threads end: acoral_thread_exit kills the running thread.  One of the   *)
(* daemon's CPU, less urgent than the daemon; two of different CPUs.       *)
OneExit == Sleeper \cup
  {Call(e, "kill", e, None), Call(e, "suspend", e, None), Call(c0, "ready", e, None),
   Call(a, "suspend", a, None)}
Exits == {Call(a, "kill", a, None), Call(b, "kill", b, None), Call(d, "suspend", d, None)}

(* Two threads of the daemon's CPU are killed while they do not run, and   *)
(* so never leave it; the more urgent one may also kill itself first.      *)
TwoKilled == {Call(d, "kill", a, None), Call(d, "kill", e, None), Call(a, "kill", a, None),
              Call(d, "suspend", d, None)}

(* One thread is suspended, readied and killed, each once, from the other  *)
(* CPU.                                                                    *)
Remote == {CallOnce(b, "suspend", a, None), CallOnce(b, "ready", a, None),
           CallOnce(b, "kill", a, None),
           Call(d, "suspend", d, None)}

All == {Mutual, Readied, OneMover, Moved, Remote, OneExit, Exits, TwoKilled}

(* Two threads migrate themselves to each other's CPU. *)
Swap == {{Call(a, "moveto", a, c1), Call(b, "moveto", b, c0), Call(d, "suspend", d, None)}}

(* The applications that the theorems of SchedulerProofs cover; Moved, whose *)
(* migrated thread is not the one that asks for it, is not among them.       *)
ASSUME DisciplineAssumption ==
  /\ \A app \in All \ {Moved} : Disciplined(app)
  /\ ~Disciplined(Moved)
=============================================================================
