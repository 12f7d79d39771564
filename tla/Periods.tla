------------------------------ MODULE Periods ------------------------------
(* What the period policy promises: every period thread has its own count  *)
(* of ticks, reloaded with its period each time it runs out, whatever its  *)
(* job does; a thread that waits when its count runs out starts a job.     *)
EXTENDS Integers

CONSTANT Threads

VARIABLES time,      \* [Threads -> the period in ticks]
          left,      \* [Threads -> ticks to the end of the period]
          job        \* [Threads -> "off", "active" or "waiting"]

Init == /\ time \in [Threads -> Nat \ {0}]
        /\ left = [t \in Threads |-> 0]
        /\ job = [t \in Threads |-> "off"]

Start(t) == /\ job[t] = "off"
            /\ job' = [job EXCEPT ![t] = "active"]
            /\ left' = [left EXCEPT ![t] = time[t]]

End(t) == /\ job[t] = "active"
          /\ job' = [job EXCEPT ![t] = "waiting"]
          /\ UNCHANGED left

Stop(t) == /\ job[t] # "off"
           /\ job' = [job EXCEPT ![t] = "off"]
           /\ left' = [left EXCEPT ![t] = 0]

(* An overrun (a job still active at the end of its period) loses that     *)
(* release and keeps the phase.                                            *)
Tick ==
  /\ left' = [t \in Threads |-> IF job[t] = "off" THEN 0
                                ELSE IF left[t] = 1 THEN time[t] ELSE left[t] - 1]
  /\ job' = [t \in Threads |-> IF job[t] = "waiting" /\ left[t] = 1 THEN "active"
                               ELSE job[t]]

Next == /\ Tick \/ \E t \in Threads : Start(t) \/ End(t) \/ Stop(t)
        /\ UNCHANGED time

Spec == Init /\ [][Next]_<<time, left, job>>
=============================================================================
