------------------------------- MODULE Delays -------------------------------
(* What acoral_delay_ms promises: a thread that delays itself by d ticks   *)
(* sleeps for exactly d clock ticks, whatever the other threads do.  left  *)
(* is the number of ticks a sleeper has still to sleep; the clock does not *)
(* tick past a sleeper whose time has come.                                *)
EXTENDS Naturals

CONSTANTS Threads, Ticks, Awake, Wrap

VARIABLES now,   \* the clock, counted modulo Wrap
          left   \* [Threads -> Nat \cup {Awake}]

Init == now = 0 /\ left = [t \in Threads |-> Awake]

Sleep(t) ==
  /\ left[t] = Awake
  /\ \E d \in Ticks : left' = [left EXCEPT ![t] = d]
  /\ UNCHANGED now

Tick ==
  /\ \A t \in Threads : left[t] # 0
  /\ now' = (now + 1) % Wrap
  /\ left' = [t \in Threads |-> IF left[t] = Awake THEN Awake ELSE left[t] - 1]

Wake(t) ==
  /\ left[t] = 0
  /\ left' = [left EXCEPT ![t] = Awake]
  /\ UNCHANGED now

Next == Tick \/ \E t \in Threads : Sleep(t) \/ Wake(t)

Spec == Init /\ [][Next]_<<now, left>>
=============================================================================
