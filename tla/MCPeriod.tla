----------------------------- MODULE MCPeriod -----------------------------
(* Applications of period threads. *)
EXTENDS Period, TLC

CONSTANTS main, a, b

Policy == main :> "comm" @@ a :> "period" @@ b :> "period"
Never == main :> {} @@ a :> {} @@ b :> {}

(* main creates a (period 2) and b (period 3, more urgent), with creations *)
(* that fail, and sleeps now and then.                                     *)
Plain == [policy |-> Policy, time |-> main :> 1 @@ a :> 2 @@ b :> 3,
          prio |-> main :> 2 @@ a :> 1 @@ b :> 0,
          sleeps |-> main :> {1, 2} @@ a :> {} @@ b :> {},
          kill |-> Never, main |-> main, fails |-> {"tcb", "data"}, punctual |-> {"jobs", "creations"}]

(* Jobs that sleep for part of their period; main, the most urgent, kills  *)
(* itself or a period thread that is ready.                                *)
Sleepers == [Plain EXCEPT !.prio = main :> 0 @@ a :> 1 @@ b :> 2,
                          !.sleeps = main :> {2} @@ a :> {1} @@ b :> {1, 2},
                          !.kill = main :> {"ready"} @@ a :> {"ready"} @@ b :> {}]

(* Common threads: main is killed while it sleeps, b finds no stack or     *)
(* exits.  Nothing is said of its sleepers' delays.                        *)
Common == [Plain EXCEPT !.policy = main :> "comm" @@ a :> "period" @@ b :> "comm",
                        !.sleeps = main :> {1, 3} @@ a :> {} @@ b :> {1, 2},
                        !.kill = main :> {"suspended"} @@ a :> {} @@ b :> {"ready"},
                        !.fails = {"tcb"}]

Punctual == {Plain, Sleepers, Common}

(* A job that ends at the very end of its period; a creator preempted for  *)
(* the first period of the thread it creates; a period thread without      *)
(* stack; a period thread killed while it waits.                           *)
Late == {[Plain EXCEPT !.punctual = {"creations"}, !.fails = {}]}
LateCreation == {[Plain EXCEPT !.punctual = {"jobs"}, !.fails = {}]}
NoStack == {[Plain EXCEPT !.fails = {"stack"}]}
KillWaiting == {[Plain EXCEPT !.kill = main :> {} @@ a :> {"suspended"} @@ b :> {}]}
=============================================================================
