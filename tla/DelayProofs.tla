---------------------------- MODULE DelayProofs ----------------------------
(* Proofs about acoral_delay_ms, for any number of threads and CPUs, any   *)
(* delays and any length of the clock: who is asleep is queued, the delta  *)
(* code stays sorted, and on one CPU the delta queue implements one        *)
(* counter per sleeper.                                                    *)
EXTENDS Delay, QueueProofs, FiniteSetTheorems

(* No thread is queued twice; one that is about to queue itself is not     *)
(* queued, and one that is suspended is not inside acoral_delay_thread.    *)
QueueInv ==
  /\ IsInjective(queue)
  /\ \A t \in Threads : pc[t] = "init" => t \notin Queued
  /\ \A t \in suspended : pc[t] = "run"

(* The critical section of a thread of the clock's CPU, from queueing to   *)
(* suspending itself, keeps the handler out.                               *)
ClockInv ==
  /\ \A t \in Threads : (Cpu[t] = TickCpu /\ pc[t] = "added") => t \in Queued /\ handler = "idle"
  /\ ClockSleepersQueued

(* The handler's pointers while nothing but itself changes the queue.      *)
HandlerInv ==
  /\ handler = "store" => /\ queue # << >> /\ tmp = Head(queue)
                          /\ loaded = value[tmp] /\ loaded > 0
  /\ handler = "scan" => tmp = First
  /\ handler = "ready" => tmp \in suspended /\ tmp \notin Queued /\ tmp1 = First

(* Who sleeps on one CPU, and for how long. *)
CalmInv ==
  Calm => /\ \A c \in Cpus : mailbox[c] = NoThread
          /\ \A t \in Threads : pc[t] = "init" => value[t] \in DelayTicks
          /\ \A t \in Queued : value[t] >= 0 /\ (t \in suspended \/ pc[t] = "added")
          /\ HandlerInv
          /\ (handler = "idle" /\ queue # << >> /\ 0 \notin DelayTicks) => value[Head(queue)] > 0

IInv == TypeOK /\ QueueInv /\ ClockInv /\ CalmInv

-----------------------------------------------------------------------------
(* A sequence without repetitions is as long as the set of its elements. *)
LEMMA QueueSize ==
  ASSUME NEW q \in Seq(Threads), IsInjective(q)
  PROVE  Cardinality(ToSet(q)) = Len(q)
<1>1. Len(q) \in Nat /\ q \in [1 .. Len(q) -> Threads]
  BY LenProperties
<1>2. \A x : x \in ToSet(q) <=> \E i \in 1 .. Len(q) : q[i] = x
  BY ToSetOfSeq
<1>3. q \in [1 .. Len(q) -> ToSet(q)]
  BY <1>1, <1>2
<1>4. q \in Bijection(1 .. Len(q), ToSet(q))
  BY <1>2, <1>3 DEF Bijection, Injection, Surjection
<1>5. ExistsBijection(1 .. Len(q), ToSet(q))
  BY <1>4 DEF ExistsBijection
<1> QED BY <1>1, <1>5, FS_CountingElements

(* What it is to be the function of partial sums up to n. *)
IsSum(f, n, q, val) ==
  /\ f \in [0 .. n -> Int] /\ f[0] = 0
  /\ \A i \in 1 .. n : f[i] = f[i - 1] + val[q[i]]

LEMMA SumExists ==
  ASSUME NEW q \in Seq(Threads), NEW val \in [Threads -> Int]
  PROVE  \A n \in 0 .. Len(q) : \E f : IsSum(f, n, q, val)
<1> DEFINE bad == {n \in 0 .. Len(q) : ~(\E f : IsSum(f, n, q, val))}
<1>0. Len(q) \in Nat /\ \A i \in 1 .. Len(q) : q[i] \in Threads
  BY LenProperties, ElementOfSeq
<1> SUFFICES ASSUME bad # {} PROVE FALSE
  OBVIOUS
<1>1. bad \subseteq Nat
  BY <1>0
<1> DEFINE n == Min(bad)
<1>2. n \in bad /\ \A m \in bad : n <= m
  BY <1>1, MinOfNats
<1> HIDE DEF n
<1>3. n \in 0 .. Len(q) /\ ~(\E f : IsSum(f, n, q, val))
  BY <1>2
<1>4. CASE n = 0
  <2>1. IsSum([i \in 0 .. 0 |-> 0], 0, q, val)
    BY DEF IsSum
  <2> QED BY <1>3, <1>4, <2>1
<1>5. CASE n # 0
  <2>1. n - 1 \in 0 .. Len(q) /\ ~(n <= n - 1)
    BY <1>0, <1>3, <1>5
  <2>2. PICK f : IsSum(f, n - 1, q, val)
    BY <1>2, <2>1
  <2>3. /\ f \in [0 .. n - 1 -> Int] /\ f[0] = 0
        /\ \A i \in 1 .. n - 1 : f[i] = f[i - 1] + val[q[i]]
    BY <2>2 DEF IsSum
  <2> DEFINE g == [i \in 0 .. n |-> IF i = n THEN f[n - 1] + val[q[n]] ELSE f[i]]
  <2>4. val[q[n]] \in Int /\ f[n - 1] \in Int /\ n \in Nat
    BY <1>0, <1>3, <1>5, <2>3
  <2>5. g \in [0 .. n -> Int] /\ g[0] = 0
    BY <1>5, <2>3, <2>4
  <2>6. ASSUME NEW i \in 1 .. n PROVE g[i] = g[i - 1] + val[q[i]]
    <3>1. i - 1 \in 0 .. n /\ i - 1 # n /\ g[i - 1] = f[i - 1]
      BY <2>4
    <3>2. CASE i = n
      BY <3>1, <3>2
    <3>3. CASE i # n
      <4>1. i \in 1 .. n - 1 /\ g[i] = f[i]
        BY <3>3, <2>4
      <4> QED BY <4>1, <3>1, <2>3
    <3> QED BY <3>2, <3>3
  <2>7. IsSum(g, n, q, val)
    BY <2>5, <2>6 DEF IsSum
  <2> QED BY <1>3, <2>7
<1> QED BY <1>4, <1>5

(* The recurrence of the sums of the first n nodes of a queue. *)
Recurs(g, n, q, val) == g[0] = 0 /\ \A j \in 1 .. n : g[j] = g[j - 1] + val[q[j]]

(* Two functions with the recurrence of the sums agree. *)
LEMMA SumUnique ==
  ASSUME NEW q, NEW val, NEW n \in Nat, NEW f, IsSum(f, n, q, val), NEW g, Recurs(g, n, q, val)
  PROVE  \A i \in 0 .. n : g[i] = f[i]
<1> DEFINE bad == {i \in 0 .. n : g[i] # f[i]}
<1> SUFFICES ASSUME bad # {} PROVE FALSE
  OBVIOUS
<1>1. bad \subseteq Nat
  OBVIOUS
<1> DEFINE k == Min(bad)
<1>2. k \in bad /\ \A m \in bad : k <= m
  BY <1>1, MinOfNats
<1> HIDE DEF k
<1>3. k \in 0 .. n /\ g[k] # f[k]
  BY <1>2
<1>4. k # 0
  BY <1>3 DEF IsSum, Recurs
<1>5. k \in 1 .. n /\ k - 1 \in 0 .. n /\ ~(k <= k - 1)
  BY <1>3, <1>4
<1>6. g[k - 1] = f[k - 1]
  BY <1>2, <1>5
<1>7. f[k] = f[k - 1] + val[q[k]] /\ g[k] = g[k - 1] + val[q[k]]
  BY <1>5 DEF IsSum, Recurs
<1> QED BY <1>3, <1>6, <1>7

(* The recursive definition of DueAt defines the partial sums. *)
LEMMA DueAtSum ==
  ASSUME NEW q \in Seq(Threads), NEW val \in [Threads -> Int]
  PROVE  IsSum(DueAt(q, val), Len(q), q, val)
<1>0. Len(q) \in Nat
  BY LenProperties
<1>1. PICK f : IsSum(f, Len(q), q, val)
  BY <1>0, SumExists
<1>2. f = [i \in 0 .. Len(q) |-> IF i = 0 THEN 0 ELSE f[i - 1] + val[q[i]]]
  <2>1. f = [i \in 0 .. Len(q) |-> f[i]]
    BY <1>1 DEF IsSum
  <2>2. \A i \in 0 .. Len(q) : f[i] = IF i = 0 THEN 0 ELSE f[i - 1] + val[q[i]]
    BY <1>0, <1>1 DEF IsSum
  <2> QED BY <2>1, <2>2
<1> DEFINE g == DueAt(q, val)
<1>3. g = [i \in 0 .. Len(q) |-> IF i = 0 THEN 0 ELSE g[i - 1] + val[q[i]]]
  BY <1>2 DEF DueAt
<1> HIDE DEF g
<1>4. g[0] = 0 /\ (\A i \in 1 .. Len(q) : g[i] = g[i - 1] + val[q[i]]) /\ DOMAIN g = 0 .. Len(q)
  BY <1>0, <1>3
<1>5. \A i \in 0 .. Len(q) : g[i] = f[i]
  <2>1. Recurs(g, Len(q), q, val)
    BY <1>4 DEF Recurs
  <2> QED BY <1>0, <1>1, <2>1, SumUnique
<1>6. f \in [0 .. Len(q) -> Int]
  BY <1>1 DEF IsSum
<1>7. g = [i \in 0 .. Len(q) |-> g[i]]
  BY <1>3
<1>8. g \in [0 .. Len(q) -> Int]
  BY <1>5, <1>6, <1>7
<1> QED BY <1>4, <1>8 DEF IsSum, g

(* Where a delay of d ticks is queued: not after a node that is due later, *)
(* and not before one that is due no later.                                *)
LEMMA PlaceValue ==
  ASSUME NEW q \in Seq(Threads), NEW val \in [Threads -> Int], NEW d \in Int
  PROVE  LET i == Place(q, val, d)
             due == DueAt(q, val)
         IN  /\ i \in 1 .. Len(q) + 1
             /\ i > 1 => d - due[i - 1] >= 0
             /\ i <= Len(q) => d - due[i] < 0
             /\ d - due[i - 1] \in Int
             /\ \A j \in 1 .. Len(q) : j < i => due[j] <= d
<1> DEFINE due == DueAt(q, val)
           later == {i \in 1 .. Len(q) : d - due[i] < 0}
           i == IF later = {} THEN Len(q) + 1 ELSE Min(later)
<1>0. Len(q) \in Nat /\ due \in [0 .. Len(q) -> Int]
  BY LenProperties, DueAtSum DEF IsSum
<1>1. Place(q, val, d) = i
  BY DEF Place
<1> HIDE DEF due
<1>2. later \subseteq Nat
  BY <1>0
<1>3. later # {} => Min(later) \in later /\ \A j \in later : Min(later) <= j
  BY <1>2, MinOfNats
<1>4. i \in 1 .. Len(q) + 1 /\ (i <= Len(q) => d - due[i] < 0) /\ \A j \in later : i <= j
  <2>1. CASE later = {}
    <3>1. i = Len(q) + 1 /\ \A j \in later : i <= j
      BY <2>1
    <3> HIDE DEF i
    <3>2. i \in 1 .. Len(q) + 1 /\ ~(i <= Len(q))
      BY <1>0, <3>1
    <3> QED BY <3>1, <3>2
  <2>2. CASE later # {}
    <3>1. i = Min(later) /\ i \in later /\ \A j \in later : i <= j
      BY <1>3, <2>2
    <3> HIDE DEF i
    <3> QED BY <1>0, <3>1
  <2> QED BY <2>1, <2>2
<1> HIDE DEF i
<1>5. \A j \in 1 .. Len(q) : due[j] \in Int
  BY <1>0
<1>6. ASSUME NEW j \in 1 .. Len(q), j < i PROVE due[j] <= d
  <2>1. j \notin later
    BY <1>0, <1>4, <1>6
  <2> QED BY <1>5, <2>1
<1>7. i > 1 => d - due[i - 1] >= 0
  <2>1. ASSUME i > 1 PROVE i - 1 \in 1 .. Len(q) /\ i - 1 < i
    BY <1>0, <1>4, <2>1
  <2> QED BY <1>5, <1>6, <2>1
<1>8. d - due[i - 1] \in Int
  <2>1. i - 1 \in 0 .. Len(q)
    BY <1>0, <1>4
  <2> QED BY <1>0, <2>1
<1> QED BY <1>1, <1>4, <1>6, <1>7, <1>8 DEF due

-----------------------------------------------------------------------------
(* The first node of the queue. *)
LEMMA HeadQueued ==
  ASSUME TypeOK, queue # << >>
  PROVE  /\ Head(queue) = queue[1] /\ First = queue[1] /\ queue[1] \in Queued /\ queue[1] \in Threads
         /\ First # NoThread /\ Len(queue) \in Nat /\ Len(queue) >= 1
<1>1. queue \in Seq(Threads) /\ Len(queue) \in Nat /\ Len(queue) >= 1
  BY EmptySeq, LenProperties DEF TypeOK
<1>2. Head(queue) = queue[1] /\ Head(queue) \in Threads
  BY <1>1, HeadTailProperties
<1>3. queue[1] \in Queued
  BY <1>1, ToSetOfSeq DEF Queued
<1> QED BY <1>1, <1>2, <1>3, DelayAppsAssumption DEF First

(* acoral_tick_queue_add links the node where its time comes, gives it the *)
(* ticks that the nodes before it leave, and takes them from the next one. *)
LEMMA TickQueueAdded ==
  ASSUME TypeOK, QueueInv, NEW t \in Threads, t \notin Queued, TickQueueAdd(t)
  PROVE  \E i \in 1 .. Len(queue) + 1, rest \in Int :
           /\ i = Place(queue, value, value[t])
           /\ rest = value[t] - DueAt(queue, value)[i - 1]
           /\ i > 1 => rest >= 0
           /\ i = 1 => rest = value[t]
           /\ i <= Len(queue) => value[queue[i]] - rest > 0
           /\ queue' = InsertAt(queue, i, t) /\ queue' \in Seq(Threads) /\ IsInjective(queue')
           /\ Queued' = Queued \cup {t}
           /\ value' \in [Threads -> Int]
           /\ \A u \in Threads : value'[u] = IF u = t THEN rest
                                             ELSE IF i <= Len(queue) /\ u = queue[i] THEN value[u] - rest
                                             ELSE value[u]
<1>0. /\ queue \in Seq(Threads) /\ value \in [Threads -> Int] /\ Len(queue) \in Nat
      /\ \A i \in 1 .. Len(queue) : queue[i] \in Threads
  BY LenProperties, ElementOfSeq DEF TypeOK
<1> DEFINE due == DueAt(queue, value)
           i == Place(queue, value, value[t])
           rest == value[t] - due[i - 1]
<1>1. value[t] \in Int
  BY <1>0
<1>2. /\ i \in 1 .. Len(queue) + 1 /\ (i > 1 => rest >= 0) /\ rest \in Int
      /\ (i <= Len(queue) => value[t] - due[i] < 0)
  BY <1>0, <1>1, PlaceValue
<1>3. /\ due \in [0 .. Len(queue) -> Int] /\ due[0] = 0
      /\ \A j \in 1 .. Len(queue) : due[j] = due[j - 1] + value[queue[j]]
  BY <1>0, DueAtSum DEF IsSum
<1>4. queue' = InsertAt(queue, i, t)
  BY DEF TickQueueAdd
<1>5. value' = [u \in Threads |-> IF u = t THEN rest
                                  ELSE IF i <= Len(queue) /\ u = queue[i] THEN value[u] - rest
                                  ELSE value[u]]
  BY DEF TickQueueAdd
<1> HIDE DEF due, i
<1>6. i = 1 => rest = value[t]
  BY <1>1, <1>3
<1>7. i <= Len(queue) => value[queue[i]] - rest > 0
  <2>1. ASSUME i <= Len(queue) PROVE i \in 1 .. Len(queue) /\ i - 1 \in 0 .. Len(queue) /\ i \in 0 .. Len(queue)
    BY <1>0, <1>2, <2>1
  <2>2. ASSUME i <= Len(queue)
        PROVE  /\ due[i] = due[i - 1] + value[queue[i]] /\ value[queue[i]] \in Int
               /\ due[i] \in Int /\ due[i - 1] \in Int
    BY <1>0, <1>3, <2>1, <2>2
  <2>3. ASSUME i <= Len(queue) PROVE value[queue[i]] - rest > 0
    <3>1. PICK a \in Int, b \in Int, v \in Int : a = due[i - 1] /\ b = value[queue[i]] /\ v = value[t]
      BY <1>1, <2>2, <2>3
    <3>2. due[i] = a + b /\ v - due[i] < 0 /\ rest = v - a
      BY <1>2, <2>2, <2>3, <3>1
    <3>3. v - (a + b) < 0 => b - (v - a) > 0
      OBVIOUS
    <3> QED BY <3>1, <3>2, <3>3
  <2> QED BY <2>3
<1>8. queue' \in Seq(Threads) /\ IsInjective(queue') /\ Queued' = Queued \cup {t}
  BY <1>0, <1>2, <1>4, InsertAtSeq, InsertAtMembers DEF QueueInv, Queued
<1> HIDE DEF rest
<1>9. value' \in [Threads -> Int]
  BY <1>0, <1>2, <1>5
<1>10. \A u \in Threads : value'[u] = IF u = t THEN rest
                                      ELSE IF i <= Len(queue) /\ u = queue[i] THEN value[u] - rest
                                      ELSE value[u]
  BY <1>5
<1> QED BY <1>2, <1>4, <1>6, <1>7, <1>8, <1>9, <1>10 DEF due, i, rest

(* Queueing keeps the deltas non-negative and the first one positive. *)
LEMMA DeltasKept ==
  ASSUME TypeOK, QueueInv, NEW t \in Threads, t \notin Queued, TickQueueAdd(t),
         value[t] >= 0, \A u \in Queued : value[u] >= 0
  PROVE  /\ \A u \in Queued' : value'[u] >= 0
         /\ (value[t] > 0 /\ (queue # << >> => value[Head(queue)] > 0)) => value'[Head(queue')] > 0
<1>1. PICK i \in 1 .. Len(queue) + 1, rest \in Int :
           /\ i > 1 => rest >= 0
           /\ i = 1 => rest = value[t]
           /\ i <= Len(queue) => value[queue[i]] - rest > 0
           /\ queue' = InsertAt(queue, i, t) /\ queue' \in Seq(Threads)
           /\ Queued' = Queued \cup {t}
           /\ \A u \in Threads : value'[u] = IF u = t THEN rest
                                             ELSE IF i <= Len(queue) /\ u = queue[i] THEN value[u] - rest
                                             ELSE value[u]
  BY TickQueueAdded
<1>2. /\ queue \in Seq(Threads) /\ Len(queue) \in Nat /\ value \in [Threads -> Int]
      /\ \A u \in Queued : u \in Threads
  BY LenProperties, ToSetOfSeq DEF TypeOK, Queued
<1>3. rest >= 0
  BY <1>1, <1>2
<1>4. ASSUME NEW u \in Queued' PROVE value'[u] >= 0
  <2>1. u = t \/ u \in Queued
    BY <1>1
  <2>2. value[u] \in Int /\ u \in Threads
    BY <1>2, <2>1
  <2>3. CASE u = t
    BY <1>1, <1>3, <2>3
  <2>4. CASE u # t /\ i <= Len(queue) /\ u = queue[i]
    <3>1. value'[u] = value[u] - rest /\ value[u] - rest > 0
      BY <1>1, <2>2, <2>4
    <3> QED BY <2>2, <3>1
  <2>5. CASE u # t /\ ~(i <= Len(queue) /\ u = queue[i])
    BY <1>1, <2>1, <2>2, <2>5
  <2> QED BY <2>3, <2>4, <2>5
<1>5. ASSUME value[t] > 0, queue # << >> => value[Head(queue)] > 0
      PROVE  value'[Head(queue')] > 0
  <2>1. /\ Len(queue') = Len(queue) + 1
        /\ \A j \in 1 .. Len(queue) + 1 : queue'[j] = IF j < i THEN queue[j] ELSE IF j = i THEN t ELSE queue[j - 1]
    <3> DEFINE r == InsertAt(queue, i, t)
    <3>1. /\ Len(r) = Len(queue) + 1
          /\ \A j \in 1 .. Len(queue) + 1 : r[j] = IF j < i THEN queue[j] ELSE IF j = i THEN t ELSE queue[j - 1]
      BY <1>2, InsertAtSeq
    <3>2. queue' = r
      BY <1>1
    <3> HIDE DEF r
    <3> QED BY <3>1, <3>2
  <2>2. queue'[1] = IF i = 1 THEN t ELSE queue[1]
    <3>1. 1 \in 1 .. Len(queue) + 1 /\ (i = 1 \/ 1 < i) /\ ~(1 < 1)
      BY <1>2
    <3>2. queue'[1] = IF 1 < i THEN queue[1] ELSE IF 1 = i THEN t ELSE queue[1 - 1]
      BY <2>1, <3>1
    <3> QED BY <3>1, <3>2
  <2>3. Head(queue') = queue'[1]
    <3>1. queue' # << >>
      BY <1>1, <1>2, <2>1, EmptySeq
    <3> QED BY <1>1, <3>1, HeadTailProperties
  <2>4. CASE i = 1
    BY <1>1, <1>5, <2>2, <2>3, <2>4
  <2>5. CASE i # 1
    <3>1. i > 1 /\ Len(queue) >= 1 /\ queue # << >>
      BY <1>2, <2>5, EmptySeq
    <3>2. Head(queue) = queue[1] /\ queue[1] \in Queued /\ queue[1] \in Threads
      BY <3>1, HeadQueued
    <3>3. queue[1] # t
      BY <3>2
    <3>4. i <= Len(queue) => queue[1] # queue[i]
      <4>1. \A k, l \in 1 .. Len(queue) : queue[k] = queue[l] => k = l
        BY <1>2, ToSetOfSeq DEF QueueInv
      <4>2. 1 \in 1 .. Len(queue) /\ (i <= Len(queue) => i \in 1 .. Len(queue))
        BY <1>2, <3>1
      <4> QED BY <2>5, <4>1, <4>2
    <3>5. value'[queue[1]] = value[queue[1]]
      BY <1>1, <3>2, <3>3, <3>4
    <3> QED BY <1>5, <2>2, <2>3, <2>5, <3>1, <3>2, <3>5
  <2> QED BY <2>4, <2>5
<1> QED BY <1>4, <1>5

(* Taking the first node out. *)
LEMMA FirstRemoved ==
  ASSUME NEW q \in Seq(Threads), IsInjective(q), q # << >>
  PROVE  /\ RemoveFirst(q, q[1]) \in Seq(Threads) /\ Len(RemoveFirst(q, q[1])) = Len(q) - 1
         /\ \A i \in 1 .. Len(q) - 1 : RemoveFirst(q, q[1])[i] = q[i + 1]
<1>1. Len(q) \in Nat /\ Len(q) >= 1
  BY EmptySeq, LenProperties
<1>2. q[1] \in ToSet(q)
  BY <1>1, ToSetOfSeq
<1>3. PICK at \in 1 .. Len(q) : q[at] = q[1] /\ RemoveFirst(q, q[1]) = RemoveAt(q, at)
  BY <1>2, RemoveFirstAt
<1>4. at = 1
  BY <1>1, <1>3, ToSetOfSeq
<1>5. /\ RemoveAt(q, 1) \in Seq(Threads) /\ Len(RemoveAt(q, 1)) = Len(q) - 1
      /\ \A i \in 1 .. Len(q) - 1 : RemoveAt(q, 1)[i] = IF i < 1 THEN q[i] ELSE q[i + 1]
  BY <1>1, RemoveAtSeq
<1>6. \A i \in 1 .. Len(q) - 1 : RemoveAt(q, 1)[i] = q[i + 1]
  BY <1>1, <1>5
<1> QED BY <1>3, <1>4, <1>5, <1>6

-----------------------------------------------------------------------------
LEMMA InitInv == Init => IInv
<1> SUFFICES ASSUME Init PROVE IInv
  OBVIOUS
<1>1. TypeOK
  <2>1. queue \in Seq(Threads) /\ ticks \in 0 .. TickWrap - 1
    BY DelayAppsAssumption DEF Init
  <2> QED BY <2>1 DEF Init, TypeOK
<1>2. Queued = {} /\ suspended = {} /\ \A t \in Threads : pc[t] = "run"
  BY DEF Init, Queued, ToSet
<1>3. QueueInv
  BY <1>2 DEF Init, QueueInv, IsInjective
<1>4. ClockInv
  BY <1>2 DEF ClockInv, ClockSleepersQueued
<1>5. CalmInv
  BY <1>2 DEF Init, CalmInv, HandlerInv
<1> QED BY <1>1, <1>3, <1>4, <1>5 DEF IInv

(* acoral_delay_thread sets the node's ticks. *)
LEMMA DelayKeeps ==
  ASSUME IInv, NEW t \in Threads, Delay(t)
  PROVE  IInv'
<1>0. TypeOK /\ QueueInv /\ ClockInv /\ CalmInv
  BY DEF IInv
<1>1. PICK d \in DelayTicks : value' = [value EXCEPT ![t] = d]
  BY DEF Delay
<1>2. /\ pc[t] = "run" /\ CanRun(t) /\ t \notin Queued /\ pc' = [pc EXCEPT ![t] = "init"]
      /\ UNCHANGED <<app, ticks, queue, suspended, handler, tmp, tmp1, loaded, mailbox>>
  BY DEF Delay
<1>3. \A u \in Threads : /\ pc'[u] = IF u = t THEN "init" ELSE pc[u]
                         /\ value'[u] = IF u = t THEN d ELSE value[u]
  BY <1>0, <1>1, <1>2 DEF TypeOK
<1>4. Queued' = Queued /\ Cpu' = Cpu /\ DelayTicks' = DelayTicks /\ Calm' = Calm /\ First' = First
  BY <1>2 DEF Queued, Cpu, DelayTicks, Calm, First
<1>5. d \in Int /\ Queued \subseteq Threads
  BY <1>0, DelayAppsAssumption, ToSetOfSeq DEF TypeOK, DelayTicks, Queued
<1>6. TypeOK'
  BY <1>0, <1>1, <1>2, <1>5 DEF TypeOK
<1>7. QueueInv'
  <2>1. t \notin suspended
    BY <1>2 DEF CanRun
  <2> QED BY <1>0, <1>2, <1>3, <1>4, <2>1 DEF QueueInv, TypeOK
<1>8. ClockInv'
  BY <1>0, <1>2, <1>3, <1>4 DEF ClockInv, ClockSleepersQueued
<1>9. CalmInv'
  <2> SUFFICES ASSUME Calm PROVE CalmInv'
    BY <1>4 DEF CalmInv
  <2>1. handler = "idle"
    BY <1>2 DEF CanRun, Calm
  <2>2. HandlerInv'
    BY <1>2, <2>1 DEF HandlerInv
  <2>3. \A u \in Queued : value'[u] = value[u] /\ pc'[u] = pc[u]
    BY <1>2, <1>3, <1>5
  <2>4. queue # << >> => value'[Head(queue)] = value[Head(queue)]
    BY <1>0, <2>3, HeadQueued
  <2> QED BY <1>0, <1>2, <1>3, <1>4, <2>2, <2>3, <2>4 DEF CalmInv
<1> QED BY <1>6, <1>7, <1>8, <1>9 DEF IInv

(* acoral_tick_queue_add. *)
LEMMA AddKeeps ==
  ASSUME IInv, NEW t \in Threads, Add(t)
  PROVE  IInv'
<1>0. TypeOK /\ QueueInv /\ ClockInv /\ CalmInv
  BY DEF IInv
<1>1. /\ pc[t] = "init" /\ CanRun(t) /\ TickQueueAdd(t) /\ pc' = [pc EXCEPT ![t] = "added"]
      /\ UNCHANGED <<app, ticks, suspended, handler, tmp, tmp1, loaded, mailbox>>
  BY DEF Add
<1>2. t \notin Queued
  BY <1>0, <1>1 DEF QueueInv
<1>3. /\ queue' \in Seq(Threads) /\ IsInjective(queue') /\ Queued' = Queued \cup {t}
      /\ value' \in [Threads -> Int]
  BY <1>0, <1>1, <1>2, TickQueueAdded
<1>4. \A u \in Threads : pc'[u] = IF u = t THEN "added" ELSE pc[u]
  BY <1>0, <1>1 DEF TypeOK
<1>5. Cpu' = Cpu /\ DelayTicks' = DelayTicks /\ Calm' = Calm
  BY <1>1 DEF Cpu, DelayTicks, Calm
<1>6. TypeOK'
  BY <1>0, <1>1, <1>3 DEF TypeOK
<1>7. QueueInv'
  <2>1. t \notin suspended
    BY <1>1 DEF CanRun
  <2> QED BY <1>0, <1>1, <1>3, <1>4, <2>1 DEF QueueInv, TypeOK
<1>8. ClockInv'
  <2>1. Cpu[t] = TickCpu => handler = "idle"
    BY <1>1 DEF CanRun
  <2> QED BY <1>0, <1>1, <1>3, <1>4, <1>5, <2>1 DEF ClockInv, ClockSleepersQueued
<1>9. CalmInv'
  <2> SUFFICES ASSUME Calm PROVE CalmInv'
    BY <1>5 DEF CalmInv
  <2>1. handler = "idle"
    BY <1>1 DEF CanRun, Calm
  <2>2. HandlerInv'
    BY <1>1, <2>1 DEF HandlerInv
  <2>3. value[t] \in DelayTicks /\ value[t] \in Nat
    BY <1>0, <1>1, DelayAppsAssumption DEF CalmInv, TypeOK, DelayTicks
  <2>4. /\ \A u \in Queued' : value'[u] >= 0
        /\ (value[t] > 0 /\ (queue # << >> => value[Head(queue)] > 0)) => value'[Head(queue')] > 0
    <3>1. value[t] >= 0 /\ \A u \in Queued : value[u] >= 0
      BY <1>0, <2>3 DEF CalmInv
    <3> QED BY <1>0, <1>1, <1>2, <3>1, DeltasKept
  <2>5. 0 \notin DelayTicks => value'[Head(queue')] > 0
    <3>1. 0 \notin DelayTicks => value[t] > 0
      BY <2>3
    <3>2. (0 \notin DelayTicks /\ queue # << >>) => value[Head(queue)] > 0
      BY <1>0, <2>1 DEF CalmInv
    <3> QED BY <2>4, <3>1, <3>2
  <2>6. ASSUME NEW u \in Queued' PROVE u \in suspended' \/ pc'[u] = "added"
    <3>1. u \in Threads
      BY <1>3, ToSetOfSeq DEF Queued
    <3> QED BY <1>0, <1>1, <1>3, <1>4, <3>1 DEF CalmInv
  <2>7. ASSUME NEW u \in Threads, pc'[u] = "init" PROVE value'[u] \in DelayTicks
    <3>1. u # t /\ pc[u] = "init" /\ u \notin Queued
      BY <1>0, <1>4, <2>7 DEF QueueInv
    <3>2. value'[u] = value[u]
      <4>1. PICK i \in 1 .. Len(queue) + 1, rest \in Int :
              \A v \in Threads : value'[v] = IF v = t THEN rest
                                             ELSE IF i <= Len(queue) /\ v = queue[i] THEN value[v] - rest
                                             ELSE value[v]
        BY <1>0, <1>1, <1>2, TickQueueAdded
      <4>2. i <= Len(queue) => queue[i] \in Queued
        <5>1. queue \in Seq(Threads) /\ Len(queue) \in Nat
          BY <1>0, LenProperties DEF TypeOK
        <5> QED BY <5>1, ToSetOfSeq DEF Queued
      <4> QED BY <3>1, <4>1, <4>2
    <3> QED BY <1>0, <3>1, <3>2 DEF CalmInv
  <2> QED BY <1>0, <1>1, <1>5, <2>2, <2>4, <2>5, <2>6, <2>7 DEF CalmInv
<1> QED BY <1>6, <1>7, <1>8, <1>9 DEF IInv

(* acoral_suspend_thread. *)
LEMMA SuspendKeeps ==
  ASSUME IInv, NEW t \in Threads, Suspend(t)
  PROVE  IInv'
<1>0. TypeOK /\ QueueInv /\ ClockInv /\ CalmInv
  BY DEF IInv
<1>1. /\ pc[t] = "added" /\ CanRun(t) /\ suspended' = suspended \cup {t}
      /\ pc' = [pc EXCEPT ![t] = "run"]
      /\ UNCHANGED <<app, ticks, queue, value, handler, tmp, tmp1, loaded, mailbox>>
  BY DEF Suspend
<1>2. \A u \in Threads : pc'[u] = IF u = t THEN "run" ELSE pc[u]
  BY <1>0, <1>1 DEF TypeOK
<1>3. Queued' = Queued /\ Cpu' = Cpu /\ DelayTicks' = DelayTicks /\ Calm' = Calm
  BY <1>1 DEF Queued, Cpu, DelayTicks, Calm
<1>4. TypeOK'
  BY <1>0, <1>1 DEF TypeOK
<1>5. QueueInv'
  BY <1>0, <1>1, <1>2, <1>3 DEF QueueInv, TypeOK
<1>6. ClockInv'
  BY <1>0, <1>1, <1>2, <1>3 DEF ClockInv, ClockSleepersQueued
<1>7. CalmInv'
  <2> SUFFICES ASSUME Calm PROVE CalmInv'
    BY <1>3 DEF CalmInv
  <2>1. handler = "idle"
    BY <1>1 DEF CanRun, Calm
  <2>2. HandlerInv'
    BY <1>1, <2>1 DEF HandlerInv
  <2>3. Queued \subseteq Threads
    BY <1>0, ToSetOfSeq DEF TypeOK, Queued
  <2> QED BY <1>0, <1>1, <1>2, <1>3, <2>2, <2>3 DEF CalmInv
<1> QED BY <1>4, <1>5, <1>6, <1>7 DEF IInv

(* acoral_kill_thread of a sleeper. *)
LEMMA KillKeeps ==
  ASSUME IInv, NEW t \in Threads, Kill(t)
  PROVE  IInv'
<1>0. TypeOK /\ QueueInv /\ ClockInv /\ CalmInv
  BY DEF IInv
<1>1. /\ t \in app.killable /\ pc[t] = "run" /\ queue' = RemoveFirst(queue, t)
      /\ suspended' = suspended \ {t} /\ pc' = [pc EXCEPT ![t] = "dead"]
      /\ UNCHANGED <<app, ticks, value, handler, tmp, tmp1, loaded, mailbox>>
  BY DEF Kill, TickQueueDel
<1>2. queue' \in Seq(Threads) /\ IsInjective(queue') /\ Queued' = Queued \ {t}
  BY <1>0, <1>1, RemoveFirstMembers DEF TypeOK, QueueInv, Queued
<1>3. \A u \in Threads : pc'[u] = IF u = t THEN "dead" ELSE pc[u]
  BY <1>0, <1>1 DEF TypeOK
<1>4. TypeOK'
  BY <1>0, <1>1, <1>2 DEF TypeOK
<1>5. QueueInv'
  BY <1>0, <1>1, <1>2, <1>3 DEF QueueInv, TypeOK
<1>6. ClockInv'
  <2>1. Cpu' = Cpu
    BY <1>1 DEF Cpu
  <2> QED BY <1>0, <1>1, <1>2, <1>3, <2>1 DEF ClockInv, ClockSleepersQueued
<1>7. CalmInv'
  BY <1>1 DEF CalmInv, Calm
<1> QED BY <1>4, <1>5, <1>6, <1>7 DEF IInv

(* The clock interrupt comes in. *)
LEMMA TickKeeps ==
  ASSUME IInv, Tick
  PROVE  IInv'
<1>0. TypeOK /\ QueueInv /\ ClockInv /\ CalmInv
  BY DEF IInv
<1>1. /\ handler = "idle" /\ ~InCritical(TickCpu) /\ ticks' = (ticks + 1) % TickWrap
      /\ UNCHANGED <<app, queue, value, suspended, pc, tmp1, mailbox>>
  BY DEF Tick
<1>2. \/ queue = << >> /\ UNCHANGED <<tmp, loaded, handler>>
      \/ /\ queue # << >> /\ tmp' = First /\ loaded' = value[First]
         /\ handler' = IF value[First] > 0 THEN "store" ELSE "scan"
  BY DEF Tick
<1>3. Queued' = Queued /\ Cpu' = Cpu /\ DelayTicks' = DelayTicks /\ Calm' = Calm /\ First' = First
  BY <1>1 DEF Queued, Cpu, DelayTicks, Calm, First
<1>4. TypeOK'
  <2>1. ticks' \in 0 .. TickWrap - 1
    BY <1>0, <1>1, DelayAppsAssumption DEF TypeOK
  <2>2. /\ tmp' \in Threads \cup {NoThread} /\ loaded' \in Int
        /\ handler' \in {"idle", "store", "scan", "ready"}
    <3>1. CASE queue = << >>
      BY <1>0, <1>2, <3>1 DEF TypeOK
    <3>2. CASE queue # << >>
      BY <1>0, <1>2, <3>2, HeadQueued DEF TypeOK
    <3> QED BY <3>1, <3>2
  <2> QED BY <1>0, <1>1, <2>1, <2>2 DEF TypeOK
<1>5. QueueInv'
  BY <1>0, <1>1, <1>3 DEF QueueInv
<1>6. ClockInv'
  BY <1>0, <1>1, <1>3 DEF ClockInv, ClockSleepersQueued, InCritical
<1>7. CalmInv'
  <2> SUFFICES ASSUME Calm PROVE CalmInv'
    BY <1>3 DEF CalmInv
  <2>1. CASE queue = << >>
    BY <1>0, <1>1, <1>2, <1>3, <2>1 DEF CalmInv, HandlerInv
  <2>2. CASE queue # << >>
    <3>1. HandlerInv'
      BY <1>0, <1>1, <1>2, <1>3, <2>2, HeadQueued DEF HandlerInv
    <3> QED BY <1>0, <1>1, <1>2, <1>3, <2>2, <3>1 DEF CalmInv
  <2> QED BY <2>1, <2>2
<1> QED BY <1>4, <1>5, <1>6, <1>7 DEF IInv

(* The decremented value is stored, in a node that may have left the queue *)
(* when the threads of another CPU were at work.                           *)
LEMMA StoreKeeps ==
  ASSUME IInv, Store
  PROVE  IInv'
<1>0. TypeOK /\ QueueInv /\ ClockInv /\ CalmInv
  BY DEF IInv
<1>1. /\ handler = "store" /\ value' = [value EXCEPT ![tmp] = loaded - 1] /\ tmp' = First
      /\ handler' = "scan"
      /\ UNCHANGED <<app, ticks, queue, suspended, pc, tmp1, loaded, mailbox>>
  BY DEF Store
<1>2. Queued' = Queued /\ Cpu' = Cpu /\ DelayTicks' = DelayTicks /\ Calm' = Calm /\ First' = First
  BY <1>1 DEF Queued, Cpu, DelayTicks, Calm, First
<1>3. TypeOK'
  <2>1. First \in Threads \cup {NoThread}
    <3>1. CASE queue = << >>
      BY <3>1 DEF First
    <3>2. CASE queue # << >>
      BY <1>0, <3>2, HeadQueued
    <3> QED BY <3>1, <3>2
  <2>2. value' \in [Threads -> Int]
    <3>1. loaded - 1 \in Int /\ value \in [Threads -> Int]
      BY <1>0 DEF TypeOK
    <3> QED BY <1>1, <3>1
  <2> QED BY <1>0, <1>1, <2>1, <2>2 DEF TypeOK
<1>4. QueueInv'
  BY <1>0, <1>1, <1>2 DEF QueueInv
<1>5. ClockInv'
  BY <1>0, <1>1, <1>2 DEF ClockInv, ClockSleepersQueued
<1>6. CalmInv'
  <2> SUFFICES ASSUME Calm PROVE CalmInv'
    BY <1>2 DEF CalmInv
  <2>1. tmp \in Queued /\ loaded > 0 /\ loaded \in Int
    BY <1>0, <1>1, HeadQueued DEF CalmInv, HandlerInv, TypeOK
  <2>2. \A u \in Threads : value'[u] = IF u = tmp THEN loaded - 1 ELSE value[u]
    BY <1>0, <1>1 DEF TypeOK
  <2>3. Queued \subseteq Threads
    BY <1>0, ToSetOfSeq DEF TypeOK, Queued
  <2>4. ASSUME NEW u \in Queued PROVE value'[u] >= 0
    BY <1>0, <2>1, <2>2, <2>3 DEF CalmInv
  <2>5. ASSUME NEW u \in Threads, pc[u] = "init" PROVE value'[u] \in DelayTicks
    BY <1>0, <2>1, <2>2, <2>5 DEF CalmInv, QueueInv
  <2>6. HandlerInv'
    BY <1>1, <1>2 DEF HandlerInv
  <2> QED BY <1>0, <1>1, <1>2, <2>4, <2>5, <2>6 DEF CalmInv
<1> QED BY <1>3, <1>4, <1>5, <1>6 DEF IInv

(* The node after the first one, and the first one once it is gone. *)
LEMMA NextOfFirst ==
  ASSUME TypeOK, QueueInv, queue # << >>, queue' = RemoveFirst(queue, queue[1])
  PROVE  NextOf(queue[1]) = First'
<1>1. queue \in Seq(Threads) /\ IsInjective(queue) /\ Len(queue) \in Nat /\ Len(queue) >= 1
  BY HeadQueued DEF TypeOK, QueueInv
<1>2. queue[1] \in Queued
  BY HeadQueued
<1>3. \A k, l \in 1 .. Len(queue) : queue[k] = queue[l] => k = l
  BY <1>1, ToSetOfSeq
<1> DEFINE i == CHOOSE i \in 1 .. Len(queue) : queue[i] = queue[1]
<1>4. 1 \in 1 .. Len(queue) /\ i \in 1 .. Len(queue) /\ queue[i] = queue[1]
  BY <1>1
<1>5. i = 1
  BY <1>3, <1>4
<1> HIDE DEF i
<1>6. NextOf(queue[1]) = IF 1 = Len(queue) THEN NoThread ELSE queue[2]
  <2>1. NextOf(queue[1]) = IF i = Len(queue) THEN NoThread ELSE queue[i + 1]
    BY <1>2 DEF NextOf, i
  <2> QED BY <1>5, <2>1
<1>7. /\ queue' \in Seq(Threads) /\ Len(queue') = Len(queue) - 1
      /\ \A k \in 1 .. Len(queue) - 1 : queue'[k] = queue[k + 1]
  BY <1>1, FirstRemoved
<1>8. CASE Len(queue) = 1
  <2>1. queue' = << >>
    BY <1>7, <1>8, EmptySeq
  <2> QED BY <1>6, <1>8, <2>1 DEF First
<1>9. CASE Len(queue) # 1
  <2>1. Len(queue') # 0 /\ 1 \in 1 .. Len(queue) - 1 /\ 1 + 1 = 2
    <3>1. PICK n \in Nat : n = Len(queue)
      BY <1>1
    <3>2. n >= 1 /\ n # 1
      BY <1>1, <1>9, <3>1
    <3>3. PICK m \in Nat : m = Len(queue')
      BY <1>7, LenProperties
    <3>4. m = n - 1
      BY <1>7, <3>1, <3>3
    <3>5. m # 0 /\ 1 \in 1 .. n - 1 /\ 1 + 1 = 2
      BY <3>2, <3>4
    <3> QED BY <3>1, <3>3, <3>5
  <2>2. queue' # << >>
    BY <2>1, EmptySeq
  <2>3. Head(queue') = queue'[1]
    BY <1>7, <2>2, HeadTailProperties
  <2>4. queue'[1] = queue[2]
    BY <1>7, <2>1
  <2> QED BY <1>6, <1>9, <2>2, <2>3, <2>4 DEF First
<1> QED BY <1>8, <1>9

(* A node without ticks left is taken out. *)
LEMMA PopKeeps ==
  ASSUME IInv, Pop
  PROVE  IInv'
<1>0. TypeOK /\ QueueInv /\ ClockInv /\ CalmInv
  BY DEF IInv
<1>1. /\ handler = "scan" /\ tmp # NoThread /\ value[tmp] <= 0 /\ tmp1' = NextOf(tmp)
      /\ queue' = RemoveFirst(queue, tmp) /\ handler' = "ready"
      /\ UNCHANGED <<app, ticks, value, suspended, pc, tmp, loaded, mailbox>>
  BY DEF Pop, TickQueueDel
<1>2. queue' \in Seq(Threads) /\ IsInjective(queue') /\ Queued' = Queued \ {tmp}
  BY <1>0, <1>1, RemoveFirstMembers DEF TypeOK, QueueInv, Queued
<1>3. Cpu' = Cpu /\ DelayTicks' = DelayTicks /\ Calm' = Calm
  BY <1>1 DEF Cpu, DelayTicks, Calm
<1>4. tmp \in Threads
  BY <1>0, <1>1 DEF TypeOK
<1>5. TypeOK'
  <2>1. NextOf(tmp) \in Threads \cup {NoThread}
    <3>1. CASE tmp \notin Queued
      BY <1>4, <3>1 DEF NextOf
    <3>2. CASE tmp \in Queued
      <4> DEFINE i == CHOOSE i \in 1 .. Len(queue) : queue[i] = tmp
      <4>1. queue \in Seq(Threads) /\ Len(queue) \in Nat /\ \A k \in 1 .. Len(queue) : queue[k] \in Threads
        BY <1>0, LenProperties, ElementOfSeq DEF TypeOK
      <4>2. \E k \in 1 .. Len(queue) : queue[k] = tmp
        BY <3>2, <4>1, ToSetOfSeq DEF Queued
      <4>3. i \in 1 .. Len(queue)
        BY <4>2
      <4>4. NextOf(tmp) = IF i = Len(queue) THEN NoThread ELSE queue[i + 1]
        BY <3>2 DEF NextOf
      <4> HIDE DEF i
      <4>5. i # Len(queue) => i + 1 \in 1 .. Len(queue)
        BY <4>1, <4>3
      <4> QED BY <4>1, <4>4, <4>5
    <3> QED BY <3>1, <3>2
  <2> QED BY <1>0, <1>1, <1>2, <2>1 DEF TypeOK
<1>6. QueueInv'
  BY <1>0, <1>1, <1>2 DEF QueueInv
<1>7. ClockInv'
  BY <1>0, <1>1, <1>2, <1>3 DEF ClockInv, ClockSleepersQueued
<1>8. CalmInv'
  <2> SUFFICES ASSUME Calm PROVE CalmInv'
    BY <1>3 DEF CalmInv
  <2>1. tmp = First /\ queue # << >>
    BY <1>0, <1>1 DEF CalmInv, HandlerInv, First
  <2>2. tmp = queue[1] /\ tmp \in Queued
    BY <1>0, <2>1, HeadQueued
  <2>3. tmp1' = First'
    BY <1>0, <1>1, <2>1, <2>2, NextOfFirst
  <2>4. tmp \in suspended
    BY <1>0, <1>1, <1>4, <2>2 DEF CalmInv, ClockInv, Calm
  <2>5. HandlerInv'
    BY <1>1, <1>2, <2>3, <2>4 DEF HandlerInv
  <2> QED BY <1>0, <1>1, <1>2, <1>3, <2>5 DEF CalmInv
<1> QED BY <1>5, <1>6, <1>7, <1>8 DEF IInv

(* Its thread is readied. *)
LEMMA ReadyKeeps ==
  ASSUME IInv, Ready
  PROVE  IInv'
<1>0. TypeOK /\ QueueInv /\ ClockInv /\ CalmInv
  BY DEF IInv
<1>1. /\ handler = "ready" /\ tmp' = tmp1 /\ handler' = "scan"
      /\ UNCHANGED <<app, ticks, queue, value, pc, tmp1, loaded>>
  BY DEF Ready
<1>2. \/ tmp \notin suspended /\ UNCHANGED <<suspended, mailbox>>
      \/ /\ tmp \in suspended /\ Cpu[tmp] = TickCpu
         /\ suspended' = suspended \ {tmp} /\ UNCHANGED mailbox
      \/ /\ tmp \in suspended /\ Cpu[tmp] # TickCpu
         /\ mailbox' = [mailbox EXCEPT ![Cpu[tmp]] = tmp] /\ UNCHANGED suspended
  BY DEF Ready
<1>3. Queued' = Queued /\ Cpu' = Cpu /\ DelayTicks' = DelayTicks /\ Calm' = Calm /\ First' = First
  BY <1>1 DEF Queued, Cpu, DelayTicks, Calm, First
<1>4. TypeOK'
  BY <1>0, <1>1, <1>2 DEF TypeOK
<1>5. QueueInv'
  BY <1>0, <1>1, <1>2, <1>3 DEF QueueInv
<1>6. ClockInv'
  BY <1>0, <1>1, <1>2, <1>3 DEF ClockInv, ClockSleepersQueued
<1>7. CalmInv'
  <2> SUFFICES ASSUME Calm PROVE CalmInv'
    BY <1>3 DEF CalmInv
  <2>1. tmp \in suspended /\ tmp \notin Queued /\ tmp1 = First
    BY <1>0, <1>1 DEF CalmInv, HandlerInv
  <2>2. suspended' = suspended \ {tmp} /\ UNCHANGED mailbox
    BY <1>0, <1>2, <2>1 DEF Calm, TypeOK
  <2>3. HandlerInv'
    BY <1>1, <1>3, <2>1 DEF HandlerInv
  <2> QED BY <1>0, <1>1, <1>3, <2>1, <2>2, <2>3 DEF CalmInv
<1> QED BY <1>4, <1>5, <1>6, <1>7 DEF IInv

(* The handler returns. *)
LEMMA ReturnKeeps ==
  ASSUME IInv, HandlerReturn
  PROVE  IInv'
<1>0. TypeOK /\ QueueInv /\ ClockInv /\ CalmInv
  BY DEF IInv
<1>1. /\ handler = "scan" /\ (tmp # NoThread => value[tmp] > 0) /\ handler' = "idle"
      /\ tmp' = NoThread /\ tmp1' = NoThread /\ loaded' = 0
      /\ UNCHANGED <<app, ticks, queue, value, suspended, pc, mailbox>>
  BY DEF HandlerReturn
<1>2. Queued' = Queued /\ Cpu' = Cpu /\ DelayTicks' = DelayTicks /\ Calm' = Calm
  BY <1>1 DEF Queued, Cpu, DelayTicks, Calm
<1>3. TypeOK'
  BY <1>0, <1>1 DEF TypeOK
<1>4. QueueInv'
  BY <1>0, <1>1, <1>2 DEF QueueInv
<1>5. ClockInv'
  BY <1>0, <1>1, <1>2 DEF ClockInv, ClockSleepersQueued
<1>6. CalmInv'
  <2> SUFFICES ASSUME Calm PROVE CalmInv'
    BY <1>2 DEF CalmInv
  <2>1. queue # << >> => value[Head(queue)] > 0
    BY <1>0, <1>1, HeadQueued DEF CalmInv, HandlerInv
  <2>2. HandlerInv'
    BY <1>1 DEF HandlerInv
  <2> QED BY <1>0, <1>1, <1>2, <2>1, <2>2 DEF CalmInv
<1> QED BY <1>3, <1>4, <1>5, <1>6 DEF IInv

(* Another CPU carries a READY command out. *)
LEMMA IpiKeeps ==
  ASSUME IInv, NEW c \in Cpus, Ipi(c)
  PROVE  IInv'
<1>0. TypeOK /\ QueueInv /\ ClockInv /\ CalmInv
  BY DEF IInv
<1>1. /\ mailbox[c] # NoThread /\ suspended' = suspended \ {mailbox[c]}
      /\ mailbox' = [mailbox EXCEPT ![c] = NoThread]
      /\ UNCHANGED <<app, ticks, queue, value, pc, handler, tmp, tmp1, loaded>>
  BY DEF Ipi
<1>2. Queued' = Queued /\ Cpu' = Cpu /\ Calm' = Calm
  BY <1>1 DEF Queued, Cpu, Calm
<1>3. TypeOK'
  BY <1>0, <1>1 DEF TypeOK
<1>4. QueueInv'
  BY <1>0, <1>1, <1>2 DEF QueueInv
<1>5. ClockInv'
  BY <1>0, <1>1, <1>2 DEF ClockInv, ClockSleepersQueued
<1>6. CalmInv'
  BY <1>0, <1>1, <1>2 DEF CalmInv
<1> QED BY <1>3, <1>4, <1>5, <1>6 DEF IInv

LEMMA StepInv == IInv /\ [Next]_vars => IInv'
<1> SUFFICES ASSUME IInv, [Next]_vars PROVE IInv'
  OBVIOUS
<1>1. ASSUME UNCHANGED vars PROVE IInv'
  BY <1>1 DEF vars, IInv, TypeOK, QueueInv, ClockInv, ClockSleepersQueued, CalmInv, HandlerInv,
     Queued, Cpu, DelayTicks, Calm, First
<1> QED BY <1>1, DelayKeeps, AddKeeps, SuspendKeeps, KillKeeps, TickKeeps, StoreKeeps, PopKeeps,
        ReadyKeeps, ReturnKeeps, IpiKeeps DEF Next, HandlerStep

LEMMA IInvHolds == Spec => []IInv
<1>1. Init => IInv
  BY InitInv
<1>2. IInv /\ [Next]_vars => IInv'
  BY StepInv
<1> QED BY <1>1, <1>2, PTL DEF Spec

(* A thread of the clock's CPU that sleeps is in the tick queue, or the    *)
(* handler has just taken it out to ready it, whatever the threads of any  *)
(* number of other CPUs do to the queue: acoral_time_delay_queue_add's     *)
(* critical section leaves no moment in which the tick could miss it.      *)
THEOREM ClockSleepersStayQueued == Spec => []ClockSleepersQueued
<1>1. IInv => ClockSleepersQueued
  BY DEF IInv, ClockInv
<1> QED BY <1>1, IInvHolds, PTL

(* acoral_tick_queue_add and time_delay_deal keep the deltas non-negative  *)
(* on one CPU, for every delay, and queue nobody twice on any.             *)
THEOREM DeltasStaySorted == Spec => []DeltasSorted
<1>1. IInv => DeltasSorted
  <2> SUFFICES ASSUME IInv PROVE DeltasSorted
    OBVIOUS
  <2>1. Cardinality(Queued) = Len(queue)
    BY QueueSize DEF IInv, TypeOK, QueueInv, Queued
  <2> QED BY <2>1 DEF IInv, CalmInv, DeltasSorted
<1> QED BY <1>1, IInvHolds, PTL

-----------------------------------------------------------------------------
(* The delta queue implements one counter per sleeper. *)

(* The recurrence over the whole queue. *)
Sums(g, q, val) == Recurs(g, Len(q), q, val)

(* The sums of a queue are known as soon as the recurrence is checked. *)
LEMMA DueAtIs ==
  ASSUME NEW q \in Seq(Threads), NEW val \in [Threads -> Int], NEW g,
         Sums(g, q, val)
  PROVE  \A j \in 0 .. Len(q) : DueAt(q, val)[j] = g[j]
<1>1. Len(q) \in Nat /\ IsSum(DueAt(q, val), Len(q), q, val)
  BY LenProperties, DueAtSum
<1> DEFINE f == DueAt(q, val)
<1> HIDE DEF f
<1>2. \A i \in 0 .. Len(q) : g[i] = f[i]
  BY <1>1, SumUnique DEF f, Sums
<1> QED BY <1>2 DEF f

(* The queue r is q with t linked in at i, and new are the values val with *)
(* rest for t and taken from the node that follows.                        *)
Linked(q, r, i, t) ==
  /\ Len(r) = Len(q) + 1
  /\ \A j \in 1 .. Len(q) + 1 : r[j] = IF j < i THEN q[j] ELSE IF j = i THEN t ELSE q[j - 1]

Adjusted(q, val, new, i, t, rest) ==
  \A u \in Threads : new[u] = IF u = t THEN rest
                              ELSE IF i <= Len(q) /\ u = q[i] THEN val[u] - rest
                              ELSE val[u]

LEMMA LinkedByInsertAt ==
  ASSUME NEW q \in Seq(Threads), NEW t \in Threads, NEW i \in 1 .. Len(q) + 1
  PROVE  Linked(q, InsertAt(q, i, t), i, t)
<1>1. /\ Len(InsertAt(q, i, t)) = Len(q) + 1
      /\ \A j \in 1 .. Len(q) + 1 :
           InsertAt(q, i, t)[j] = IF j < i THEN q[j] ELSE IF j = i THEN t ELSE q[j - 1]
  BY InsertAtSeq
<1> QED BY <1>1 DEF Linked

(* t joins q at i to be due after d ticks. *)
Joins(q, val, t, i, d, rest, r, new) ==
  /\ q \in Seq(Threads) /\ IsInjective(q) /\ val \in [Threads -> Int]
  /\ t \in Threads /\ t \notin ToSet(q)
  /\ i \in 1 .. Len(q) + 1 /\ d \in Int /\ rest \in Int /\ rest = d - DueAt(q, val)[i - 1]
  /\ r \in Seq(Threads) /\ IsInjective(r) /\ ToSet(r) = ToSet(q) \cup {t} /\ Linked(q, r, i, t)
  /\ new \in [Threads -> Int] /\ Adjusted(q, val, new, i, t, rest)

(* acoral_tick_queue_add leaves everybody's time as it was and gives the   *)
(* new node the time it asks for.                                          *)
LEMMA DueAfterAdd ==
  ASSUME NEW q, NEW val, NEW t, NEW i, NEW d, NEW rest, NEW r, NEW new,
         Joins(q, val, t, i, d, rest, r, new)
  PROVE  /\ DueAt(r, new)[i] = d
         /\ \A j \in 1 .. Len(q) : DueAt(q, val)[j] = DueAt(r, new)[IF j < i THEN j ELSE j + 1]
<1> USE DEF Joins
<1> DEFINE due == DueAt(q, val)
           g == [j \in 0 .. Len(q) + 1 |-> IF j < i THEN due[j] ELSE IF j = i THEN d ELSE due[j - 1]]
<1>1. /\ due \in [0 .. Len(q) -> Int] /\ due[0] = 0
      /\ \A j \in 1 .. Len(q) : due[j] = due[j - 1] + val[q[j]]
  BY DueAtSum DEF IsSum
<1>2. rest = d - due[i - 1]
  OBVIOUS
<1>3. /\ Len(q) \in Nat /\ \A j \in 1 .. Len(q) : q[j] \in Threads
      /\ \A j \in 1 .. Len(q) : q[j] # t
      /\ \A j, k \in 1 .. Len(q) : q[j] = q[k] => j = k
  BY LenProperties, ElementOfSeq, ToSetOfSeq
<1>4. /\ Len(r) = Len(q) + 1
      /\ \A j \in 1 .. Len(q) + 1 : r[j] = IF j < i THEN q[j] ELSE IF j = i THEN t ELSE q[j - 1]
  BY DEF Linked
<1> HIDE DEF due
<1>5. \A j \in 0 .. Len(q) + 1 : g[j] = IF j < i THEN due[j] ELSE IF j = i THEN d ELSE due[j - 1]
  OBVIOUS
<1>6. g[0] = 0
  BY <1>1, <1>3, <1>5
<1> HIDE DEF g
<1>7. ASSUME NEW j \in 1 .. Len(q) + 1 PROVE g[j] = g[j - 1] + new[r[j]]
  <2>0. j - 1 \in 0 .. Len(q) + 1 /\ j \in 0 .. Len(q) + 1 /\ i \in Nat /\ j \in Nat
    BY <1>3
  <2>1. CASE j < i
    <3>1. j \in 1 .. Len(q) /\ j - 1 < i /\ j # i
      BY <1>3, <2>0, <2>1
    <3>2. r[j] = q[j] /\ g[j] = due[j] /\ g[j - 1] = due[j - 1]
      BY <1>4, <1>5, <2>0, <2>1, <3>1
    <3>3. new[q[j]] = val[q[j]]
      <4>1. i <= Len(q) => q[j] # q[i]
        <5>1. i <= Len(q) => i \in 1 .. Len(q)
          BY <1>3
        <5> QED BY <1>3, <3>1, <5>1
      <4> QED BY <1>3, <3>1, <4>1 DEF Adjusted
    <3> QED BY <1>1, <3>1, <3>2, <3>3
  <2>2. CASE j = i
    <3>1. r[j] = t /\ g[j] = d /\ g[j - 1] = due[i - 1] /\ due[i - 1] \in Int
      <4>1. j - 1 < i /\ i - 1 \in 0 .. Len(q) /\ ~(j < i)
        BY <1>3, <2>0, <2>2
      <4> QED BY <1>1, <1>4, <1>5, <2>0, <2>2, <4>1
    <3>2. new[t] = rest
      BY DEF Adjusted
    <3> QED BY <1>2, <3>1, <3>2
  <2>3. CASE j = i + 1
    <3>1. /\ i \in 1 .. Len(q) /\ i <= Len(q) /\ ~(j < i) /\ j # i /\ ~(j - 1 < i) /\ j - 1 = i
          /\ i \in 0 .. Len(q) /\ i - 1 \in 0 .. Len(q)
      <4>1. i \in 1 .. Len(q) + 1 /\ j \in 1 .. Len(q) + 1 /\ Len(q) \in Nat
        BY <1>3
      <4> HIDE DEF Joins
      <4> QED BY <2>3, <4>1
    <3>2. r[j] = q[i] /\ g[j] = due[i] /\ g[j - 1] = d
      <4> HIDE DEF Joins
      <4>1. r[j] = q[j - 1]
        BY <1>4, <3>1
      <4>2. g[j] = due[j - 1]
        BY <1>5, <2>0, <3>1
      <4>3. g[i] = d
        BY <1>5, <2>0, <3>1
      <4> QED BY <3>1, <4>1, <4>2, <4>3
    <3>3. new[q[i]] = val[q[i]] - rest /\ val[q[i]] \in Int
      BY <1>3, <3>1 DEF Adjusted
    <3>4. due[i] = due[i - 1] + val[q[i]] /\ due[i - 1] \in Int
      BY <1>1, <3>1
    <3>5. d \in Int
      OBVIOUS
    <3> HIDE DEF Joins
    <3>6. PICK a \in Int, b \in Int : a = due[i - 1] /\ b = val[q[i]]
      BY <3>3, <3>4
    <3>7. g[j] = a + b /\ g[j - 1] = d /\ new[r[j]] = b - (d - a)
      BY <1>2, <3>2, <3>3, <3>4, <3>6
    <3>8. a + b = d + (b - (d - a))
      BY <3>5
    <3> QED BY <3>7, <3>8
  <2>4. CASE j > i + 1
    <3> HIDE DEF Joins
    <3>1. /\ j - 1 \in 1 .. Len(q) /\ ~(j < i) /\ j # i /\ ~(j - 1 < i) /\ j - 1 # i
      BY <1>3, <2>0, <2>4
    <3>2. r[j] = q[j - 1] /\ g[j] = due[j - 1] /\ g[j - 1] = due[j - 1 - 1]
      BY <1>4, <1>5, <2>0, <3>1
    <3>3. new[q[j - 1]] = val[q[j - 1]]
      <4>1. i <= Len(q) => q[j - 1] # q[i]
        <5>1. i <= Len(q) => i \in 1 .. Len(q)
          BY <1>3 DEF Joins
        <5> QED BY <1>3, <3>1, <5>1
      <4> QED BY <1>3, <3>1, <4>1 DEF Joins, Adjusted
    <3> QED BY <1>1, <3>1, <3>2, <3>3
  <2>5. j < i \/ j = i \/ j = i + 1 \/ j > i + 1
    BY <2>0
  <2> QED BY <2>1, <2>2, <2>3, <2>4, <2>5
<1>8. \A j \in 0 .. Len(q) + 1 : DueAt(r, new)[j] = g[j]
  <2>0. r \in Seq(Threads) /\ new \in [Threads -> Int]
    OBVIOUS
  <2> HIDE DEF Joins
  <2>1. Sums(g, r, new)
    BY <1>4, <1>6, <1>7 DEF Sums, Recurs
  <2>2. \A j \in 0 .. Len(r) : DueAt(r, new)[j] = g[j]
    BY <2>0, <2>1, DueAtIs
  <2> QED BY <1>4, <2>2
<1>9. i \in 0 .. Len(q) + 1 /\ g[i] = d
  BY <1>3, <1>5
<1>10. ASSUME NEW j \in 1 .. Len(q) PROVE due[j] = DueAt(r, new)[IF j < i THEN j ELSE j + 1]
  <2>1. CASE j < i
    <3>1. j \in 0 .. Len(q) + 1
      BY <1>3
    <3> QED BY <1>5, <1>8, <2>1, <3>1
  <2>2. CASE ~(j < i)
    <3>1. j + 1 \in 0 .. Len(q) + 1 /\ ~(j + 1 < i) /\ j + 1 # i /\ j + 1 - 1 = j
      BY <1>3, <2>2
    <3>2. PICK m \in 0 .. Len(q) + 1 : m = j + 1
      BY <3>1
    <3>3. DueAt(r, new)[m] = g[m] /\ ~(m < i) /\ m # i /\ m - 1 = j
      BY <1>8, <3>1, <3>2
    <3>4. g[m] = due[m - 1]
      BY <1>5, <3>3
    <3> QED BY <2>2, <3>2, <3>3, <3>4
  <2> QED BY <2>1, <2>2
<1> QED BY <1>8, <1>9, <1>10 DEF due

(* One tick off the first node is one tick off everybody. *)
LEMMA DueAfterStore ==
  ASSUME NEW q \in Seq(Threads), IsInjective(q), q # << >>, NEW val \in [Threads -> Int],
         NEW new \in [Threads -> Int],
         \A u \in Threads : new[u] = IF u = q[1] THEN val[u] - 1 ELSE val[u]
  PROVE  \A j \in 1 .. Len(q) : DueAt(q, new)[j] = DueAt(q, val)[j] - 1
<1> DEFINE due == DueAt(q, val)
           g == [j \in 0 .. Len(q) |-> IF j = 0 THEN 0 ELSE due[j] - 1]
<1>1. /\ due \in [0 .. Len(q) -> Int] /\ due[0] = 0
      /\ \A j \in 1 .. Len(q) : due[j] = due[j - 1] + val[q[j]]
  BY DueAtSum DEF IsSum
<1>2. /\ Len(q) \in Nat /\ Len(q) >= 1 /\ \A j \in 1 .. Len(q) : q[j] \in Threads
      /\ \A j, k \in 1 .. Len(q) : q[j] = q[k] => j = k
  BY LenProperties, EmptySeq, ElementOfSeq, ToSetOfSeq
<1> HIDE DEF due
<1>3. g[0] = 0 /\ \A j \in 1 .. Len(q) : g[j] = due[j] - 1
  BY <1>2
<1> HIDE DEF g
<1>4. ASSUME NEW j \in 1 .. Len(q) PROVE g[j] = g[j - 1] + new[q[j]]
  <2>1. due[j] = due[j - 1] + val[q[j]] /\ due[j - 1] \in Int /\ val[q[j]] \in Int /\ q[j] \in Threads
    <3>1. j - 1 \in 0 .. Len(q)
      BY <1>2
    <3> QED BY <1>1, <1>2, <3>1
  <2>2. CASE j = 1
    <3>1. g[j - 1] = 0 /\ due[j - 1] = 0 /\ new[q[j]] = val[q[j]] - 1
      BY <1>1, <1>3, <2>1, <2>2
    <3> QED BY <1>3, <2>1, <3>1
  <2>3. CASE j # 1
    <3>1. j - 1 \in 1 .. Len(q) /\ 1 \in 1 .. Len(q)
      BY <1>2, <2>3
    <3>2. q[j] # q[1]
      BY <1>2, <2>3, <3>1
    <3>3. g[j - 1] = due[j - 1] - 1 /\ new[q[j]] = val[q[j]]
      BY <1>3, <2>1, <3>1, <3>2
    <3> QED BY <1>3, <2>1, <3>3
  <2> QED BY <2>2, <2>3
<1>5. \A j \in 0 .. Len(q) : DueAt(q, new)[j] = g[j]
  <2>1. Sums(g, q, new)
    BY <1>3, <1>4 DEF Sums, Recurs
  <2> QED BY <2>1, DueAtIs
<1> QED BY <1>2, <1>3, <1>5 DEF due

(* Taking out a first node that is due now changes nobody's time. *)
LEMMA DueAfterPop ==
  ASSUME NEW q \in Seq(Threads), IsInjective(q), q # << >>, NEW val \in [Threads -> Int],
         val[q[1]] = 0
  PROVE  /\ DueAt(q, val)[1] = 0
         /\ \A j \in 1 .. Len(q) - 1 : DueAt(RemoveFirst(q, q[1]), val)[j] = DueAt(q, val)[j + 1]
<1> DEFINE due == DueAt(q, val)
           r == RemoveFirst(q, q[1])
           g == [j \in 0 .. Len(q) - 1 |-> due[j + 1]]
<1>1. /\ due \in [0 .. Len(q) -> Int] /\ due[0] = 0
      /\ \A j \in 1 .. Len(q) : due[j] = due[j - 1] + val[q[j]]
  BY DueAtSum DEF IsSum
<1>2. Len(q) \in Nat /\ Len(q) >= 1
  BY LenProperties, EmptySeq
<1>3. /\ r \in Seq(Threads) /\ Len(r) = Len(q) - 1
      /\ \A j \in 1 .. Len(q) - 1 : r[j] = q[j + 1]
  BY FirstRemoved
<1> HIDE DEF due, r
<1>4. due[1] = 0
  <2>1. 1 \in 1 .. Len(q) /\ 1 - 1 = 0
    BY <1>2
  <2>2. due[1] = due[0] + val[q[1]]
    BY <1>1, <2>1
  <2> QED BY <1>1, <2>2
<1>5. g[0] = 0 /\ \A j \in 0 .. Len(q) - 1 : g[j] = due[j + 1]
  BY <1>2, <1>4
<1> HIDE DEF g
<1>6. ASSUME NEW j \in 1 .. Len(q) - 1 PROVE g[j] = g[j - 1] + val[r[j]]
  <2>1. /\ j \in 0 .. Len(q) - 1 /\ j - 1 \in 0 .. Len(q) - 1 /\ j + 1 \in 1 .. Len(q)
        /\ j + 1 - 1 = j /\ j - 1 + 1 = j
    BY <1>2
  <2>2. g[j] = due[j + 1] /\ g[j - 1] = due[j] /\ r[j] = q[j + 1]
    BY <1>3, <1>5, <2>1
  <2>3. due[j + 1] = due[j] + val[q[j + 1]]
    BY <1>1, <2>1
  <2> QED BY <2>2, <2>3
<1>7. \A j \in 0 .. Len(q) - 1 : DueAt(r, val)[j] = g[j]
  <2>1. Sums(g, r, val)
    BY <1>3, <1>5, <1>6 DEF Sums, Recurs
  <2>2. r \in Seq(Threads) /\ Len(r) = Len(q) - 1
    BY <1>3
  <2>3. \A j \in 0 .. Len(r) : DueAt(r, val)[j] = g[j]
    <3>1. r \in Seq(Threads)
      BY <1>3
    <3> QED BY <2>1, <3>1, DueAtIs
  <2> QED BY <2>2, <2>3
<1>8. \A j \in 1 .. Len(q) - 1 : DueAt(r, val)[j] = due[j + 1]
  BY <1>2, <1>5, <1>7
<1> QED BY <1>4, <1>8 DEF due, r

(* Values of threads that are not queued do not matter. *)
LEMMA DueOfQueued ==
  ASSUME NEW q \in Seq(Threads), NEW val \in [Threads -> Int], NEW new \in [Threads -> Int],
         \A u \in ToSet(q) : new[u] = val[u]
  PROVE  \A j \in 0 .. Len(q) : DueAt(q, new)[j] = DueAt(q, val)[j]
<1> DEFINE due == DueAt(q, val)
<1>1. due[0] = 0 /\ \A j \in 1 .. Len(q) : due[j] = due[j - 1] + val[q[j]]
  BY DueAtSum DEF IsSum
<1>2. \A j \in 1 .. Len(q) : q[j] \in ToSet(q)
  BY ToSetOfSeq
<1> HIDE DEF due
<1>3. Sums(due, q, new)
  BY <1>1, <1>2 DEF Sums, Recurs
<1>4. \A j \in 0 .. Len(q) : DueAt(q, new)[j] = due[j]
  BY <1>3, DueAtIs
<1> QED BY <1>4 DEF due

(* Nobody's time has come while the first node has ticks left. *)
LEMMA DuePositive ==
  ASSUME NEW q \in Seq(Threads), NEW val \in [Threads -> Int],
         \A u \in ToSet(q) : val[u] >= 0, q # << >> => val[q[1]] > 0
  PROVE  \A j \in 1 .. Len(q) : DueAt(q, val)[j] > 0
<1> DEFINE due == DueAt(q, val)
           bad == {j \in 1 .. Len(q) : ~(due[j] > 0)}
<1>1. /\ due \in [0 .. Len(q) -> Int] /\ due[0] = 0
      /\ \A j \in 1 .. Len(q) : due[j] = due[j - 1] + val[q[j]]
  BY DueAtSum DEF IsSum
<1>2. /\ Len(q) \in Nat /\ \A j \in 1 .. Len(q) : q[j] \in ToSet(q) /\ q[j] \in Threads
  BY LenProperties, ElementOfSeq, ToSetOfSeq
<1> HIDE DEF due
<1> SUFFICES ASSUME bad # {} PROVE FALSE
  BY DEF due
<1>3. bad \subseteq Nat
  BY <1>2
<1> DEFINE k == Min(bad)
<1>4. k \in bad /\ \A m \in bad : k <= m
  BY <1>3, MinOfNats
<1> HIDE DEF k
<1>5. k \in 1 .. Len(q) /\ ~(due[k] > 0) /\ q # << >>
  BY <1>2, <1>4, EmptySeq
<1>6. due[k] = due[k - 1] + val[q[k]] /\ val[q[k]] \in Int /\ val[q[k]] >= 0
  BY <1>1, <1>2, <1>5
<1>7. CASE k = 1
  BY <1>1, <1>5, <1>6, <1>7
<1>8. CASE k # 1
  <2>1. k - 1 \in 1 .. Len(q) /\ ~(k <= k - 1) /\ k - 1 \in 0 .. Len(q)
    BY <1>2, <1>5, <1>8
  <2>2. due[k - 1] > 0 /\ due[k - 1] \in Int
    BY <1>1, <1>4, <2>1
  <2> QED BY <1>5, <1>6, <2>2
<1> QED BY <1>7, <1>8

-----------------------------------------------------------------------------
(* What the refinement mapping makes of a queue, its values and the set of *)
(* sleepers.                                                               *)
LeftOf(q, val, asleep) ==
  [t \in Threads |->
     IF t \notin asleep THEN NoThread
     ELSE IF t \in ToSet(q) THEN DueAt(q, val)[CHOOSE i \in 1 .. Len(q) : q[i] = t]
     ELSE 0]

Sleepers == {t \in Threads : Sleeping(t)}

LEMMA LeftOfValue ==
  ASSUME NEW q \in Seq(Threads), IsInjective(q), NEW val, NEW asleep
  PROVE  /\ LeftOf(q, val, asleep) = [t \in Threads |-> LeftOf(q, val, asleep)[t]]
         /\ \A t \in Threads : t \notin asleep => LeftOf(q, val, asleep)[t] = NoThread
         /\ \A t \in Threads : (t \in asleep /\ t \notin ToSet(q)) => LeftOf(q, val, asleep)[t] = 0
         /\ \A k \in 1 .. Len(q) : q[k] \in asleep => LeftOf(q, val, asleep)[q[k]] = DueAt(q, val)[k]
<1>1. \A k \in 1 .. Len(q) : q[k] \in Threads /\ q[k] \in ToSet(q)
  BY ElementOfSeq, ToSetOfSeq
<1>2. \A k, l \in 1 .. Len(q) : q[k] = q[l] => k = l
  BY ToSetOfSeq
<1>3. ASSUME NEW k \in 1 .. Len(q), q[k] \in asleep PROVE LeftOf(q, val, asleep)[q[k]] = DueAt(q, val)[k]
  <2> DEFINE i == CHOOSE i \in 1 .. Len(q) : q[i] = q[k]
  <2>1. i \in 1 .. Len(q) /\ q[i] = q[k]
    OBVIOUS
  <2>2. i = k
    BY <1>2, <2>1
  <2>3. LeftOf(q, val, asleep)[q[k]] = DueAt(q, val)[i]
    BY <1>1, <1>3 DEF LeftOf
  <2> QED BY <2>2, <2>3
<1> QED BY <1>3 DEF LeftOf

LEMMA LeftAfterDelay ==
  ASSUME NEW q \in Seq(Threads), IsInjective(q), NEW val \in [Threads -> Int],
         NEW new \in [Threads -> Int], \A u \in ToSet(q) : new[u] = val[u], NEW asleep
  PROVE  LeftOf(q, new, asleep) = LeftOf(q, val, asleep)
<1>1. \A j \in 0 .. Len(q) : DueAt(q, new)[j] = DueAt(q, val)[j]
  BY DueOfQueued
<1>2. ASSUME NEW t \in Threads PROVE LeftOf(q, new, asleep)[t] = LeftOf(q, val, asleep)[t]
  <2>1. CASE t \notin asleep \/ t \notin ToSet(q)
    BY <2>1, LeftOfValue
  <2>2. CASE t \in asleep /\ t \in ToSet(q)
    <3>1. PICK k \in 1 .. Len(q) : q[k] = t
      BY <2>2, ToSetOfSeq
    <3>2. /\ LeftOf(q, new, asleep)[t] = DueAt(q, new)[k]
          /\ LeftOf(q, val, asleep)[t] = DueAt(q, val)[k]
      BY <2>2, <3>1, LeftOfValue
    <3>3. k \in 0 .. Len(q)
      BY LenProperties
    <3> QED BY <1>1, <3>2, <3>3
  <2> QED BY <2>1, <2>2
<1> QED BY <1>2 DEF LeftOf

LEMMA LeftAfterAdd ==
  ASSUME NEW q, NEW val, NEW t, NEW i, NEW d, NEW rest, NEW r, NEW new,
         Joins(q, val, t, i, d, rest, r, new), NEW asleep
  PROVE  LeftOf(r, new, asleep \cup {t}) = [LeftOf(q, val, asleep) EXCEPT ![t] = d]
<1> DEFINE old == LeftOf(q, val, asleep)
           now == asleep \cup {t}
           left == LeftOf(r, new, now)
<1>0. /\ q \in Seq(Threads) /\ IsInjective(q) /\ r \in Seq(Threads) /\ IsInjective(r)
      /\ ToSet(r) = ToSet(q) \cup {t} /\ t \in Threads /\ i \in 1 .. Len(q) + 1 /\ Len(q) \in Nat
  BY LenProperties DEF Joins
<1>1. /\ DueAt(r, new)[i] = d
      /\ \A j \in 1 .. Len(q) : DueAt(q, val)[j] = DueAt(r, new)[IF j < i THEN j ELSE j + 1]
  BY DueAfterAdd
<1>2. /\ old = [u \in Threads |-> old[u]]
      /\ \A u \in Threads : u \notin asleep => old[u] = NoThread
      /\ \A u \in Threads : (u \in asleep /\ u \notin ToSet(q)) => old[u] = 0
      /\ \A k \in 1 .. Len(q) : q[k] \in asleep => old[q[k]] = DueAt(q, val)[k]
  BY <1>0, LeftOfValue
<1>3. /\ left = [u \in Threads |-> left[u]]
      /\ \A u \in Threads : u \notin now => left[u] = NoThread
      /\ \A u \in Threads : (u \in now /\ u \notin ToSet(r)) => left[u] = 0
      /\ \A k \in 1 .. Len(r) : r[k] \in now => left[r[k]] = DueAt(r, new)[k]
  <2> HIDE DEF now
  <2> QED BY <1>0, LeftOfValue
<1> HIDE DEF old, left
<1>4. /\ Len(r) = Len(q) + 1
      /\ \A j \in 1 .. Len(q) + 1 : r[j] = IF j < i THEN q[j] ELSE IF j = i THEN t ELSE q[j - 1]
  BY DEF Joins, Linked
<1>5. left[t] = d
  <2>1. i \in 1 .. Len(r)
    BY <1>0, <1>4
  <2>2. r[i] = t
    <3>1. ~(i < i)
      BY <1>0
    <3> QED BY <1>0, <1>4, <3>1
  <2> QED BY <1>0, <1>1, <1>3, <2>1, <2>2
<1>6. ASSUME NEW u \in Threads, u # t PROVE left[u] = old[u]
  <2>1. CASE u \notin asleep \/ u \notin ToSet(q)
    BY <1>0, <1>2, <1>3, <1>6, <2>1
  <2>2. CASE u \in asleep /\ u \in ToSet(q)
    <3>1. PICK k \in 1 .. Len(q) : q[k] = u
      BY <1>0, <2>2, ToSetOfSeq
    <3>2. PICK l \in 1 .. Len(r) : l = IF k < i THEN k ELSE k + 1
      <4>1. k \in 1 .. Len(q) + 1 /\ k + 1 \in 1 .. Len(q) + 1
        BY <1>0
      <4>2. 1 .. Len(r) = 1 .. Len(q) + 1
        BY <1>4
      <4> QED BY <4>1, <4>2
    <3>3. r[l] = u
      <4>1. CASE k < i
        BY <1>0, <1>4, <3>1, <3>2, <4>1
      <4>2. CASE ~(k < i)
        <5>1. l = k + 1 /\ ~(l < i) /\ l # i /\ l - 1 = k /\ l \in 1 .. Len(q) + 1
          BY <1>0, <1>4, <3>2, <4>2
        <5> QED BY <1>4, <3>1, <5>1
      <4> QED BY <4>1, <4>2
    <3>4. left[u] = DueAt(r, new)[l] /\ old[u] = DueAt(q, val)[k]
      BY <1>2, <1>3, <2>2, <3>1, <3>3
    <3> QED BY <1>1, <3>2, <3>4
  <2> QED BY <2>1, <2>2
<1>7. left = [old EXCEPT ![t] = d]
  BY <1>0, <1>2, <1>3, <1>5, <1>6
<1> QED BY <1>7 DEF old, left

(* A decrement of the first node, as the clock handler makes it. *)
Counted(q, val, new, asleep) ==
  /\ q \in Seq(Threads) /\ IsInjective(q) /\ q # << >>
  /\ val \in [Threads -> Int] /\ new \in [Threads -> Int]
  /\ \A u \in ToSet(q) : val[u] >= 0
  /\ val[q[1]] > 0
  /\ \A u \in Threads : new[u] = IF u = q[1] THEN val[u] - 1 ELSE val[u]
  /\ asleep \subseteq ToSet(q)

LEMMA LeftAfterStore ==
  ASSUME NEW q, NEW val, NEW new, NEW asleep, Counted(q, val, new, asleep)
  PROVE  /\ \A u \in Threads : LeftOf(q, val, asleep)[u] # 0
         /\ LeftOf(q, new, asleep) =
              [u \in Threads |-> IF LeftOf(q, val, asleep)[u] = NoThread THEN NoThread
                                 ELSE LeftOf(q, val, asleep)[u] - 1]
<1> DEFINE old == LeftOf(q, val, asleep)
           left == LeftOf(q, new, asleep)
<1>0. /\ q \in Seq(Threads) /\ IsInjective(q)
      /\ val \in [Threads -> Int] /\ new \in [Threads -> Int] /\ asleep \subseteq ToSet(q)
  BY DEF Counted
<1>1. \A j \in 1 .. Len(q) : DueAt(q, new)[j] = DueAt(q, val)[j] - 1
  BY DueAfterStore DEF Counted
<1>2. \A j \in 1 .. Len(q) : DueAt(q, val)[j] > 0
  BY DuePositive DEF Counted
<1>3. \A j \in 1 .. Len(q) : DueAt(q, val)[j] \in Int
  <2>1. DueAt(q, val) \in [0 .. Len(q) -> Int] /\ Len(q) \in Nat
    BY <1>0, DueAtSum, LenProperties DEF IsSum
  <2>2. \A j \in 1 .. Len(q) : j \in 0 .. Len(q)
    BY <2>1
  <2> QED BY <2>1, <2>2
<1>4. /\ left = [u \in Threads |-> left[u]]
      /\ \A u \in Threads : u \notin asleep => old[u] = NoThread /\ left[u] = NoThread
      /\ \A k \in 1 .. Len(q) : q[k] \in asleep => old[q[k]] = DueAt(q, val)[k] /\ left[q[k]] = DueAt(q, new)[k]
  BY <1>0, LeftOfValue
<1> HIDE DEF old, left
<1>5. ASSUME NEW u \in Threads
      PROVE  old[u] # 0 /\ left[u] = IF old[u] = NoThread THEN NoThread ELSE old[u] - 1
  <2>1. CASE u \notin asleep
    <3>1. NoThread # 0
      BY DelayAppsAssumption
    <3> QED BY <1>4, <2>1, <3>1
  <2>2. CASE u \in asleep
    <3>1. PICK k \in 1 .. Len(q) : q[k] = u
      BY <1>0, <2>2, ToSetOfSeq
    <3>2. old[u] = DueAt(q, val)[k] /\ left[u] = DueAt(q, val)[k] - 1
      BY <1>1, <1>4, <2>2, <3>1
    <3>3. DueAt(q, val)[k] \in Int /\ DueAt(q, val)[k] > 0
      BY <1>2, <1>3
    <3>4. old[u] # NoThread /\ old[u] # 0
      BY <3>2, <3>3, DelayAppsAssumption
    <3> QED BY <3>2, <3>4
  <2> QED BY <2>1, <2>2
<1>6. left = [u \in Threads |-> IF old[u] = NoThread THEN NoThread ELSE old[u] - 1]
  BY <1>4, <1>5
<1> QED BY <1>5, <1>6 DEF old, left

LEMMA LeftAfterPop ==
  ASSUME NEW q \in Seq(Threads), IsInjective(q), q # << >>, NEW val \in [Threads -> Int],
         val[q[1]] = 0, NEW asleep
  PROVE  LeftOf(RemoveFirst(q, q[1]), val, asleep) = LeftOf(q, val, asleep)
<1> DEFINE r == RemoveFirst(q, q[1])
           old == LeftOf(q, val, asleep)
           left == LeftOf(r, val, asleep)
<1>0. Len(q) \in Nat /\ Len(q) >= 1
  BY LenProperties, EmptySeq
<1>1. /\ r \in Seq(Threads) /\ Len(r) = Len(q) - 1 /\ \A j \in 1 .. Len(q) - 1 : r[j] = q[j + 1]
  BY FirstRemoved
<1>2. IsInjective(r) /\ ToSet(r) = ToSet(q) \ {q[1]}
  BY RemoveFirstMembers
<1>3. /\ DueAt(q, val)[1] = 0
      /\ \A j \in 1 .. Len(q) - 1 : DueAt(r, val)[j] = DueAt(q, val)[j + 1]
  BY DueAfterPop
<1> HIDE DEF r
<1>4. /\ old = [u \in Threads |-> old[u]]
      /\ \A u \in Threads : u \notin asleep => old[u] = NoThread
      /\ \A u \in Threads : (u \in asleep /\ u \notin ToSet(q)) => old[u] = 0
      /\ \A k \in 1 .. Len(q) : q[k] \in asleep => old[q[k]] = DueAt(q, val)[k]
  BY LeftOfValue
<1>5. /\ left = [u \in Threads |-> left[u]]
      /\ \A u \in Threads : u \notin asleep => left[u] = NoThread
      /\ \A u \in Threads : (u \in asleep /\ u \notin ToSet(r)) => left[u] = 0
      /\ \A k \in 1 .. Len(r) : r[k] \in asleep => left[r[k]] = DueAt(r, val)[k]
  <2>1. r \in Seq(Threads) /\ IsInjective(r)
    BY <1>1, <1>2
  <2> QED BY <2>1, LeftOfValue
<1> HIDE DEF old, left
<1>6. ASSUME NEW u \in Threads PROVE left[u] = old[u]
  <2>1. CASE u \notin asleep \/ u \notin ToSet(q)
    BY <1>2, <1>4, <1>5, <2>1
  <2>2. CASE u \in asleep /\ u \in ToSet(q)
    <3>1. PICK k \in 1 .. Len(q) : q[k] = u
      BY <2>2, ToSetOfSeq
    <3>2. CASE k = 1
      BY <1>2, <1>3, <1>4, <1>5, <2>2, <3>1, <3>2
    <3>3. CASE k # 1
      <4>1. PICK j \in 1 .. Len(q) - 1 : k = j + 1
        <5>1. k - 1 \in 1 .. Len(q) - 1 /\ k = k - 1 + 1
          BY <1>0, <3>3
        <5> QED BY <5>1
      <4>2. r[j] = u /\ j \in 1 .. Len(r)
        BY <1>1, <3>1, <4>1
      <4>3. left[u] = DueAt(r, val)[j] /\ old[u] = DueAt(q, val)[k]
        BY <1>4, <1>5, <2>2, <3>1, <4>2
      <4> QED BY <1>3, <4>1, <4>3
    <3> QED BY <3>2, <3>3
  <2> QED BY <2>1, <2>2
<1> QED BY <1>4, <1>5, <1>6 DEF old, left, r

-----------------------------------------------------------------------------
(* Every delay is of one tick at least.  (acoral_delay_ms(0) queues a node *)
(* of 0 ticks, which makes the next tick count for nobody.)                *)
PositiveDelays == \A a \in DelayApps : 0 \notin a.ticks

LEMMA LeftIs ==
  /\ Left = LeftOf(queue, value, Sleepers)
  /\ Left' = LeftOf(queue', value', Sleepers')
  BY DEF Left, LeftOf, Sleepers, Queued, Remaining

(* The clock counts modulo TickWrap. *)
LEMMA ClockValue ==
  ASSUME NEW w \in Nat \ {0}, NEW x \in 0 .. w - 1
  PROVE  /\ (x + 1) % w = IF x = w - 1 THEN 0 ELSE x + 1
         /\ (x - 1) % w = IF x = 0 THEN w - 1 ELSE x - 1
  OBVIOUS

LEMMA ClockBackAndForth ==
  ASSUME NEW w \in Nat \ {0}, NEW x \in 0 .. w - 1
  PROVE  (((x + 1) % w) - 1) % w = x /\ (((x - 1) % w) + 1) % w = x
  BY ClockValue

(* Outside of Calm nobody counts as a sleeper. *)
LEMMA NobodySleeps ==
  ASSUME ~Calm, app' = app
  PROVE  /\ \A t \in Threads : Left[t] = NoThread
         /\ Left' = Left
<1>1. ~Calm'
  BY DEF Calm, Cpu
<1> QED BY <1>1 DEF Left, Sleeping

(* A tick that is stored at once, or counted when nobody sleeps. *)
LEMMA TickSimulates ==
  ASSUME \A t \in Threads : Left[t] # 0, Now' = (Now + 1) % TickWrap,
         Left' = [t \in Threads |-> IF Left[t] = NoThread THEN NoThread ELSE Left[t] - 1]
  PROVE  [Abstract!Next]_<<Now, Left>>
  BY DEF Abstract!Next, Abstract!Tick

LEMMA OthersSimulate ==
  ASSUME IInv, ~Calm, [Next]_vars
  PROVE  [Abstract!Next]_<<Now, Left>>
<1>0. TypeOK
  BY DEF IInv
<1>1. app' = app
  BY DEF Next, vars, Delay, Add, Suspend, Kill, Tick, HandlerStep, Store, Pop, Ready, HandlerReturn, Ipi
<1>2. (\A t \in Threads : Left[t] = NoThread) /\ Left' = Left
  BY <1>1, NobodySleeps
<1>3. CASE Now' = (Now + 1) % TickWrap
  <2>1. Left' = [t \in Threads |-> IF Left[t] = NoThread THEN NoThread ELSE Left[t] - 1]
    <3>1. Left = [t \in Threads |-> Left[t]]
      BY DEF Left
    <3> QED BY <1>2, <3>1
  <2>2. \A t \in Threads : Left[t] # 0
    BY <1>2, DelayAppsAssumption
  <2> QED BY <1>3, <2>1, <2>2, TickSimulates
<1>4. CASE Now' = Now
  BY <1>2, <1>4
<1>5. ticks \in 0 .. TickWrap - 1 /\ TickWrap \in Nat \ {0}
  BY <1>0, DelayAppsAssumption DEF TypeOK
<1>6. CASE Tick
  <2>1. handler = "idle" /\ ticks' = (ticks + 1) % TickWrap /\ Now = ticks
    BY <1>6 DEF Tick, Now
  <2>2. CASE handler' = "store"
    BY <1>4, <1>5, <2>1, <2>2, ClockBackAndForth DEF Now
  <2>3. CASE handler' # "store"
    BY <1>3, <2>1, <2>3 DEF Now
  <2> QED BY <2>2, <2>3
<1>7. CASE Store
  <2>1. handler = "store" /\ handler' = "scan" /\ ticks' = ticks
    BY <1>7 DEF Store
  <2>2. Now' = (Now + 1) % TickWrap
    BY <1>5, <2>1, ClockBackAndForth DEF Now
  <2> QED BY <1>3, <2>2
<1>8. CASE ~Tick /\ ~Store
  <2>1. ticks' = ticks /\ (handler' = "store" <=> handler = "store")
    BY <1>8 DEF Next, vars, Delay, Add, Suspend, Kill, HandlerStep, Pop, Ready, HandlerReturn, Ipi
  <2> QED BY <1>4, <2>1 DEF Now
<1> QED BY <1>6, <1>7, <1>8

(* A thread goes to sleep when its node is queued. *)
LEMMA AddSimulates ==
  ASSUME PositiveDelays, IInv, Calm, NEW t \in Threads, Add(t)
  PROVE  [Abstract!Next]_<<Now, Left>>
<1>0. TypeOK /\ QueueInv /\ ClockInv /\ CalmInv
  BY DEF IInv
<1>1. /\ pc[t] = "init" /\ CanRun(t) /\ TickQueueAdd(t) /\ pc' = [pc EXCEPT ![t] = "added"]
      /\ UNCHANGED <<app, ticks, suspended, handler, tmp, tmp1, loaded, mailbox>>
  BY DEF Add
<1>2. t \notin Queued
  BY <1>0, <1>1 DEF QueueInv
<1>3. PICK i \in 1 .. Len(queue) + 1, rest \in Int :
        /\ rest = value[t] - DueAt(queue, value)[i - 1]
        /\ queue' = InsertAt(queue, i, t) /\ queue' \in Seq(Threads) /\ IsInjective(queue')
        /\ Queued' = Queued \cup {t}
        /\ value' \in [Threads -> Int]
        /\ \A u \in Threads : value'[u] = IF u = t THEN rest
                                          ELSE IF i <= Len(queue) /\ u = queue[i] THEN value[u] - rest
                                          ELSE value[u]
  BY <1>0, <1>1, <1>2, TickQueueAdded
<1>4. queue \in Seq(Threads) /\ IsInjective(queue) /\ value \in [Threads -> Int] /\ value[t] \in Int
  BY <1>0 DEF TypeOK, QueueInv
<1>5. Linked(queue, queue', i, t)
  BY <1>3, <1>4, LinkedByInsertAt
<1>6. Adjusted(queue, value, value', i, t, rest)
  BY <1>3 DEF Adjusted
<1>7. Joins(queue, value, t, i, value[t], rest, queue', value')
  BY <1>2, <1>3, <1>4, <1>5, <1>6 DEF Joins, Queued
<1>8. Sleepers' = Sleepers \cup {t} /\ t \notin Sleepers
  <2>1. Calm' = Calm /\ \A u \in Threads : pc'[u] = IF u = t THEN "added" ELSE pc[u]
    BY <1>0, <1>1 DEF Calm, Cpu, TypeOK
  <2> QED BY <1>1, <2>1 DEF Sleepers, Sleeping, CanRun
<1>9. Left' = [Left EXCEPT ![t] = value[t]]
  BY <1>7, <1>8, LeftIs, LeftAfterAdd
<1>10. Left[t] = NoThread
  BY <1>4, <1>8, LeftIs, LeftOfValue
<1>11. value[t] \in UNION {a.ticks : a \in DelayApps}
  BY <1>0, <1>1 DEF CalmInv, TypeOK, DelayTicks
<1>12. Now' = Now
  BY <1>1 DEF Now
<1> QED BY <1>9, <1>10, <1>11, <1>12 DEF Abstract!Next, Abstract!Sleep

(* The stored decrement is the abstract tick. *)
LEMMA StoreSimulates ==
  ASSUME IInv, Calm, Store
  PROVE  [Abstract!Next]_<<Now, Left>>
<1>0. TypeOK /\ QueueInv /\ ClockInv /\ CalmInv
  BY DEF IInv
<1>1. /\ handler = "store" /\ value' = [value EXCEPT ![tmp] = loaded - 1] /\ handler' = "scan"
      /\ UNCHANGED <<app, ticks, queue, suspended, pc>>
  BY DEF Store
<1>2. queue # << >> /\ tmp = queue[1] /\ loaded = value[tmp] /\ loaded > 0 /\ tmp \in Threads
  BY <1>0, <1>1, HeadQueued DEF CalmInv, HandlerInv
<1>3. /\ queue \in Seq(Threads) /\ IsInjective(queue) /\ value \in [Threads -> Int]
      /\ \A u \in ToSet(queue) : value[u] >= 0
  BY <1>0 DEF TypeOK, QueueInv, CalmInv, Queued
<1>4. /\ \A u \in Threads : value'[u] = IF u = queue[1] THEN value[u] - 1 ELSE value[u]
      /\ value' \in [Threads -> Int]
  <2>1. loaded - 1 \in Int
    BY <1>0 DEF TypeOK
  <2> QED BY <1>1, <1>2, <1>3, <2>1
<1>5. Sleepers' = Sleepers /\ Sleepers \subseteq ToSet(queue)
  <2>1. Sleepers' = Sleepers
    BY <1>1 DEF Sleepers, Sleeping, Calm, Cpu
  <2>2. ASSUME NEW u \in Threads, Sleeping(u) PROVE u \in Queued
    BY <1>0, <1>1, <2>2 DEF Sleeping, ClockInv, ClockSleepersQueued, Calm, TypeOK
  <2> QED BY <2>1, <2>2 DEF Sleepers, Queued
<1>6. /\ \A u \in Threads : Left[u] # 0
      /\ Left' = [u \in Threads |-> IF Left[u] = NoThread THEN NoThread ELSE Left[u] - 1]
  <2>1. Counted(queue, value, value', Sleepers)
    BY <1>2, <1>3, <1>4, <1>5 DEF Counted
  <2>2. Left = LeftOf(queue, value, Sleepers) /\ Left' = LeftOf(queue, value', Sleepers)
    BY <1>1, <1>5, LeftIs
  <2>3. /\ \A u \in Threads : LeftOf(queue, value, Sleepers)[u] # 0
        /\ LeftOf(queue, value', Sleepers) =
              [u \in Threads |-> IF LeftOf(queue, value, Sleepers)[u] = NoThread THEN NoThread
                                 ELSE LeftOf(queue, value, Sleepers)[u] - 1]
    BY <2>1, LeftAfterStore
  <2> QED BY <2>2, <2>3
<1>7. Now' = (Now + 1) % TickWrap
  <2>1. ticks \in 0 .. TickWrap - 1 /\ TickWrap \in Nat \ {0}
    BY <1>0, DelayAppsAssumption DEF TypeOK
  <2> QED BY <1>1, <2>1, ClockBackAndForth DEF Now
<1> QED BY <1>6, <1>7, TickSimulates

(* Readying a sleeper whose time has come wakes it. *)
LEMMA ReadySimulates ==
  ASSUME IInv, Calm, Ready
  PROVE  [Abstract!Next]_<<Now, Left>>
<1>0. TypeOK /\ QueueInv /\ ClockInv /\ CalmInv
  BY DEF IInv
<1>1. handler = "ready" /\ handler' = "scan" /\ UNCHANGED <<app, ticks, queue, value, pc>>
  BY DEF Ready
<1>2. tmp \in suspended /\ tmp \notin Queued /\ tmp \in Threads
  BY <1>0, <1>1 DEF CalmInv, HandlerInv, TypeOK
<1>3. suspended' = suspended \ {tmp}
  BY <1>2 DEF Ready, Calm
<1>4. tmp \in Sleepers /\ Sleepers' = Sleepers \ {tmp}
  <2>1. Calm' = Calm /\ pc[tmp] # "added"
    BY <1>0, <1>1, <1>2 DEF Calm, Cpu, QueueInv
  <2> QED BY <1>1, <1>2, <1>3, <2>1 DEF Sleepers, Sleeping
<1>5. Left[tmp] = 0
  BY <1>0, <1>2, <1>4, LeftIs, LeftOfValue DEF TypeOK, QueueInv, Queued
<1>6. Left' = [Left EXCEPT ![tmp] = NoThread]
  <2>1. Left' = LeftOf(queue, value, Sleepers \ {tmp}) /\ Left = LeftOf(queue, value, Sleepers)
    BY <1>1, <1>4, LeftIs
  <2>2. Left'[tmp] = NoThread /\ Left = [u \in Threads |-> Left[u]] /\ Left' = [u \in Threads |-> Left'[u]]
    BY <1>2, <2>1 DEF LeftOf
  <2>3. ASSUME NEW u \in Threads, u # tmp PROVE Left'[u] = Left[u]
    <3>1. u \in Sleepers \ {tmp} <=> u \in Sleepers
      BY <2>3
    <3>2. LeftOf(queue, value, Sleepers \ {tmp})[u] = LeftOf(queue, value, Sleepers)[u]
      BY <3>1 DEF LeftOf
    <3> QED BY <2>1, <3>2
  <2> QED BY <1>2, <2>2, <2>3
<1>7. Now' = Now
  BY <1>1 DEF Now
<1> QED BY <1>2, <1>5, <1>6, <1>7 DEF Abstract!Next, Abstract!Wake

(* Steps a caller cannot see. *)
LEMMA QuietSimulates ==
  ASSUME PositiveDelays, IInv, Calm,
         \/ \E t \in Threads : Delay(t) \/ Suspend(t) \/ Kill(t)
         \/ Pop \/ HandlerReturn
         \/ \E c \in Cpus : Ipi(c)
  PROVE  [Abstract!Next]_<<Now, Left>>
<1>0. TypeOK /\ QueueInv /\ ClockInv /\ CalmInv
  BY DEF IInv
<1>q. queue \in Seq(Threads) /\ IsInjective(queue) /\ value \in [Threads -> Int]
  BY <1>0 DEF TypeOK, QueueInv
<1>1. ASSUME NEW t \in Threads, Delay(t) PROVE UNCHANGED <<Now, Left>>
  <2>1. /\ pc[t] = "run" /\ t \notin Queued /\ pc' = [pc EXCEPT ![t] = "init"]
        /\ UNCHANGED <<app, ticks, queue, suspended, handler>>
    BY <1>1 DEF Delay
  <2>2. PICK d \in DelayTicks : value' = [value EXCEPT ![t] = d]
    BY <1>1 DEF Delay
  <2>3. d \in Int
    BY <1>0, DelayAppsAssumption DEF TypeOK, DelayTicks
  <2>4. value' \in [Threads -> Int] /\ \A u \in ToSet(queue) : value'[u] = value[u]
    BY <1>q, <2>1, <2>2, <2>3, ToSetOfSeq DEF Queued
  <2>5. Sleepers' = Sleepers
    <3>1. \A u \in Threads : pc'[u] = IF u = t THEN "init" ELSE pc[u]
      BY <1>0, <2>1 DEF TypeOK
    <3> QED BY <2>1, <3>1 DEF Sleepers, Sleeping, Calm, Cpu
  <2>6. Left' = Left
    <3>1. LeftOf(queue, value', Sleepers) = LeftOf(queue, value, Sleepers)
      BY <1>q, <2>4, LeftAfterDelay
    <3> QED BY <2>1, <2>5, <3>1, LeftIs
  <2> QED BY <2>1, <2>6 DEF Now
<1>2. ASSUME NEW t \in Threads, Suspend(t) PROVE UNCHANGED <<Now, Left>>
  <2>1. /\ pc[t] = "added" /\ suspended' = suspended \cup {t} /\ pc' = [pc EXCEPT ![t] = "run"]
        /\ UNCHANGED <<app, ticks, queue, value, handler>>
    BY <1>2 DEF Suspend
  <2>2. Sleepers' = Sleepers
    <3>1. \A u \in Threads : pc'[u] = IF u = t THEN "run" ELSE pc[u]
      BY <1>0, <2>1 DEF TypeOK
    <3> QED BY <2>1, <3>1 DEF Sleepers, Sleeping, Calm, Cpu
  <2> QED BY <2>1, <2>2, LeftIs DEF Now
<1>3. ASSUME NEW t \in Threads, Kill(t) PROVE FALSE
  BY <1>3 DEF Kill, Calm
<1>4. ASSUME Pop PROVE UNCHANGED <<Now, Left>>
  <2>1. /\ handler = "scan" /\ tmp # NoThread /\ value[tmp] <= 0 /\ queue' = RemoveFirst(queue, tmp)
        /\ handler' = "ready" /\ UNCHANGED <<app, ticks, value, suspended, pc>>
    BY <1>4 DEF Pop, TickQueueDel
  <2>2. tmp = First /\ queue # << >>
    BY <1>0, <2>1 DEF CalmInv, HandlerInv, First
  <2>3. tmp = queue[1] /\ tmp \in Queued /\ tmp \in Threads
    BY <1>0, <2>2, HeadQueued
  <2>4. value[queue[1]] = 0
    <3>1. value[tmp] \in Int /\ value[tmp] >= 0
      BY <1>0, <1>q, <2>3 DEF CalmInv
    <3> QED BY <2>1, <2>3, <3>1
  <2>5. Sleepers' = Sleepers
    BY <2>1 DEF Sleepers, Sleeping, Calm, Cpu
  <2>6. Left' = Left
    <3>1. LeftOf(RemoveFirst(queue, queue[1]), value, Sleepers) = LeftOf(queue, value, Sleepers)
      BY <1>q, <2>2, <2>4, LeftAfterPop
    <3> QED BY <2>1, <2>3, <2>5, <3>1, LeftIs
  <2> QED BY <2>1, <2>6 DEF Now
<1>5. ASSUME HandlerReturn PROVE UNCHANGED <<Now, Left>>
  <2>1. handler = "scan" /\ handler' = "idle" /\ UNCHANGED <<app, ticks, queue, value, suspended, pc>>
    BY <1>5 DEF HandlerReturn
  <2>2. Sleepers' = Sleepers
    BY <2>1 DEF Sleepers, Sleeping, Calm, Cpu
  <2> QED BY <2>1, <2>2, LeftIs DEF Now
<1>6. ASSUME NEW c \in Cpus, Ipi(c) PROVE FALSE
  BY <1>0, <1>6 DEF Ipi, CalmInv
<1> QED BY <1>1, <1>2, <1>3, <1>4, <1>5, <1>6

(* The interrupt itself: a tick for an empty queue, else nothing yet. *)
LEMMA InterruptSimulates ==
  ASSUME PositiveDelays, IInv, Calm, Tick
  PROVE  [Abstract!Next]_<<Now, Left>>
<1>0. TypeOK /\ QueueInv /\ ClockInv /\ CalmInv
  BY DEF IInv
<1>1. /\ handler = "idle" /\ ~InCritical(TickCpu) /\ ticks' = (ticks + 1) % TickWrap
      /\ UNCHANGED <<app, queue, value, suspended, pc>>
  BY DEF Tick
<1>2. ticks \in 0 .. TickWrap - 1 /\ TickWrap \in Nat \ {0}
  BY <1>0, DelayAppsAssumption DEF TypeOK
<1>3. Sleepers' = Sleepers /\ Left' = Left
  <2>1. Sleepers' = Sleepers
    BY <1>1 DEF Sleepers, Sleeping, Calm, Cpu
  <2> QED BY <1>1, <2>1, LeftIs
<1>4. CASE queue = << >>
  <2>1. Queued = {} /\ handler' = "idle"
    BY <1>1, <1>4 DEF Queued, ToSet, Tick
  <2>2. \A u \in Threads : ~Sleeping(u)
    BY <1>0, <1>1, <2>1 DEF Sleeping, ClockInv, ClockSleepersQueued, Calm, InCritical, TypeOK
  <2>3. (\A u \in Threads : Left[u] = NoThread) /\ Left = [u \in Threads |-> Left[u]]
    BY <2>2 DEF Left
  <2>4. Now' = (Now + 1) % TickWrap
    BY <1>1, <2>1 DEF Now
  <2>5. Left' = [u \in Threads |-> IF Left[u] = NoThread THEN NoThread ELSE Left[u] - 1]
    BY <1>3, <2>3
  <2>6. \A u \in Threads : Left[u] # 0
    BY <2>3, DelayAppsAssumption
  <2> QED BY <2>4, <2>5, <2>6, TickSimulates
<1>5. CASE queue # << >>
  <2>1. value[First] > 0
    <3>1. 0 \notin DelayTicks
      BY <1>0 DEF PositiveDelays, TypeOK, DelayTicks
    <3> QED BY <1>0, <1>1, <1>5, <3>1, HeadQueued DEF CalmInv
  <2>2. handler' = "store"
    BY <1>5, <2>1 DEF Tick
  <2>3. Now' = Now
    BY <1>1, <1>2, <2>2, ClockBackAndForth DEF Now
  <2> QED BY <1>3, <2>3
<1> QED BY <1>4, <1>5

(* For every number of threads, every delay of at least one tick and every *)
(* clock: on the clock's CPU and without kills, acoral_delay_ms's delta    *)
(* queue with its handler implements one counter of ticks per sleeper, so  *)
(* that a thread sleeps for exactly the ticks it asked for.                *)
THEOREM DelaysImplemented ==
  ASSUME PositiveDelays
  PROVE  Spec => ImplementsDelays
<1>1. Init => Abstract!Init
  <2> SUFFICES ASSUME Init PROVE Abstract!Init
    OBVIOUS
  <2>1. Now = 0 /\ \A t \in Threads : ~Sleeping(t)
    BY DEF Init, Now, Sleeping
  <2> QED BY <2>1 DEF Abstract!Init, Left
<1>2. IInv /\ [Next]_vars => [Abstract!Next]_<<Now, Left>>
  <2> SUFFICES ASSUME IInv, [Next]_vars PROVE [Abstract!Next]_<<Now, Left>>
    OBVIOUS
  <2>1. CASE ~Calm
    BY <2>1, OthersSimulate
  <2>2. CASE Calm /\ UNCHANGED vars
    BY <2>2 DEF vars, Now, Left, Sleeping, Calm, Cpu, Queued, Remaining
  <2>3. CASE Calm /\ Next
    BY <2>3, AddSimulates, StoreSimulates, ReadySimulates, QuietSimulates, InterruptSimulates
       DEF Next, HandlerStep
  <2> QED BY <2>1, <2>2, <2>3
<1> QED BY <1>1, <1>2, IInvHolds, PTL DEF Spec, ImplementsDelays, Abstract!Spec
=============================================================================
