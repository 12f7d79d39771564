---------------------------- MODULE MutexProofs ----------------------------
(* Proofs about the mutex of kernel/src/ipc.c, for any number of threads   *)
(* on any number of CPUs, with any priorities and any number of calls.     *)
(* OwnerAgrees is the invariant behind mutual exclusion: a fresh pend      *)
(* tests ipc->count and a readied one tests ipc->data, so exclusion needs  *)
(* the two fields to agree with each other and with the holder.  It is     *)
(* inductive together with Shape, a part of TypeOK, and Asleep.            *)
EXTENDS Mutex, QueueProofs

(* The part of TypeOK the argument uses. *)
Shape ==
  /\ pc \in [Threads -> Places]
  /\ count \in Counts
  /\ data \in Threads \cup {NoThread}

IInv == Shape /\ OwnerAgrees

(* Only a thread inside the scheduling gap of acoral_mutex_pend, or hung   *)
(* in the wait queue, is suspended, and the latter has ipc->lock: the kill *)
(* of a suspended thread never hits the owner.                             *)
Asleep ==
  /\ \A t \in suspended : t \in Threads /\ pc[t] \in {"gap", "hung"}
  /\ \A t \in Threads : pc[t] = "hung" => lock = t

(* Steps that move no thread into or out of the holding places. *)
Bystander ==
  /\ UNCHANGED <<count, data>>
  /\ \A t \in Threads : Holds(t)' <=> Holds(t)
  /\ pc' \in [Threads -> Places]

(* acoral_mutex_init leaves the mutex available and without owner. *)
LEMMA InitEstablishes == Init => IInv
  BY ThreadsAssumption DEF Init, BaseInit, IInv, Shape, OwnerAgrees, Holds, Places, Counts

(* A step that touches neither count nor owner nor the set of holders      *)
(* keeps the invariant.                                                    *)
LEMMA BystanderKeeps == IInv /\ Bystander => IInv'
  BY DEF IInv, Shape, OwnerAgrees, Bystander, Holds

(* Moving t from one place that does not hold to another is a bystander's  *)
(* step if count and data stay.                                            *)
LEMMA GoToBystander ==
  ASSUME NEW t \in Threads, NEW place \in Places, Shape,
         pc' = [pc EXCEPT ![t] = place], UNCHANGED <<count, data>>,
         (pc[t] \in {"hold", "post"}) <=> (place \in {"hold", "post"})
  PROVE  Bystander
  BY DEF Bystander, Shape, Holds

(* Taking the mutex while it has no owner. *)
LEMMA TakingKeeps ==
  ASSUME NEW t \in Threads, IInv, data = NoThread,
         count' = "NOAVAI", data' = t, pc' = [pc EXCEPT ![t] = "hold"]
  PROVE  IInv'
<1>1. Shape'
  BY DEF IInv, Shape, Counts, Places
<1>2. \A u \in Threads : ~Holds(u)
  BY ThreadsAssumption DEF IInv, OwnerAgrees
<1>3. \A u \in Threads : Holds(u)' <=> u = t
  BY <1>2 DEF Holds, IInv, Shape
<1>4. OwnerAgrees'
  BY <1>3, ThreadsAssumption DEF OwnerAgrees
<1> QED BY <1>1, <1>4 DEF IInv

(* Releasing the mutex by its holder. *)
LEMMA ReleasingKeeps ==
  ASSUME NEW t \in Threads, NEW place \in {"rest", "ready"}, IInv, Holds(t),
         count' = "AVAI", data' = NoThread, pc' = [pc EXCEPT ![t] = place]
  PROVE  IInv'
<1>1. Shape'
  BY DEF IInv, Shape, Counts, Places
<1>2. \A u \in Threads : Holds(u) => u = t
  BY DEF IInv, OwnerAgrees
<1>3. \A u \in Threads : ~Holds(u)'
  BY <1>2 DEF Holds, IInv, Shape
<1>4. OwnerAgrees'
  BY <1>3, ThreadsAssumption DEF OwnerAgrees
<1> QED BY <1>1, <1>4 DEF IInv

(* Every step of every thread and every interrupt preserves IInv. *)
LEMMA NextKeeps == IInv /\ Asleep /\ [Next]_vars => IInv'
<1> SUFFICES ASSUME IInv, Asleep, [Next]_vars PROVE IInv'
  OBVIOUS
<1>0. Shape
  BY DEF IInv
<1>1. ASSUME NEW t \in Threads, Call(t) PROVE IInv'
  <2>1. PICK op \in {"pend", "trypend"} : GoTo(t, op)
    BY <1>1 DEF Call
  <2>2. Bystander
    BY <1>0, <1>1, <2>1, GoToBystander DEF Call, GoTo, Places
  <2> QED BY <2>2, BystanderKeeps
<1>2. ASSUME NEW t \in Threads, Take(t) PROVE IInv'
  <2>1. data = NoThread
    BY <1>2 DEF Take, IInv, OwnerAgrees
  <2> QED BY <2>1, <1>2, TakingKeeps DEF Take, GoTo
<1>3. ASSUME NEW t \in Threads, TrypendFail(t) PROVE IInv'
  <2>1. Bystander
    BY <1>0, <1>3, GoToBystander DEF TrypendFail, GoTo, Places
  <2> QED BY <2>1, BystanderKeeps
<1>4. ASSUME NEW t \in Threads, PendBlock(t) PROVE IInv'
  <2>1. Bystander
    BY <1>0, <1>4, GoToBystander DEF PendBlock, GoTo, Places
  <2> QED BY <2>1, BystanderKeeps
<1>5. ASSUME NEW t \in Threads, PendResume(t) PROVE IInv'
  <2>1. Bystander
    BY <1>0, <1>5, GoToBystander DEF PendResume, GoTo, Places
  <2> QED BY <2>1, BystanderKeeps
<1>6. ASSUME NEW t \in Threads, PendTake(t) PROVE IInv'
  BY <1>6, TakingKeeps DEF PendTake, GoTo
<1>7. ASSUME NEW t \in Threads, PendFail(t) PROVE IInv'
  <2>1. Bystander
    BY <1>0, <1>7, GoToBystander DEF PendFail, GoTo, Places
  <2> QED BY <2>1, BystanderKeeps
<1>8. ASSUME NEW t \in Threads, PostCall(t) PROVE IInv'
  <2>1. Bystander
    BY <1>0, <1>8, GoToBystander DEF PostCall, GoTo, Places
  <2> QED BY <2>1, BystanderKeeps
<1>9. ASSUME NEW t \in Threads, Post(t) PROVE IInv'
  <2>1. Holds(t)
    BY <1>9 DEF Post, Holds
  <2>2. PICK place \in {"rest", "ready"} : pc' = [pc EXCEPT ![t] = place]
    BY <1>9 DEF Post, GoTo
  <2> QED BY <1>9, <2>1, <2>2, ReleasingKeeps DEF Post
<1>10. ASSUME NEW t \in Threads, PostReady(t) PROVE IInv'
  <2>1. Bystander
    BY <1>0, <1>10, GoToBystander DEF PostReady, GoTo, Places
  <2> QED BY <2>1, BystanderKeeps
<1>11. ASSUME NEW t \in Threads, Kill(t) PROVE IInv'
  <2>1. Bystander
    BY <1>0, <1>11, GoToBystander DEF Kill, GoTo, Places, Asleep
  <2> QED BY <2>1, BystanderKeeps
<1>12. ASSUME NEW c \in Cpus, Ipi(c) PROVE IInv'
  <2>1. Bystander
    BY <1>0, <1>12 DEF Ipi, Bystander, Holds, Shape
  <2> QED BY <2>1, BystanderKeeps
<1>13. ASSUME NEW t \in Threads, PendHangs(t) PROVE IInv'
  <2>1. Bystander
    BY <1>0, <1>13, GoToBystander DEF PendHangs, GoTo, Places
  <2> QED BY <2>1, BystanderKeeps
<1>14. ASSUME NEW t \in Threads, Exit(t) PROVE IInv'
  <2>1. Bystander
    BY <1>0, <1>14, GoToBystander DEF Exit, GoTo, Places
  <2> QED BY <2>1, BystanderKeeps
<1>15. CASE UNCHANGED vars
  BY <1>15 DEF vars, baseVars, IInv, Shape, OwnerAgrees, Holds
<1> QED
  BY <1>1, <1>2, <1>3, <1>4, <1>5, <1>6, <1>7, <1>8, <1>9, <1>10, <1>11, <1>12, <1>13, <1>14, <1>15
     DEF Next, ThreadStep, Finished, Spin

(* Every step keeps the suspended threads where Asleep has them. *)
LEMMA AsleepKeeps == IInv /\ Asleep /\ [Next]_vars => Asleep'
<1> SUFFICES ASSUME IInv, Asleep, [Next]_vars PROVE Asleep'
  OBVIOUS
<1>0. pc \in [Threads -> Places]
  BY DEF IInv, Shape
<1>1. ASSUME NEW t \in Threads, NEW place, t \notin suspended, place # "hung",
             suspended' \subseteq suspended, pc' = [pc EXCEPT ![t] = place], UNCHANGED lock
      PROVE  Asleep'
  BY <1>0, <1>1 DEF Asleep
<1>2. ASSUME NEW t \in Threads, pc[t] \notin {"gap", "hung"} PROVE t \notin suspended
  BY <1>2 DEF Asleep
<1>3. ASSUME NEW t \in Threads, Call(t) PROVE Asleep'
  BY <1>1, <1>3 DEF Call, CanRun, GoTo
<1>4. ASSUME NEW t \in Threads, PendBlock(t) PROVE Asleep'
  BY <1>0, <1>4 DEF PendBlock, GoTo, Asleep
<1>5. ASSUME NEW t \in Threads, Take(t) \/ TrypendFail(t) \/ PendTake(t) \/ PendFail(t) \/ Post(t)
      PROVE  Asleep'
  <2>1. t \notin suspended /\ suspended' = suspended /\ lock' = lock
    BY <1>5, <1>2 DEF Take, TrypendFail, PendTake, PendFail, Post
  <2>2. \E place : place # "hung" /\ pc' = [pc EXCEPT ![t] = place]
    BY <1>5 DEF Take, TrypendFail, PendTake, PendFail, Post, GoTo
  <2> QED BY <1>1, <2>1, <2>2
<1>6. ASSUME NEW t \in Threads, PendResume(t) \/ PostCall(t) \/ Exit(t) PROVE Asleep'
  BY <1>1, <1>6 DEF PendResume, PostCall, Exit, CanRun, GoTo
<1>7. ASSUME NEW t \in Threads, PostReady(t) PROVE Asleep'
  <2>1. suspended' \subseteq suspended
    BY <1>7 DEF PostReady, RdyThread
  <2> QED BY <1>1, <1>7, <2>1 DEF PostReady, CanRun, GoTo
<1>8. ASSUME NEW t \in Threads, Kill(t) PROVE Asleep'
  BY <1>0, <1>8 DEF Kill, GoTo, Asleep
<1>9. ASSUME NEW c \in Cpus, Ipi(c) PROVE Asleep'
  BY <1>9 DEF Ipi, IpiHandler, Asleep
<1>10. ASSUME NEW t \in Threads, PendHangs(t) PROVE Asleep'
  <2>1. \A u \in Threads : pc[u] # "hung"
    BY <1>10, ThreadsAssumption DEF PendHangs, Asleep
  <2>2. suspended' \subseteq suspended \cup {t}
    BY <1>10 DEF PendHangs
  <2>3. lock' = t /\ pc' = [pc EXCEPT ![t] = "hung"]
    BY <1>10 DEF PendHangs, GoTo
  <2> QED BY <1>0, <2>1, <2>2, <2>3 DEF Asleep
<1>11. CASE UNCHANGED vars
  BY <1>11 DEF vars, baseVars, Asleep
<1> QED
  BY <1>3, <1>4, <1>5, <1>6, <1>7, <1>8, <1>9, <1>10, <1>11 DEF Next, ThreadStep, Finished, Spin

(* count, owner and holder agree in every reachable state, whatever the    *)
(* threads, priorities, kills and interrupts do.                           *)
THEOREM OwnerAlwaysAgrees == Spec => []OwnerAgrees
<1>1. IInv => OwnerAgrees
  BY DEF IInv
<1>2. Init => Asleep
  BY DEF Init, BaseInit, Asleep
<1> QED BY <1>1, <1>2, InitEstablishes, NextKeeps, AsleepKeeps, PTL DEF Spec

(* acoral_mutex_pend and _trypend return KR_OK to one thread at a time     *)
(* between two releases.                                                   *)
THEOREM MutexExcludes == Spec => []MutualExclusion
<1>1. OwnerAgrees => MutualExclusion
  BY DEF OwnerAgrees, MutualExclusion
<1> QED BY <1>1, OwnerAlwaysAgrees, PTL

-----------------------------------------------------------------------------
(* Who stands in the wait queue. *)
Queues(t) == pc[t] \in {"gap", "wake"} \/ t \in left

(* The wait queue: no thread is in it twice, its threads are those that    *)
(* QueueHoldsWaiters names, and a thread that a failed pend left in it     *)
(* does not wait as well.                                                  *)
QueueInv ==
  /\ IsInjective(wait_queue)
  /\ broken => wait_queue = << >>
  /\ ~broken => \A t \in Threads : /\ t \in QueuedThreads <=> Queues(t)
                                   /\ t \in left => pc[t] \notin {"gap", "wake"}

(* Linking a thread into the wait queue that is not in it. *)
LEMMA QueueAddMembers ==
  ASSUME NEW t \in Threads, wait_queue \in Seq(Threads), IsInjective(wait_queue), t \notin QueuedThreads
  PROVE  /\ QueueAdd(wait_queue, t) \in Seq(Threads) /\ IsInjective(QueueAdd(wait_queue, t))
         /\ ToSet(QueueAdd(wait_queue, t)) = QueuedThreads \cup {t}
<1> DEFINE after == {i \in 1 .. Len(wait_queue) : Prio[wait_queue[i]] > Prio[t]}
           r == InsertAt(wait_queue, IF after = {} THEN Len(wait_queue) + 1 ELSE Min(after), t)
<1>1. QueueAdd(wait_queue, t) = r
  BY DEF QueueAdd
<1>2. t \notin ToSet(wait_queue) /\ after \subseteq 1 .. Len(wait_queue)
  BY DEF QueuedThreads
<1> HIDE DEF after
<1>3. r \in Seq(Threads) /\ ToSet(r) = ToSet(wait_queue) \cup {t} /\ IsInjective(r)
  BY <1>2, InsertBeforeMembers
<1> QED BY <1>1, <1>3 DEF QueuedThreads

(* Unlinking a thread. *)
LEMMA WaitQueueDelMembers ==
  ASSUME NEW t \in Threads, wait_queue \in Seq(Threads), IsInjective(wait_queue), WaitQueueDel(t)
  PROVE  /\ wait_queue' \in Seq(Threads) /\ IsInjective(wait_queue')
         /\ QueuedThreads' = QueuedThreads \ {t}
  BY RemoveFirstMembers DEF WaitQueueDel, QueueDel, QueuedThreads

(* Broken links stay empty. *)
LEMMA EmptyMembers ==
  ASSUME NEW t \in Threads, wait_queue = << >>, WaitQueueDel(t)
  PROVE  wait_queue' = << >>
<1>1. wait_queue \in Seq(Threads) /\ ToSet(wait_queue) = {}
  BY DEF ToSet
<1> QED BY <1>1, RemoveFirstAt DEF WaitQueueDel, QueueDel

(* Leaving the queue alone: a thread that changes place stays a waiter, or *)
(* no waiter, or becomes one that its pend left behind.                    *)
LEMMA QueueLeftAlone ==
  ASSUME NEW t \in Threads, NEW place, TypeOK, QueueInv, UNCHANGED <<wait_queue, broken>>,
         pc' = [pc EXCEPT ![t] = place],
         \/ left' = left /\ (pc[t] \in {"gap", "wake"} <=> place \in {"gap", "wake"})
         \/ left' = left \cup {t} /\ pc[t] \in {"gap", "wake"} /\ place \notin {"gap", "wake"}
  PROVE  QueueInv'
<1>1. QueuedThreads' = QueuedThreads
  BY DEF QueuedThreads
<1>2. pc \in [Threads -> Places]
  BY DEF TypeOK
<1> QED BY <1>1, <1>2 DEF QueueInv, Queues

(* A waiter has left the queue. *)
LEMMA QueueLeft ==
  ASSUME NEW t \in Threads, NEW place, TypeOK, QueueInv, UNCHANGED <<left, broken>>,
         IsInjective(wait_queue'), QueuedThreads' = QueuedThreads \ {t},
         broken => wait_queue' = << >>,
         pc' = [pc EXCEPT ![t] = place], pc[t] \in {"gap", "wake"}, place \notin {"gap", "wake"}
  PROVE  QueueInv'
<1>1. pc \in [Threads -> Places]
  BY DEF TypeOK
<1>2. ~broken => \A u \in Threads : (u \in QueuedThreads' <=> Queues(u)')
                                   /\ (u \in left' => pc'[u] \notin {"gap", "wake"})
  BY <1>1 DEF QueueInv, Queues
<1> QED BY <1>2 DEF QueueInv

(* The types hold at first and the queue is empty. *)
LEMMA InitTyped == Init => TypeOK /\ QueueInv
<1> SUFFICES ASSUME Init PROVE TypeOK /\ QueueInv
  OBVIOUS
<1>0. broken \in BOOLEAN /\ left \subseteq Threads
  BY DEF Init
<1>1. TypeOK
  BY <1>0, MaxCallsAssumption DEF Init, BaseInit, TypeOK, Places, Counts
<1>2. QueuedThreads = {} /\ IsInjective(wait_queue)
  BY DEF Init, BaseInit, QueuedThreads, ToSet, IsInjective
<1> QED BY <1>1, <1>2 DEF QueueInv, Queues, Init, BaseInit

(* Every step keeps both. *)
LEMMA QueueKeeps == TypeOK /\ QueueInv /\ Asleep /\ [Next]_vars => TypeOK' /\ QueueInv'
<1> SUFFICES ASSUME TypeOK, QueueInv, Asleep, [Next]_vars PROVE TypeOK' /\ QueueInv'
  OBVIOUS
<1> USE DEF Counts
<1>0. /\ \A t \in Threads : Cpu[t] \in Cpus
      /\ HighThreads \subseteq Threads \cup {NoThread}
  <2>1. \A t \in Threads : Cpu[t] \in Cpus
    BY AppsAssumption DEF TypeOK, Cpu
  <2>2. HighThread \in Threads \cup {NoThread}
    BY HeadTailProperties DEF HighThread, TypeOK
  <2> QED BY <2>1, <2>2 DEF HighThreads
<1>1. ASSUME NEW t \in Threads, NEW place \in Places,
             UNCHANGED <<app, mailbox, calls, count, data, target>>, pc' = [pc EXCEPT ![t] = place],
             lock' \in Threads \cup {NoThread}, left' \subseteq Threads, broken' \in BOOLEAN,
             suspended' \subseteq Threads, ipc' \subseteq Threads, wait_queue' \in Seq(Threads),
             crit' \in [Cpus -> Threads \cup {NoThread}], place # "ready"
      PROVE  TypeOK'
  BY <1>1 DEF TypeOK
<1>2. ASSUME NEW t \in Threads, NEW x \in Threads \cup {NoThread}
      PROVE  [crit EXCEPT ![Cpu[t]] = x] \in [Cpus -> Threads \cup {NoThread}]
  BY <1>0 DEF TypeOK
<1>3. ASSUME NEW t \in Threads, Call(t) PROVE TypeOK' /\ QueueInv'
  <2>1. PICK op \in {"pend", "trypend"} : pc' = [pc EXCEPT ![t] = op]
    BY <1>3 DEF Call, GoTo
  <2>2. QueueInv'
    BY <1>3, <2>1, QueueLeftAlone DEF Call
  <2>3. calls' \in [Threads -> 0 .. MaxCalls]
    BY <1>3, MaxCallsAssumption DEF Call, TypeOK
  <2>4. crit' \in [Cpus -> Threads \cup {NoThread}]
    BY <1>2, <1>3 DEF Call, EnterCritical
  <2>5. TypeOK'
    BY <1>3, <2>1, <2>3, <2>4 DEF Call, TypeOK, Places
  <2> QED BY <2>2, <2>5
<1>4. ASSUME NEW t \in Threads, Take(t) PROVE TypeOK' /\ QueueInv'
  <2>1. QueueInv'
    BY <1>4, QueueLeftAlone DEF Take, GoTo
  <2>2. crit' \in [Cpus -> Threads \cup {NoThread}]
    BY <1>2, <1>4 DEF Take, ExitCritical
  <2>3. TypeOK'
    BY <1>4, <2>2 DEF Take, GoTo, TypeOK, Places
  <2> QED BY <2>1, <2>3
<1>5. ASSUME NEW t \in Threads, TrypendFail(t) \/ PendResume(t)
      PROVE  TypeOK' /\ QueueInv'
  <2>1. PICK place \in {"rest", "wake"} :
          /\ pc' = [pc EXCEPT ![t] = place]
          /\ pc[t] \in {"gap", "wake"} <=> place \in {"gap", "wake"}
    BY <1>5 DEF TrypendFail, PendResume, GoTo
  <2>2. /\ UNCHANGED <<app, suspended, mailbox, lock, wait_queue, ipc, calls, count, data, target, left, broken>>
        /\ crit' \in [Cpus -> Threads \cup {NoThread}]
    BY <1>2, <1>5 DEF TrypendFail, PendResume, EnterCritical, ExitCritical
  <2>3. QueueInv'
    BY <2>1, <2>2, QueueLeftAlone
  <2> QED BY <1>1, <2>1, <2>2, <2>3 DEF TypeOK, Places
<1>6. ASSUME NEW t \in Threads, PendFail(t) PROVE TypeOK' /\ QueueInv'
  <2>1. QueueInv'
    BY <1>6, QueueLeftAlone DEF PendFail, GoTo
  <2>2. crit' \in [Cpus -> Threads \cup {NoThread}] /\ left' \subseteq Threads
    BY <1>2, <1>6 DEF PendFail, ExitCritical, TypeOK
  <2>3. TypeOK'
    BY <1>1, <1>6, <2>2 DEF PendFail, GoTo, TypeOK, Places
  <2> QED BY <2>1, <2>3
<1>7. ASSUME NEW t \in Threads, PendBlock(t) PROVE TypeOK' /\ QueueInv'
  <2>1. pc' = [pc EXCEPT ![t] = "gap"] /\ pc \in [Threads -> Places] /\ left' = left
    BY <1>7 DEF PendBlock, GoTo, TypeOK
  <2>2. wait_queue' \in Seq(Threads) /\ QueueInv'
    <3>1. CASE broken'
      <4>1. wait_queue' = << >>
        BY <1>7, <3>1 DEF PendBlock, Links
      <4>2. IsInjective(wait_queue')
        BY <4>1 DEF IsInjective
      <4> QED BY <3>1, <4>1, <4>2 DEF QueueInv
    <3>2. CASE ~broken'
      <4>1. ~broken /\ t \notin QueuedThreads /\ wait_queue' = QueueAdd(wait_queue, t)
        BY <1>7, <3>2 DEF PendBlock, Links
      <4>2. /\ wait_queue' \in Seq(Threads) /\ IsInjective(wait_queue')
            /\ QueuedThreads' = QueuedThreads \cup {t}
        BY <4>1, QueueAddMembers DEF TypeOK, QueueInv, QueuedThreads
      <4>3. \A u \in Threads : (u \in QueuedThreads' <=> Queues(u)')
                              /\ (u \in left' => pc'[u] \notin {"gap", "wake"})
        BY <2>1, <4>1, <4>2 DEF QueueInv, Queues
      <4> QED BY <3>2, <4>2, <4>3 DEF QueueInv
    <3> QED BY <3>1, <3>2
  <2>3. crit' \in [Cpus -> Threads \cup {NoThread}]
    BY <1>2, <1>7 DEF PendBlock, ExitCritical
  <2>4. TypeOK'
    BY <1>1, <1>7, <2>1, <2>2, <2>3 DEF PendBlock, TypeOK, Places
  <2> QED BY <2>2, <2>4
<1>8. ASSUME NEW t \in Threads, PendTake(t) PROVE TypeOK' /\ QueueInv'
  <2>1. QueueInv' /\ wait_queue' \in Seq(Threads) /\ ipc' \subseteq ipc
    <3>1. /\ wait_queue' \in Seq(Threads) /\ IsInjective(wait_queue')
          /\ QueuedThreads' = QueuedThreads \ {t} /\ ipc' \subseteq ipc
      BY <1>8, WaitQueueDelMembers DEF PendTake, TypeOK, QueueInv, WaitQueueDel
    <3>2. broken => wait_queue' = << >>
      BY <1>8, EmptyMembers DEF PendTake, QueueInv, WaitQueueDel
    <3>3. /\ UNCHANGED <<left, broken>>
          /\ pc' = [pc EXCEPT ![t] = "hold"] /\ pc[t] \in {"gap", "wake"}
      BY <1>8 DEF PendTake, GoTo
    <3>4. "hold" \notin {"gap", "wake"}
      OBVIOUS
    <3>5. QueueInv'
      BY <3>1, <3>2, <3>3, <3>4, QueueLeft, Zenon
    <3> QED BY <3>1, <3>5
  <2>2. crit' \in [Cpus -> Threads \cup {NoThread}]
    BY <1>2, <1>8 DEF PendTake, ExitCritical
  <2>3. TypeOK'
    BY <1>8, <2>1, <2>2 DEF PendTake, GoTo, TypeOK, Places
  <2> QED BY <2>1, <2>3
<1>9. ASSUME NEW t \in Threads, PostCall(t) PROVE TypeOK' /\ QueueInv'
  <2>1. QueueInv'
    BY <1>9, QueueLeftAlone DEF PostCall, GoTo
  <2>2. crit' \in [Cpus -> Threads \cup {NoThread}]
    BY <1>2, <1>9 DEF PostCall, EnterCritical
  <2>3. TypeOK'
    BY <1>1, <1>9, <2>2 DEF PostCall, GoTo, TypeOK, Places
  <2> QED BY <2>1, <2>3
<1>10. ASSUME NEW t \in Threads, Post(t) PROVE TypeOK' /\ QueueInv'
  <2>1. PICK high \in HighThreads :
          /\ target' = [target EXCEPT ![t] = high]
          /\ pc' = [pc EXCEPT ![t] = IF high = NoThread THEN "rest" ELSE "ready"]
    BY <1>10 DEF Post, GoTo
  <2>2. QueueInv'
    BY <1>10, <2>1, QueueLeftAlone DEF Post
  <2>3. crit' \in [Cpus -> Threads \cup {NoThread}]
    BY <1>2, <1>10 DEF Post, ExitCritical
  <2>4. /\ target' \in [Threads -> Threads \cup {NoThread}]
        /\ \A u \in Threads : pc'[u] = "ready" => target'[u] # NoThread
    BY <1>0, <2>1 DEF TypeOK
  <2>5. TypeOK'
    BY <1>10, <2>1, <2>3, <2>4 DEF Post, TypeOK, Places
  <2> QED BY <2>2, <2>5
<1>11. ASSUME NEW t \in Threads, PostReady(t) PROVE TypeOK' /\ QueueInv'
  <2>1. QueueInv'
    BY <1>11, QueueLeftAlone DEF PostReady, GoTo
  <2>2. target[t] \in Threads
    BY <1>11 DEF PostReady, TypeOK
  <2>3. suspended' \subseteq Threads /\ mailbox' \in [Cpus -> Threads \cup {NoThread}]
    BY <1>0, <1>11, <2>2 DEF PostReady, RdyThread, TypeOK
  <2>4. /\ target' \in [Threads -> Threads \cup {NoThread}] /\ pc' = [pc EXCEPT ![t] = "rest"]
        /\ \A u \in Threads : pc'[u] = "ready" => target'[u] # NoThread
    BY <1>11 DEF PostReady, TypeOK, GoTo
  <2>5. TypeOK'
    BY <1>11, <2>3, <2>4 DEF PostReady, TypeOK, Places
  <2> QED BY <2>1, <2>5
<1>12. ASSUME NEW t \in Threads, Kill(t) PROVE TypeOK' /\ QueueInv'
  <2>1. pc[t] = "gap"
    BY <1>12, ThreadsAssumption DEF Kill, Asleep
  <2>2. QueueInv' /\ wait_queue' \in Seq(Threads) /\ ipc' \subseteq ipc
    <3>1. /\ wait_queue' \in Seq(Threads) /\ IsInjective(wait_queue')
          /\ QueuedThreads' = QueuedThreads \ {t} /\ ipc' \subseteq ipc
      BY <1>12, WaitQueueDelMembers DEF Kill, TypeOK, QueueInv, WaitQueueDel
    <3>2. broken => wait_queue' = << >>
      BY <1>12, EmptyMembers DEF Kill, QueueInv, WaitQueueDel
    <3>3. /\ UNCHANGED <<left, broken>>
          /\ pc' = [pc EXCEPT ![t] = "dead"] /\ pc[t] \in {"gap", "wake"}
      BY <1>12, <2>1 DEF Kill, GoTo
    <3>4. "dead" \notin {"gap", "wake"}
      OBVIOUS
    <3>5. QueueInv'
      BY <3>1, <3>2, <3>3, <3>4, QueueLeft, Zenon
    <3> QED BY <3>1, <3>5
  <2>3. TypeOK'
    BY <1>1, <1>12, <2>2 DEF Kill, GoTo, TypeOK, Places
  <2> QED BY <2>2, <2>3
<1>13. ASSUME NEW t \in Threads, PendHangs(t) PROVE TypeOK' /\ QueueInv'
  <2>1. pc' = [pc EXCEPT ![t] = "hung"] /\ pc \in [Threads -> Places]
    BY <1>13 DEF PendHangs, GoTo, TypeOK
  <2>2. /\ wait_queue' = wait_queue /\ left' = left /\ broken' = broken
        /\ pc[t] = "pend" \/ broken
    BY <1>13 DEF PendHangs
  <2>3. QueuedThreads' = QueuedThreads
    BY <2>2 DEF QueuedThreads
  <2>4. QueueInv'
    BY <2>1, <2>2, <2>3 DEF QueueInv, Queues
  <2>5. suspended' \subseteq Threads
    BY <1>13 DEF PendHangs, TypeOK
  <2>6. TypeOK'
    BY <1>1, <1>13, <2>1, <2>5 DEF PendHangs, TypeOK, Places
  <2> QED BY <2>4, <2>6
<1>14. ASSUME NEW t \in Threads, Exit(t) PROVE TypeOK' /\ QueueInv'
  <2>1. pc' = [pc EXCEPT ![t] = "dead"] /\ pc \in [Threads -> Places] /\ left' = left /\ pc[t] = "rest"
    BY <1>14 DEF Exit, GoTo, TypeOK
  <2>2. wait_queue' \in Seq(Threads) /\ QueueInv'
    <3>1. CASE broken'
      <4>1. wait_queue' = << >>
        BY <1>14, <3>1 DEF Exit, Links
      <4>2. IsInjective(wait_queue')
        BY <4>1 DEF IsInjective
      <4> QED BY <3>1, <4>1, <4>2 DEF QueueInv
    <3>2. CASE ~broken'
      <4>1. ~broken /\ wait_queue' = wait_queue
        BY <1>14, <3>2 DEF Exit, Links
      <4>2. broken' = broken
        BY <3>2, <4>1, <1>14 DEF TypeOK, Exit
      <4> QED BY <2>1, <4>1, <4>2, QueueLeftAlone DEF TypeOK
    <3> QED BY <3>1, <3>2
  <2>3. TypeOK'
    BY <1>1, <1>14, <2>1, <2>2 DEF Exit, TypeOK, Places
  <2> QED BY <2>2, <2>3
<1>15. ASSUME NEW c \in Cpus, Ipi(c) PROVE TypeOK' /\ QueueInv'
  <2>1. TypeOK'
    BY <1>15 DEF Ipi, IpiHandler, TypeOK
  <2> QED BY <1>15, <2>1 DEF Ipi, QueueInv, QueuedThreads, Queues
<1>16. CASE UNCHANGED vars
  BY <1>16 DEF vars, baseVars, TypeOK, QueueInv, QueuedThreads, Queues
<1> QED
  BY <1>3, <1>4, <1>5, <1>6, <1>7, <1>8, <1>9, <1>10, <1>11, <1>12, <1>13, <1>14, <1>15, <1>16
     DEF Next, ThreadStep, Finished, Spin

(* As long as the list is whole the wait queue holds every waiter once,    *)
(* beside those whose pend failed, who may run, hold the mutex or exit;    *)
(* and a post never readies NULL.                                          *)
THEOREM QueueOnlyWaiters == Spec => []QueueHoldsWaiters
<1>1. TypeOK /\ QueueInv => QueueHoldsWaiters
  BY DEF QueueInv, QueueHoldsWaiters, Queues
<1>2. Init => Asleep
  BY DEF Init, BaseInit, Asleep
<1> QED BY <1>1, <1>2, InitTyped, InitEstablishes, NextKeeps, AsleepKeeps, QueueKeeps, PTL DEF Spec
=============================================================================
