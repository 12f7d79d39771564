-------------------------- MODULE SemaphoreProofs --------------------------
(* Proofs about the semaphore of kernel/src/ipc.c, for any number of CPUs, *)
(* any priorities, kills and any number of calls of fewer than 127 threads *)
(* (ThreadCountAssumption), as long as the semaphore is used inside what   *)
(* its 8-bit test of count can represent and as long as nobody broadcasts  *)
(* to threads that wait in acoral_sem_pend.                                *)
EXTENDS Semaphore, QueueProofs, FiniteSetTheorems

NoBroadcast == \A t \in Threads : "posts" \notin Ops[t]
NoPend == \A t \in Threads : "pend" \notin Ops[t]

(* At most 129 resources lie free: "(acoral_8)ipc->count" then keeps its   *)
(* sign.  Waiters of pend, which acoral_sem_posts would ready without      *)
(* posting a resource, and callers of posts do not share a semaphore.      *)
Supported ==
  /\ SemNum + posted <= granted + 129
  /\ NoBroadcast \/ NoPend

Dead == {t \in Threads : pc[t] = "dead"}

(* A post in progress has promised its resource to the waiter it is about  *)
(* to ready, then to the thread named in a mailbox, then to a waiter that  *)
(* is awake.  The same waiter may be promised several.                     *)
Choosing == {p \in Threads : targets[p] # << >>}
Mailed == {t \in Threads : mailbox[Cpu[t]] = t}
Awake == Pending \ suspended

Promised ==
  IF NoBroadcast THEN Cardinality(Choosing) + Cardinality(Mailed) + Cardinality(Awake) ELSE 0

(* Resources granted or promised never exceed those that exist, count      *)
(* leaves them aside, and count knows of every waiter but the killed ones. *)
Counting ==
  /\ granted + Promised <= SemNum + posted
  /\ granted + Promised + 1 <= SemNum + posted + count
  /\ SemNum + posted + count <= granted + Cardinality(Pending) + Cardinality(Dead) + 1

(* Where threads can be. *)
PlacesInv ==
  /\ \A t \in suspended : pc[t] \in {"gap", "gaps"}
  /\ NoBroadcast => \A t \in Threads : pc[t] \notin {"posts", "readyall"} /\ Len(targets[t]) <= 1
  /\ NoPend => \A t \in Threads : pc[t] \notin {"pend", "gap", "wake"}
  /\ \A c \in Cpus : mailbox[c] # NoThread => Cpu[mailbox[c]] = c

(* A thread is in the wait queue once, and exactly while it waits. *)
Waiting == {"gap", "gaps", "wake", "wakes"}
QueueInv ==
  /\ IsInjective(wait_queue)
  /\ QueuedThreads = {t \in Threads : pc[t] \in Waiting}

IInv == TypeOK /\ PlacesInv /\ QueueInv /\ Counting /\ PostFindsWaiter

-----------------------------------------------------------------------------
(* Sets of threads and their sizes. *)
LEMMA Sizes ==
  ASSUME NEW A, A \subseteq Threads
  PROVE  /\ IsFiniteSet(A) /\ Cardinality(A) \in Nat
         /\ \A x : Cardinality(A \cup {x}) = IF x \in A THEN Cardinality(A) ELSE Cardinality(A) + 1
         /\ \A x : Cardinality(A \ {x}) = IF x \in A THEN Cardinality(A) - 1 ELSE Cardinality(A)
<1>1. IsFiniteSet(A)
  BY ThreadsAssumption, FS_Subset
<1>2. Cardinality(A) \in Nat
  BY <1>1, FS_CardinalityType
<1>3. ASSUME NEW x PROVE Cardinality(A \cup {x}) = IF x \in A THEN Cardinality(A) ELSE Cardinality(A) + 1
  BY <1>1, FS_AddElement
<1>4. ASSUME NEW x PROVE Cardinality(A \ {x}) = IF x \in A THEN Cardinality(A) - 1 ELSE Cardinality(A)
  BY <1>1, FS_RemoveElement
<1> QED BY <1>1, <1>2, <1>3, <1>4

(* The quantities that Counting relates are numbers. *)
LEMMA Quantities ==
  ASSUME TypeOK
  PROVE  /\ Promised \in Nat /\ SemNum \in Nat /\ granted \in Nat /\ posted \in Nat /\ count \in Int
         /\ Cardinality(Pending) \in Nat /\ Cardinality(Dead) \in Nat
         /\ Cardinality(Pending) + Cardinality(Dead) < 127
<1>1. /\ Cardinality(Choosing) \in Nat /\ Cardinality(Mailed) \in Nat /\ Cardinality(Awake) \in Nat
      /\ IsFiniteSet(Pending) /\ Cardinality(Pending) \in Nat
      /\ IsFiniteSet(Dead) /\ Cardinality(Dead) \in Nat
  <2>1. /\ Choosing \subseteq Threads /\ Mailed \subseteq Threads /\ Awake \subseteq Threads
        /\ Pending \subseteq Threads /\ Dead \subseteq Threads
    BY DEF Choosing, Mailed, Awake, Pending, Dead
  <2> QED BY <2>1, Sizes
<1>2. Promised \in Nat
  BY <1>1 DEF Promised
<1>3. SemNum \in Nat
  BY SemAppsAssumption DEF SemNum, TypeOK
<1>4. Cardinality(Pending) + Cardinality(Dead) < 127
  <2>1. Pending \cap Dead = {}
    BY DEF Pending, Dead
  <2>2. Cardinality(Pending \cup Dead) = Cardinality(Pending) + Cardinality(Dead) - 0
    BY <1>1, <2>1, FS_Union, FS_EmptySet
  <2>3. Pending \cup Dead \subseteq Threads
    BY DEF Pending, Dead
  <2>4. Cardinality(Pending \cup Dead) <= Cardinality(Threads)
    BY <2>3, ThreadsAssumption, FS_Subset
  <2>5. Cardinality(Threads) \in Nat
    BY ThreadsAssumption, FS_CardinalityType
  <2> QED BY <1>1, <2>2, <2>4, <2>5, ThreadCountAssumption
<1>5. count \in Int
  <2>1. count \in Int16
    BY DEF TypeOK
  <2> QED BY <2>1 DEF Int16
<1> QED BY <1>1, <1>2, <1>3, <1>4, <1>5 DEF TypeOK

(* count stays where the conversions to 8 and to 16 bits are harmless. *)
LEMMA CountFits ==
  ASSUME TypeOK, Counting, Supported
  PROVE  /\ count \in -128 .. 127
         /\ Available <=> count <= 0
         /\ ToInt16(count + 1) = count + 1 /\ ToInt16(count - 1) = count - 1
<1>1. count \in -128 .. 127
  <2>1. /\ granted + Promised + 1 <= SemNum + posted + count
        /\ granted + Promised <= SemNum + posted
        /\ SemNum + posted + count <= granted + Cardinality(Pending) + Cardinality(Dead) + 1
        /\ SemNum + posted <= granted + 129
    BY DEF Counting, Supported
  <2>2. count >= -128 /\ count <= 127 /\ count \in Int
    BY <2>1, Quantities
  <2> QED BY <2>2
<1>2. ToInt8(count) = count
  BY <1>1 DEF ToInt8
<1>3. ToInt16(count + 1) = count + 1 /\ ToInt16(count - 1) = count - 1
  BY <1>1 DEF ToInt16
<1> QED BY <1>1, <1>2, <1>3 DEF Available, SEM_AVAI

(* A thread goes to another place. *)
LEMMA Moves ==
  ASSUME TypeOK, NEW t \in Threads, NEW place, pc' = [pc EXCEPT ![t] = place]
  PROVE  /\ Pending' = IF place \in {"gap", "wake"} THEN Pending \cup {t} ELSE Pending \ {t}
         /\ Dead' = IF place = "dead" THEN Dead \cup {t} ELSE Dead \ {t}
         /\ {u \in Threads : pc'[u] \in Waiting} =
              IF place \in Waiting THEN {u \in Threads : pc[u] \in Waiting} \cup {t}
              ELSE {u \in Threads : pc[u] \in Waiting} \ {t}
<1>1. \A u \in Threads : pc'[u] = IF u = t THEN place ELSE pc[u]
  BY DEF TypeOK
<1>2. Pending' = IF place \in {"gap", "wake"} THEN Pending \cup {t} ELSE Pending \ {t}
  BY <1>1 DEF Pending
<1>3. Dead' = IF place = "dead" THEN Dead \cup {t} ELSE Dead \ {t}
  BY <1>1 DEF Dead
<1>4. {u \in Threads : pc'[u] \in Waiting} =
         IF place \in Waiting THEN {u \in Threads : pc[u] \in Waiting} \cup {t}
         ELSE {u \in Threads : pc[u] \in Waiting} \ {t}
  BY <1>1
<1> QED BY <1>2, <1>3, <1>4

(* The promises of before, when only an unpromised thread has moved. *)
LEMMA SamePromises ==
  ASSUME UNCHANGED <<app, targets, mailbox>>, Awake' = Awake
  PROVE  Promised' = Promised
  BY DEF Promised, NoBroadcast, Ops, Choosing, Mailed, Cpu

(* A thread that is not suspended moves without entering or leaving the    *)
(* queue.                                                                  *)
LEMMA MovesQuietly ==
  ASSUME TypeOK, PlacesInv, QueueInv, NEW t \in Threads, t \notin suspended, NEW place,
         pc' = [pc EXCEPT ![t] = place], UNCHANGED <<app, suspended, mailbox, wait_queue>>,
         NoBroadcast => \A u \in Threads : Len(targets'[u]) <= 1,
         NoBroadcast => place \notin {"posts", "readyall"},
         NoPend => place \notin {"pend", "gap", "wake"},
         pc[t] \in Waiting <=> place \in Waiting
  PROVE  PlacesInv' /\ QueueInv'
<1>0. \A u \in Threads : pc'[u] = IF u = t THEN place ELSE pc[u]
  BY DEF TypeOK
<1>1. PlacesInv'
  <2>1. \A u \in suspended' : pc'[u] \in {"gap", "gaps"}
    BY <1>0 DEF PlacesInv, TypeOK
  <2>2. NoBroadcast' => \A u \in Threads : pc'[u] \notin {"posts", "readyall"} /\ Len(targets'[u]) <= 1
    BY <1>0 DEF PlacesInv, NoBroadcast, Ops
  <2>3. NoPend' => \A u \in Threads : pc'[u] \notin {"pend", "gap", "wake"}
    BY <1>0 DEF PlacesInv, NoPend, Ops
  <2>4. \A c \in Cpus : mailbox'[c] # NoThread => Cpu'[mailbox'[c]] = c
    BY DEF PlacesInv, Cpu
  <2> QED BY <2>1, <2>2, <2>3, <2>4 DEF PlacesInv
<1>2. QueueInv'
  BY Moves DEF QueueInv, QueuedThreads
<1> QED BY <1>1, <1>2

(* A killed thread stays dead. *)
LEMMA DeadStays ==
  ASSUME TypeOK, PostFindsWaiter, NEW t \in Threads, NEW place, pc[t] # "dead",
         pc' = [pc EXCEPT ![t] = place], lostPost' => lostPost \/ Dead # {}
  PROVE  PostFindsWaiter'
<1>1. \A u \in Threads : pc[u] = "dead" => pc'[u] = "dead"
  BY DEF TypeOK
<1> QED BY <1>1 DEF PostFindsWaiter, Dead

(* Linking and unlinking a waiter. *)
LEMMA WaitQueueMembers ==
  ASSUME TypeOK, QueueInv, NEW t \in Threads, NEW place, pc' = [pc EXCEPT ![t] = place]
  PROVE  /\ (pc[t] \notin Waiting /\ place \in Waiting /\ WaitQueueAdd(t)) =>
              wait_queue' \in Seq(Threads) /\ QueueInv'
         /\ (place \notin Waiting /\ WaitQueueDel(t)) => wait_queue' \in Seq(Threads) /\ QueueInv'
<1>0. wait_queue \in Seq(Threads) /\ IsInjective(wait_queue)
  BY DEF TypeOK, QueueInv
<1>1. ASSUME pc[t] \notin Waiting, place \in Waiting, WaitQueueAdd(t)
      PROVE  wait_queue' \in Seq(Threads) /\ QueueInv'
  <2> DEFINE after == {i \in 1 .. Len(wait_queue) : Prio[wait_queue[i]] > Prio[t]}
             r == InsertAt(wait_queue, IF after = {} THEN Len(wait_queue) + 1 ELSE Min(after), t)
  <2>1. wait_queue' = r
    BY <1>1 DEF WaitQueueAdd, QueueAdd
  <2>2. t \notin ToSet(wait_queue) /\ after \subseteq 1 .. Len(wait_queue)
    BY <1>1 DEF QueueInv, QueuedThreads
  <2> HIDE DEF after
  <2>3. r \in Seq(Threads) /\ ToSet(r) = ToSet(wait_queue) \cup {t} /\ IsInjective(r)
    BY <1>0, <2>2, InsertBeforeMembers
  <2>4. {u \in Threads : pc'[u] \in Waiting} = {u \in Threads : pc[u] \in Waiting} \cup {t}
    BY <1>1, Moves
  <2> QED BY <2>1, <2>3, <2>4 DEF QueueInv, QueuedThreads
<1>2. ASSUME place \notin Waiting, WaitQueueDel(t)
      PROVE  wait_queue' \in Seq(Threads) /\ QueueInv'
  <2>1. wait_queue' = RemoveFirst(wait_queue, t)
    BY <1>2 DEF WaitQueueDel, QueueDel
  <2>2. /\ wait_queue' \in Seq(Threads) /\ IsInjective(wait_queue')
        /\ ToSet(wait_queue') = ToSet(wait_queue) \ {t}
    BY <1>0, <2>1, RemoveFirstMembers
  <2>3. {u \in Threads : pc'[u] \in Waiting} = {u \in Threads : pc[u] \in Waiting} \ {t}
    BY <1>2, Moves
  <2> QED BY <2>2, <2>3 DEF QueueInv, QueuedThreads
<1> QED BY <1>1, <1>2

(* Small numbers survive the conversion to acoral_16. *)
LEMMA SmallInt16 ==
  ASSUME NEW n \in Int, n >= -129, n <= 129
  PROVE  ToInt16(n) = n /\ n \in Int16
<1>1. ToInt16(n) = n
  BY DEF ToInt16
<1>2. n >= -32768 /\ n <= 32767
  OBVIOUS
<1> QED BY <1>1, <1>2 DEF Int16

(* The critical section's holder. *)
LEMMA CritTyped ==
  ASSUME TypeOK, NEW t \in Threads, EnterCritical(t) \/ ExitCritical(t)
  PROVE  crit' \in [Cpus -> Threads \cup {NoThread}]
<1>1. Cpu[t] \in Cpus
  BY AppsAssumption DEF TypeOK, Cpu
<1> QED BY <1>1 DEF TypeOK, EnterCritical, ExitCritical

(* The semaphore as acoral_sem_init leaves it. *)
LEMMA InitInv == Init /\ Supported => IInv
<1> SUFFICES ASSUME Init, Supported PROVE IInv
  OBVIOUS
<1>1. SemNum \in Nat /\ granted = 0 /\ posted = 0
  BY SemAppsAssumption DEF Init, BaseInit, SemNum
<1>2. SemNum <= 129
  BY <1>1 DEF Supported
<1>3. count = 1 - SemNum
  <2>1. 1 - SemNum \in Int /\ 1 - SemNum >= -129 /\ 1 - SemNum <= 129
    BY <1>1, <1>2
  <2> QED BY <2>1, SmallInt16 DEF Init
<1>4. count \in Int16
  <2>1. count \in Int /\ count >= -129 /\ count <= 129
    BY <1>1, <1>2, <1>3
  <2> QED BY <2>1, SmallInt16
<1>5. TypeOK
  <2>1. targets \in [Threads -> Seq(Threads)] /\ calls \in [Threads -> 0 .. MaxCalls]
    BY MaxCallsAssumption DEF Init, BaseInit
  <2>2. pc \in [Threads -> Places]
    BY DEF Init, BaseInit, Places, Resting
  <2>3. /\ crit \in [Cpus -> Threads \cup {NoThread}] /\ mailbox \in [Cpus -> Threads \cup {NoThread}]
        /\ app \in Apps /\ suspended \subseteq Threads /\ lock \in Threads \cup {NoThread}
        /\ ipc \subseteq Threads
    BY DEF Init, BaseInit
  <2>4. granted \in Nat /\ posted \in Nat
    BY <1>1
  <2>5. wait_queue = << >> /\ lostPost \in BOOLEAN
    BY DEF Init, BaseInit
  <2>6. wait_queue \in Seq(Threads)
    BY <2>5
  <2> QED BY <1>4, <2>1, <2>2, <2>3, <2>4, <2>5, <2>6 DEF TypeOK
<1>6. /\ Pending = {} /\ Dead = {} /\ Choosing = {} /\ Mailed = {} /\ Awake = {}
      /\ \A t \in Threads : pc[t] = "rest"
  <2>1. \A t \in Threads : pc[t] = "rest" /\ targets[t] = << >>
    BY DEF Init, BaseInit
  <2>2. \A t \in Threads : Cpu[t] \in Cpus
    BY AppsAssumption, <1>5 DEF TypeOK, Cpu
  <2>3. Mailed = {}
    BY <2>2, ThreadsAssumption DEF Init, BaseInit, Mailed
  <2> QED BY <2>1, <2>3 DEF Pending, Dead, Choosing, Awake
<1>7. PlacesInv
  <2>1. suspended = {} /\ (\A c \in Cpus : mailbox[c] = NoThread) /\ \A t \in Threads : targets[t] = << >>
    BY DEF Init, BaseInit
  <2> QED BY <1>6, <2>1 DEF PlacesInv
<1>8. QueueInv
  <2>1. wait_queue = << >>
    BY DEF Init, BaseInit
  <2>2. QueuedThreads = {} /\ IsInjective(wait_queue)
    BY <2>1 DEF QueuedThreads, ToSet, IsInjective
  <2> QED BY <1>6, <2>2 DEF QueueInv, Waiting
<1>9. Counting
  <2>1. Cardinality({}) = 0
    BY FS_EmptySet
  <2>2. Promised = 0
    BY <1>6, <2>1 DEF Promised
  <2> QED BY <1>1, <1>3, <1>6, <2>1, <2>2 DEF Counting
<1>10. PostFindsWaiter
  BY DEF Init, PostFindsWaiter
<1> QED BY <1>5, <1>7, <1>8, <1>9, <1>10 DEF IInv

(* A thread calls an operation. *)
LEMMA CallKeeps ==
  ASSUME IInv, NEW t \in Threads, Call(t)
  PROVE  IInv'
<1>0. TypeOK /\ PlacesInv /\ QueueInv /\ Counting /\ PostFindsWaiter
  BY DEF IInv
<1>1. PICK op \in Ops[t] : pc' = [pc EXCEPT ![t] = op]
  BY DEF Call, GoTo
<1>2. op \in OpNames
  BY <1>0, SemAppsAssumption DEF TypeOK, Ops
<1>3. /\ pc[t] = "rest" /\ t \notin suspended
      /\ UNCHANGED <<app, suspended, mailbox, lock, wait_queue, ipc, count, targets,
                     granted, posted, lostPost>>
  BY DEF Call, CanRun
<1>4. PlacesInv' /\ QueueInv'
  <2>1. /\ NoBroadcast => op \notin {"posts", "readyall"}
        /\ NoPend => op \notin {"pend", "gap", "wake"}
        /\ pc[t] \in Waiting <=> op \in Waiting
        /\ NoBroadcast => \A u \in Threads : Len(targets'[u]) <= 1
    BY <1>0, <1>2, <1>3 DEF NoBroadcast, NoPend, OpNames, Waiting, PlacesInv
  <2> QED BY <1>0, <1>1, <1>3, <2>1, MovesQuietly
<1>5. Pending' = Pending /\ Dead' = Dead /\ Awake' = Awake
  <2>1. op \notin {"gap", "wake", "dead"} /\ t \notin Pending /\ t \notin Dead
    BY <1>2, <1>3 DEF OpNames, Pending, Dead
  <2>2. Pending' = Pending \ {t} /\ Dead' = Dead \ {t}
    BY <1>0, <1>1, <2>1, Moves
  <2> QED BY <1>3, <2>1, <2>2 DEF Awake
<1>6. Counting'
  <2>1. Promised' = Promised /\ SemNum' = SemNum
    BY <1>3, <1>5, SamePromises DEF SemNum
  <2> QED BY <1>0, <1>3, <1>5, <2>1 DEF Counting
<1>7. PostFindsWaiter'
  BY <1>0, <1>1, <1>3, DeadStays
<1>8. calls' \in [Threads -> 0 .. MaxCalls]
  BY <1>0, MaxCallsAssumption DEF Call, TypeOK
<1>9. TypeOK'
  <2>1. crit' \in [Cpus -> Threads \cup {NoThread}]
    BY <1>0, CritTyped DEF Call
  <2>2. pc' \in [Threads -> Places]
    BY <1>0, <1>1, <1>2 DEF TypeOK, Places
  <2> QED BY <1>0, <1>3, <1>8, <2>1, <2>2 DEF TypeOK
<1> QED BY <1>4, <1>6, <1>7, <1>9 DEF IInv

(* A thread that neither waits nor dies, and is in no queue, moves on and  *)
(* touches nothing but its place and the critical section; what it may do  *)
(* to count and to the histories is said by g and p.                       *)
LEMMA RunnerKeeps ==
  ASSUME IInv, Supported, NEW t \in Threads, NEW g \in {0, 1}, NEW p \in {0, 1},
         pc[t] \in {"pend", "trypend", "pends", "post", "ready", "readyall"},
         pc' = [pc EXCEPT ![t] = "rest"],
         count' = count + g - p, granted' = granted + g, posted' = posted + p,
         lock' \in Threads \cup {NoThread}, ExitCritical(t),
         UNCHANGED <<app, suspended, mailbox, wait_queue, ipc, calls, targets>>,
         lostPost' \in BOOLEAN, lostPost' => lostPost \/ Dead # {},
         g = 1 => count <= 0
  PROVE  IInv'
<1>0. TypeOK /\ PlacesInv /\ QueueInv /\ Counting /\ PostFindsWaiter
  BY DEF IInv
<1>1. t \notin suspended
  BY <1>0 DEF PlacesInv
<1>2. PlacesInv' /\ QueueInv'
  <2>1. NoBroadcast => \A u \in Threads : Len(targets'[u]) <= 1
    BY <1>0 DEF PlacesInv
  <2> QED BY <1>0, <1>1, <2>1, MovesQuietly DEF Waiting
<1>3. Pending' = Pending /\ Dead' = Dead /\ Awake' = Awake
  <2>1. t \notin Pending /\ t \notin Dead
    BY DEF Pending, Dead
  <2>2. PICK place \in {"rest"} : pc' = [pc EXCEPT ![t] = place]
    OBVIOUS
  <2>3. Pending' = Pending \ {t} /\ Dead' = Dead \ {t}
    BY <1>0, <2>2, Moves
  <2> QED BY <2>1, <2>3 DEF Awake
<1>4. Counting'
  <2>1. Promised' = Promised /\ SemNum' = SemNum
    BY <1>3, SamePromises DEF SemNum
  <2>2. /\ granted + Promised <= SemNum + posted
        /\ granted + Promised + 1 <= SemNum + posted + count
        /\ SemNum + posted + count <= granted + Cardinality(Pending) + Cardinality(Dead) + 1
    BY <1>0 DEF Counting
  <2>3. /\ granted' + Promised <= SemNum + posted'
        /\ granted' + Promised + 1 <= SemNum + posted' + count'
        /\ SemNum + posted' + count' <= granted' + Cardinality(Pending) + Cardinality(Dead) + 1
    BY <1>0, <2>2, Quantities
  <2> QED BY <1>3, <2>1, <2>3 DEF Counting
<1>5. PostFindsWaiter'
  BY <1>0, DeadStays
<1>6. TypeOK'
  <2>1. crit' \in [Cpus -> Threads \cup {NoThread}]
    BY <1>0, CritTyped
  <2>2. pc' \in [Threads -> Places]
    BY <1>0 DEF TypeOK, Places, Resting
  <2>3. count' \in Int16
    <3>1. count \in -128 .. 127
      BY <1>0, CountFits
    <3>2. count' >= -129 /\ count' <= 129 /\ count' \in Int
      BY <3>1
    <3> QED BY <3>2, SmallInt16
  <2>4. granted' \in Nat /\ posted' \in Nat
    BY <1>0 DEF TypeOK
  <2> QED BY <1>0, <2>1, <2>2, <2>3, <2>4 DEF TypeOK
<1> QED BY <1>2, <1>4, <1>5, <1>6 DEF IInv

(* pend, trypend and pends with a resource; trypend without; post without  *)
(* a waiter; post whose waiter was killed; the end of a post.              *)
LEMMA PassersKeep ==
  ASSUME IInv, Supported, NEW t \in Threads,
         PendTake(t) \/ TrypendFail(t) \/ PostFree(t) \/ PostLost(t) \/ PostEnd(t)
  PROVE  IInv'
<1>0. /\ TypeOK /\ count \in Int /\ granted \in Nat /\ posted \in Nat
      /\ Available <=> count <= 0
      /\ ToInt16(count + 1) = count + 1 /\ ToInt16(count - 1) = count - 1
  BY CountFits, Quantities DEF IInv
<1>1. /\ pc[t] \in {"pend", "trypend", "pends", "post", "ready", "readyall"}
      /\ pc' = [pc EXCEPT ![t] = "rest"] /\ ExitCritical(t)
      /\ UNCHANGED <<app, suspended, mailbox, wait_queue, ipc, calls, targets>>
  BY DEF PendTake, TrypendFail, PostFree, PostLost, PostEnd, GoTo
<1>2. lock' \in Threads \cup {NoThread}
  BY <1>0 DEF PendTake, TrypendFail, PostFree, PostLost, PostEnd, TypeOK
<1>3. PICK g \in {0, 1}, p \in {0, 1} :
        /\ count' = count + g - p /\ granted' = granted + g /\ posted' = posted + p
        /\ g = 1 => count <= 0
  <2>1. CASE PendTake(t) /\ pc[t] # "pends"
    BY <1>0, <2>1 DEF PendTake
  <2>2. CASE PendTake(t) /\ pc[t] = "pends"
    BY <1>0, <2>2 DEF PendTake
  <2>3. CASE TrypendFail(t) \/ PostEnd(t)
    BY <1>0, <2>3 DEF TrypendFail, PostEnd
  <2>4. CASE PostFree(t) \/ PostLost(t)
    BY <1>0, <2>4 DEF PostFree, PostLost
  <2> QED BY <2>1, <2>2, <2>3, <2>4
<1>4. lostPost' \in BOOLEAN /\ (lostPost' => lostPost \/ Dead # {})
  <2>1. CASE ~PostLost(t)
    BY <1>0, <2>1 DEF PendTake, TrypendFail, PostFree, PostEnd, TypeOK
  <2>2. CASE PostLost(t)
    <3>1. QueuedThreads = {}
      <4>1. wait_queue = << >>
        BY <1>0, <2>2, ThreadsAssumption, HeadTailProperties DEF PostLost, HighThread, TypeOK
      <4> QED BY <4>1 DEF QueuedThreads, ToSet
    <3>2. Pending = {}
      BY <3>1 DEF IInv, QueueInv, Pending, Waiting
    <3>3. Cardinality(Pending) = 0
      BY <3>2, FS_EmptySet
    <3>4. count > 1
      BY <2>2 DEF PostLost, SEM_NOAVAI
    <3>5. Cardinality(Dead) # 0
      BY <1>0, <3>3, <3>4, Quantities DEF IInv, Counting
    <3>6. Dead # {}
      BY <3>5, FS_EmptySet
    <3> QED BY <2>2, <3>6 DEF PostLost
  <2> QED BY <2>1, <2>2
<1> QED BY <1>1, <1>2, <1>3, <1>4, RunnerKeeps

(* What a step leaves of Counting when nothing but the promises changes. *)
LEMMA PromisesShrink ==
  ASSUME TypeOK, Counting, Promised' \in Nat, Promised' <= Promised,
         UNCHANGED <<app, pc, count, granted, posted>>
  PROVE  Counting'
<1>1. Pending' = Pending /\ Dead' = Dead /\ SemNum' = SemNum
  BY DEF Pending, Dead, SemNum
<1> QED BY <1>1, Quantities DEF Counting

(* pend and pends suspend their thread. *)
LEMMA BlockKeeps ==
  ASSUME IInv, Supported, NEW t \in Threads, PendBlock(t)
  PROVE  IInv'
<1>0. TypeOK /\ PlacesInv /\ QueueInv /\ Counting /\ PostFindsWaiter
  BY DEF IInv
<1>1. PICK place \in {"gap", "gaps"}, d \in {0, 1} :
        /\ pc' = [pc EXCEPT ![t] = place] /\ count' = count + d
        /\ (d = 1 <=> place = "gap") /\ (place = "gap" => ~NoPend)
  <2>1. count \in Int /\ ToInt16(count + 1) = count + 1
    BY <1>0, CountFits, Quantities
  <2>2. CASE pc[t] = "pend"
    BY <1>0, <2>1, <2>2 DEF PendBlock, GoTo, PlacesInv
  <2>3. CASE pc[t] = "pends"
    BY <2>1, <2>3 DEF PendBlock, GoTo
  <2> QED BY <2>2, <2>3 DEF PendBlock
<1>2. /\ pc[t] \in {"pend", "pends"} /\ suspended' = suspended \cup {t} /\ WaitQueueAdd(t)
      /\ ExitCritical(t)
      /\ UNCHANGED <<app, mailbox, lock, calls, targets, granted, posted, lostPost>>
  BY DEF PendBlock
<1>3. t \notin suspended /\ t \notin Pending /\ t \notin Dead /\ pc[t] # "dead"
  BY <1>0, <1>2 DEF PlacesInv, Pending, Dead
<1>4. wait_queue' \in Seq(Threads) /\ QueueInv'
  BY <1>0, <1>1, <1>2, WaitQueueMembers DEF Waiting
<1>5. \A u \in Threads : pc'[u] = IF u = t THEN place ELSE pc[u]
  BY <1>0, <1>1 DEF TypeOK
<1>6. PlacesInv'
  <2>1. \A u \in suspended' : pc'[u] \in {"gap", "gaps"}
    BY <1>0, <1>2, <1>5 DEF PlacesInv, TypeOK
  <2>2. NoBroadcast' => \A u \in Threads : pc'[u] \notin {"posts", "readyall"} /\ Len(targets'[u]) <= 1
    BY <1>0, <1>2, <1>5 DEF PlacesInv, NoBroadcast, Ops
  <2>3. NoPend' => \A u \in Threads : pc'[u] \notin {"pend", "gap", "wake"}
    BY <1>0, <1>1, <1>2, <1>5 DEF PlacesInv, NoPend, Ops
  <2>4. \A c \in Cpus : mailbox'[c] # NoThread => Cpu'[mailbox'[c]] = c
    BY <1>0, <1>2 DEF PlacesInv, Cpu
  <2> QED BY <2>1, <2>2, <2>3, <2>4 DEF PlacesInv
<1>7. Pending' = (IF d = 1 THEN Pending \cup {t} ELSE Pending) /\ Dead' = Dead /\ Awake' = Awake
  <2>1. /\ Pending' = IF place \in {"gap", "wake"} THEN Pending \cup {t} ELSE Pending \ {t}
        /\ Dead' = Dead \ {t}
    BY <1>0, <1>1, Moves
  <2>2. Pending' = IF d = 1 THEN Pending \cup {t} ELSE Pending
    BY <1>1, <1>3, <2>1
  <2>3. Awake' = Awake
    BY <1>2, <1>3, <2>2 DEF Awake
  <2> QED BY <1>3, <2>1, <2>2, <2>3
<1>8. Counting'
  <2>1. Promised' = Promised /\ SemNum' = SemNum
    BY <1>2, <1>7, SamePromises DEF SemNum
  <2>2. Pending \subseteq Threads
    BY DEF Pending
  <2>3. Cardinality(Pending') = Cardinality(Pending) + d
    <3>1. Cardinality(Pending) \in Nat /\ Cardinality(Pending \cup {t}) = Cardinality(Pending) + 1
      BY <1>3, <2>2, Sizes
    <3> QED BY <1>7, <3>1
  <2> QED BY <1>0, <1>1, <1>2, <1>7, <2>1, <2>3, Quantities DEF Counting
<1>9. PostFindsWaiter'
  BY <1>0, <1>1, <1>2, <1>3, DeadStays
<1>10. TypeOK'
  <2>1. crit' \in [Cpus -> Threads \cup {NoThread}]
    BY <1>0, <1>2, CritTyped
  <2>2. pc' \in [Threads -> Places] /\ ipc' \subseteq Threads /\ suspended' \subseteq Threads
    BY <1>0, <1>1, <1>2 DEF TypeOK, Places, WaitQueueAdd
  <2>3. count' \in Int16
    <3>1. count \in -128 .. 127
      BY <1>0, CountFits
    <3>2. count' >= -129 /\ count' <= 129 /\ count' \in Int
      BY <1>1, <3>1
    <3> QED BY <3>2, SmallInt16
  <2> QED BY <1>0, <1>2, <1>4, <2>1, <2>2, <2>3 DEF TypeOK
<1> QED BY <1>4, <1>6, <1>8, <1>9, <1>10 DEF IInv

(* A readied waiter runs again. *)
LEMMA ResumeKeeps ==
  ASSUME IInv, NEW t \in Threads, PendResume(t)
  PROVE  IInv'
<1>0. TypeOK /\ PlacesInv /\ QueueInv /\ Counting /\ PostFindsWaiter
  BY DEF IInv
<1>1. PICK place \in {"wake", "wakes"} :
        pc' = [pc EXCEPT ![t] = place] /\ (place = "wake" <=> pc[t] = "gap")
  BY DEF PendResume, GoTo
<1>2. /\ pc[t] \in {"gap", "gaps"} /\ t \notin suspended /\ EnterCritical(t)
      /\ UNCHANGED <<app, suspended, mailbox, lock, wait_queue, ipc, calls, count, targets,
                     granted, posted, lostPost>>
  BY DEF PendResume, CanRun
<1>3. PlacesInv' /\ QueueInv'
  <2>1. /\ NoBroadcast => \A u \in Threads : Len(targets'[u]) <= 1
        /\ NoPend => place \notin {"pend", "gap", "wake"}
        /\ pc[t] \in Waiting <=> place \in Waiting
        /\ place \notin {"posts", "readyall"}
    BY <1>0, <1>1, <1>2 DEF PlacesInv, Waiting
  <2> QED BY <1>0, <1>1, <1>2, <2>1, MovesQuietly
<1>4. Pending' = Pending /\ Dead' = Dead /\ Awake' = Awake
  <2>1. /\ Pending' = IF place \in {"gap", "wake"} THEN Pending \cup {t} ELSE Pending \ {t}
        /\ Dead' = Dead \ {t}
    BY <1>0, <1>1, Moves
  <2>2. (t \in Pending <=> place = "wake") /\ t \notin Dead
    BY <1>1, <1>2 DEF Pending, Dead
  <2> QED BY <1>1, <1>2, <2>1, <2>2 DEF Awake
<1>5. Counting'
  <2>1. Promised' = Promised /\ SemNum' = SemNum
    BY <1>2, <1>4, SamePromises DEF SemNum
  <2> QED BY <1>0, <1>2, <1>4, <2>1 DEF Counting
<1>6. PostFindsWaiter'
  BY <1>0, <1>1, <1>2, DeadStays
<1>7. TypeOK'
  <2>1. crit' \in [Cpus -> Threads \cup {NoThread}]
    BY <1>0, <1>2, CritTyped
  <2>2. pc' \in [Threads -> Places]
    BY <1>0, <1>1 DEF TypeOK, Places
  <2> QED BY <1>0, <1>2, <2>1, <2>2 DEF TypeOK
<1> QED BY <1>3, <1>5, <1>6, <1>7 DEF IInv

(* It returns: the promise becomes a grant. *)
LEMMA ReturnKeeps ==
  ASSUME IInv, Supported, NEW t \in Threads, PendReturn(t)
  PROVE  IInv'
<1>0. TypeOK /\ PlacesInv /\ QueueInv /\ Counting /\ PostFindsWaiter
  BY DEF IInv
<1>1. PICK place \in {"rest"} : pc' = [pc EXCEPT ![t] = place]
  BY DEF PendReturn, GoTo
<1>2. /\ pc[t] \in {"wake", "wakes"} /\ WaitQueueDel(t) /\ ExitCritical(t)
      /\ UNCHANGED <<app, suspended, mailbox, lock, calls, count, targets, posted, lostPost>>
  BY DEF PendReturn
<1>3. PICK g \in {0, 1} : granted' = granted + g /\ (g = 1 <=> pc[t] = "wake")
  BY <1>0, Quantities DEF PendReturn
<1>4. t \notin suspended /\ t \notin Dead /\ pc[t] # "dead" /\ (t \in Pending <=> g = 1)
  BY <1>0, <1>2, <1>3 DEF PlacesInv, Pending, Dead
<1>5. wait_queue' \in Seq(Threads) /\ QueueInv'
  BY <1>0, <1>1, <1>2, WaitQueueMembers DEF Waiting
<1>6. \A u \in Threads : pc'[u] = IF u = t THEN "rest" ELSE pc[u]
  BY <1>0, <1>1 DEF TypeOK
<1>7. PlacesInv'
  <2>1. \A u \in suspended' : pc'[u] \in {"gap", "gaps"}
    BY <1>0, <1>2, <1>4, <1>6 DEF PlacesInv, TypeOK
  <2>2. NoBroadcast' => \A u \in Threads : pc'[u] \notin {"posts", "readyall"} /\ Len(targets'[u]) <= 1
    BY <1>0, <1>2, <1>6 DEF PlacesInv, NoBroadcast, Ops
  <2>3. NoPend' => \A u \in Threads : pc'[u] \notin {"pend", "gap", "wake"}
    BY <1>0, <1>2, <1>6 DEF PlacesInv, NoPend, Ops
  <2>4. \A c \in Cpus : mailbox'[c] # NoThread => Cpu'[mailbox'[c]] = c
    BY <1>0, <1>2 DEF PlacesInv, Cpu
  <2> QED BY <2>1, <2>2, <2>3, <2>4 DEF PlacesInv
<1>8. Pending' = Pending \ {t} /\ Dead' = Dead /\ Awake' = Awake \ {t}
  <2>1. Pending' = Pending \ {t} /\ Dead' = Dead \ {t}
    BY <1>0, <1>1, Moves
  <2> QED BY <1>2, <1>4, <2>1 DEF Awake
<1>9. Counting'
  <2>1. /\ Cardinality(Pending) \in Nat /\ Cardinality(Pending') = Cardinality(Pending) - g
        /\ Cardinality(Awake) \in Nat /\ Cardinality(Awake') = Cardinality(Awake) - g
    <3>1. Pending \subseteq Threads /\ Awake \subseteq Threads /\ (t \in Awake <=> g = 1)
      BY <1>4 DEF Pending, Awake
    <3> QED BY <1>4, <1>8, <3>1, Sizes
  <2>2. Promised' = Promised - g
    <3>1. CASE NoBroadcast
      <4>1. NoBroadcast' /\ Choosing' = Choosing /\ Mailed' = Mailed
        BY <1>2, <3>1 DEF NoBroadcast, Ops, Choosing, Mailed, Cpu
      <4>2. Choosing \subseteq Threads /\ Mailed \subseteq Threads
        BY DEF Choosing, Mailed
      <4>3. Cardinality(Choosing) \in Nat /\ Cardinality(Mailed) \in Nat
        BY <4>2, Sizes
      <4> QED BY <2>1, <3>1, <4>1, <4>3 DEF Promised
    <3>2. CASE ~NoBroadcast
      <4>1. ~NoBroadcast' /\ g = 0
        BY <1>0, <1>2, <1>3, <3>2 DEF NoBroadcast, Ops, Supported, PlacesInv
      <4> QED BY <3>2, <4>1 DEF Promised
    <3> QED BY <3>1, <3>2
  <2>3. SemNum' = SemNum
    BY <1>2 DEF SemNum
  <2> QED BY <1>0, <1>2, <1>3, <1>8, <2>1, <2>2, <2>3, Quantities DEF Counting
<1>10. PostFindsWaiter'
  BY <1>0, <1>1, <1>2, <1>4, DeadStays
<1>11. TypeOK'
  <2>1. crit' \in [Cpus -> Threads \cup {NoThread}]
    BY <1>0, <1>2, CritTyped
  <2>2. pc' \in [Threads -> Places] /\ ipc' \subseteq Threads
    BY <1>0, <1>1, <1>2 DEF TypeOK, Places, Resting, WaitQueueDel
  <2>3. granted' \in Nat
    BY <1>0, <1>3 DEF TypeOK
  <2> QED BY <1>0, <1>2, <1>5, <2>1, <2>2, <2>3 DEF TypeOK
<1> QED BY <1>5, <1>7, <1>9, <1>10, <1>11 DEF IInv

(* post chooses the waiter it will ready: one resource more, one promise   *)
(* more.                                                                   *)
LEMMA WakeKeeps ==
  ASSUME IInv, Supported, NEW t \in Threads, PostWake(t)
  PROVE  IInv'
<1>0. TypeOK /\ PlacesInv /\ QueueInv /\ Counting /\ PostFindsWaiter
  BY DEF IInv
<1>1. PICK place \in {"ready"} : pc' = [pc EXCEPT ![t] = place]
  BY DEF PostWake, GoTo
<1>2. /\ pc[t] = "post" /\ count > 1 /\ lock' = t /\ posted' = posted + 1
      /\ targets' = [targets EXCEPT ![t] = <<HighThread>>]
      /\ UNCHANGED <<app, suspended, crit, mailbox, wait_queue, ipc, calls, granted, lostPost>>
  BY DEF PostWake, SEM_NOAVAI
<1>3. count' = count - 1
  BY <1>0, CountFits DEF PostWake
<1>4. t \notin suspended /\ t \notin Pending /\ t \notin Dead
  BY <1>0, <1>2 DEF PlacesInv, Pending, Dead
<1>5. \A u \in Threads : targets'[u] = IF u = t THEN <<HighThread>> ELSE targets[u]
  BY <1>0, <1>2 DEF TypeOK
<1>6. PlacesInv' /\ QueueInv'
  <2>1. NoBroadcast => \A u \in Threads : Len(targets'[u]) <= 1
    <3>1. Len(<<HighThread>>) = 1
      OBVIOUS
    <3>2. ASSUME NoBroadcast, NEW u \in Threads PROVE Len(targets'[u]) <= 1
      <4>1. CASE u = t
        <5>1. targets'[u] = <<HighThread>>
          BY <1>5, <4>1
        <5>2. Len(targets'[u]) = 1
          BY <3>1, <5>1
        <5> QED BY <5>2
      <4>2. CASE u # t
        BY <1>0, <1>5, <3>2, <4>2 DEF PlacesInv
      <4> QED BY <4>1, <4>2
    <3> QED BY <3>2
  <2>2. pc[t] \in Waiting <=> place \in Waiting
    BY <1>2 DEF Waiting
  <2> QED BY <1>0, <1>1, <1>2, <1>4, <2>1, <2>2, MovesQuietly
<1>7. Pending' = Pending /\ Dead' = Dead /\ Awake' = Awake
  <2>1. Pending' = Pending \ {t} /\ Dead' = Dead \ {t}
    BY <1>0, <1>1, Moves
  <2> QED BY <1>2, <1>4, <2>1 DEF Awake
<1>8. Promised' \in Nat /\ Promised' <= Promised + 1
  <2>1. CASE NoBroadcast
    <3>1. /\ NoBroadcast' /\ Mailed' = Mailed
      BY <1>2, <2>1 DEF NoBroadcast, Ops, Mailed, Cpu
    <3>2. Choosing' = Choosing \cup {t}
      BY <1>5 DEF Choosing
    <3>3. Choosing \subseteq Threads /\ Mailed \subseteq Threads /\ Awake \subseteq Threads
      BY DEF Choosing, Mailed, Awake, Pending
    <3>4. /\ Cardinality(Mailed) \in Nat /\ Cardinality(Awake) \in Nat /\ Cardinality(Choosing) \in Nat
          /\ Cardinality(Choosing') = IF t \in Choosing THEN Cardinality(Choosing) ELSE Cardinality(Choosing) + 1
      BY <3>2, <3>3, Sizes
    <3> QED BY <1>7, <2>1, <3>1, <3>4 DEF Promised
  <2>2. CASE ~NoBroadcast
    BY <1>2, <2>2 DEF Promised, NoBroadcast, Ops
  <2> QED BY <2>1, <2>2
<1>9. Counting'
  <2>1. SemNum' = SemNum
    BY <1>2 DEF SemNum
  <2>2. /\ granted + Promised' <= SemNum + posted'
        /\ granted + Promised' + 1 <= SemNum + posted' + count'
        /\ SemNum + posted' + count' <= granted + Cardinality(Pending) + Cardinality(Dead) + 1
    BY <1>0, <1>2, <1>3, <1>8, Quantities DEF Counting
  <2> QED BY <1>2, <1>7, <2>1, <2>2 DEF Counting
<1>10. PostFindsWaiter'
  BY <1>0, <1>1, <1>2, DeadStays
<1>11. TypeOK'
  <2>1. HighThread \in Threads
    BY <1>0, HeadTailProperties DEF PostWake, HighThread, TypeOK
  <2>2. targets' \in [Threads -> Seq(Threads)]
    BY <1>0, <1>2, <2>1 DEF TypeOK
  <2>3. pc' \in [Threads -> Places]
    BY <1>0, <1>1 DEF TypeOK, Places
  <2>4. count' \in Int16
    <3>1. count \in -128 .. 127
      BY <1>0, CountFits
    <3>2. count' >= -129 /\ count' <= 129 /\ count' \in Int
      BY <1>3, <3>1
    <3> QED BY <3>2, SmallInt16
  <2>5. posted' \in Nat
    BY <1>0, <1>2 DEF TypeOK
  <2> QED BY <1>0, <1>2, <2>2, <2>3, <2>4, <2>5 DEF TypeOK
<1> QED BY <1>6, <1>9, <1>10, <1>11 DEF IInv

(* posts takes note of every waiter; none of them waits in pend. *)
LEMMA WakeAllKeeps ==
  ASSUME IInv, Supported, NEW t \in Threads, PostsWakeAll(t)
  PROVE  IInv'
<1>0. TypeOK /\ PlacesInv /\ QueueInv /\ Counting /\ PostFindsWaiter
  BY DEF IInv
<1>1. PICK place \in {"readyall"} : pc' = [pc EXCEPT ![t] = place]
  BY DEF PostsWakeAll, GoTo
<1>2. /\ pc[t] = "posts" /\ lock' = t
      /\ targets' = [targets EXCEPT ![t] = wait_queue]
      /\ UNCHANGED <<app, suspended, crit, mailbox, wait_queue, ipc, calls, granted, lostPost>>
  BY DEF PostsWakeAll
<1>3. PICK p \in {0, 1} : count' = count - p /\ posted' = posted + p
  <2>1. count \in Int /\ posted \in Nat /\ ToInt16(count - 1) = count - 1
    BY <1>0, CountFits, Quantities
  <2>2. CASE count <= SEM_NOAVAI
    BY <2>1, <2>2 DEF PostsWakeAll
  <2>3. CASE ~(count <= SEM_NOAVAI)
    BY <2>1, <2>3 DEF PostsWakeAll
  <2> QED BY <2>2, <2>3
<1>4. ~NoBroadcast
  BY <1>0, <1>2 DEF PlacesInv
<1>5. t \notin suspended /\ t \notin Pending /\ t \notin Dead
  BY <1>0, <1>2 DEF PlacesInv, Pending, Dead
<1>6. PlacesInv' /\ QueueInv'
  <2>1. pc[t] \in Waiting <=> place \in Waiting
    BY <1>2 DEF Waiting
  <2> QED BY <1>0, <1>1, <1>2, <1>4, <1>5, <2>1, MovesQuietly
<1>7. Pending' = Pending /\ Dead' = Dead
  <2>1. Pending' = Pending \ {t} /\ Dead' = Dead \ {t}
    BY <1>0, <1>1, Moves
  <2> QED BY <1>5, <2>1
<1>8. Counting'
  <2>1. SemNum' = SemNum /\ Promised = 0 /\ Promised' = 0
    BY <1>2, <1>4 DEF SemNum, Promised, NoBroadcast, Ops
  <2>2. /\ granted + 0 <= SemNum + posted'
        /\ granted + 0 + 1 <= SemNum + posted' + count'
        /\ SemNum + posted' + count' <= granted + Cardinality(Pending) + Cardinality(Dead) + 1
    BY <1>0, <1>3, <2>1, Quantities DEF Counting
  <2> QED BY <1>2, <1>7, <2>1, <2>2 DEF Counting
<1>9. PostFindsWaiter'
  BY <1>0, <1>1, <1>2, DeadStays
<1>10. TypeOK'
  <2>1. targets' \in [Threads -> Seq(Threads)]
    BY <1>0, <1>2 DEF TypeOK
  <2>2. pc' \in [Threads -> Places]
    BY <1>0, <1>1 DEF TypeOK, Places
  <2>3. count' \in Int16
    <3>1. count \in -128 .. 127
      BY <1>0, CountFits
    <3>2. count' >= -129 /\ count' <= 129 /\ count' \in Int
      BY <1>3, <3>1
    <3> QED BY <3>2, SmallInt16
  <2>4. posted' \in Nat
    BY <1>0, <1>3 DEF TypeOK
  <2> QED BY <1>0, <1>2, <2>1, <2>2, <2>3, <2>4 DEF TypeOK
<1> QED BY <1>6, <1>8, <1>9, <1>10 DEF IInv

(* A step that leaves every thread at its place and the semaphore alone:   *)
(* only the wakeup of a waiter gets on.                                    *)
LEMMA WakeupsKeep ==
  ASSUME IInv, Promised' \in Nat, Promised' <= Promised,
         suspended' \subseteq suspended,
         mailbox' \in [Cpus -> Threads \cup {NoThread}],
         \A c \in Cpus : mailbox'[c] # NoThread => Cpu[mailbox'[c]] = c,
         targets' \in [Threads -> Seq(Threads)],
         NoBroadcast => \A u \in Threads : Len(targets'[u]) <= 1,
         UNCHANGED <<app, crit, lock, wait_queue, ipc, pc, calls, count, granted, posted, lostPost>>
  PROVE  IInv'
<1>0. TypeOK /\ PlacesInv /\ QueueInv /\ Counting /\ PostFindsWaiter
  BY DEF IInv
<1>1. TypeOK'
  BY <1>0 DEF TypeOK
<1>2. PlacesInv'
  <2>1. \A u \in suspended' : pc'[u] \in {"gap", "gaps"}
    BY <1>0 DEF PlacesInv
  <2>2. NoBroadcast' => \A u \in Threads : pc'[u] \notin {"posts", "readyall"} /\ Len(targets'[u]) <= 1
    BY <1>0 DEF PlacesInv, NoBroadcast, Ops
  <2>3. NoPend' => \A u \in Threads : pc'[u] \notin {"pend", "gap", "wake"}
    BY <1>0 DEF PlacesInv, NoPend, Ops
  <2>4. \A c \in Cpus : mailbox'[c] # NoThread => Cpu'[mailbox'[c]] = c
    BY DEF Cpu
  <2> QED BY <2>1, <2>2, <2>3, <2>4 DEF PlacesInv
<1>3. QueueInv' /\ PostFindsWaiter'
  BY <1>0 DEF QueueInv, QueuedThreads, PostFindsWaiter
<1>4. Counting'
  BY <1>0, PromisesShrink
<1> QED BY <1>1, <1>2, <1>3, <1>4 DEF IInv

(* A list of threads to ready gets shorter. *)
LEMMA TailShortens ==
  ASSUME NEW q \in Seq(Threads), q # << >>
  PROVE  /\ Tail(q) \in Seq(Threads)
         /\ Len(q) <= 1 => Tail(q) = << >> /\ Len(Tail(q)) <= 1
<1>1. /\ Tail(q) \in Seq(Threads) /\ Len(Tail(q)) = Len(q) - 1 /\ Len(q) \in Nat
      /\ Len(Tail(q)) \in Nat
  BY HeadTailProperties, LenProperties
<1>2. ASSUME Len(q) <= 1 PROVE Len(Tail(q)) = 0
  BY <1>1, <1>2
<1>3. ASSUME Len(Tail(q)) = 0 PROVE Tail(q) = << >>
  BY <1>1, <1>3, EmptySeq
<1>4. 0 <= 1
  OBVIOUS
<1> QED BY <1>1, <1>2, <1>3, <1>4

(* One acoral_rdy_thread of a post. *)
LEMMA ReadyKeeps ==
  ASSUME IInv, NEW t \in Threads, PostReady(t)
  PROVE  IInv'
<1>0. TypeOK /\ PlacesInv /\ QueueInv /\ Counting /\ PostFindsWaiter
  BY DEF IInv
<1>1. PICK u \in Threads : u = Head(targets[t])
  BY <1>0, HeadTailProperties DEF PostReady, TypeOK
<1>2. /\ RdyThread(t, u) /\ targets[t] # << >> /\ targets' = [targets EXCEPT ![t] = Tail(@)]
      /\ UNCHANGED <<app, crit, lock, wait_queue, ipc, pc, calls, count, granted, posted, lostPost>>
  BY <1>1 DEF PostReady
<1>3. /\ Tail(targets[t]) \in Seq(Threads)
      /\ Len(targets[t]) <= 1 => Tail(targets[t]) = << >> /\ Len(Tail(targets[t])) <= 1
  BY <1>0, <1>2, TailShortens DEF TypeOK
<1>4. \A v \in Threads : targets'[v] = IF v = t THEN Tail(targets[t]) ELSE targets[v]
  BY <1>0, <1>2 DEF TypeOK
<1>5. targets' \in [Threads -> Seq(Threads)]
  BY <1>0, <1>2, <1>3 DEF TypeOK
<1>6. Cpu[u] \in Cpus /\ \A v \in Threads : Cpu[v] \in Cpus
  BY <1>0, AppsAssumption DEF TypeOK, Cpu
<1>7. /\ suspended' \subseteq suspended /\ mailbox' \in [Cpus -> Threads \cup {NoThread}]
      /\ \A c \in Cpus : mailbox'[c] # NoThread => Cpu[mailbox'[c]] = c
  <2>1. CASE mailbox' = mailbox
    BY <1>0, <1>2, <2>1 DEF RdyThread, TypeOK, PlacesInv
  <2>2. CASE mailbox' = [mailbox EXCEPT ![Cpu[u]] = u] /\ suspended' = suspended
    <3>1. \A c \in Cpus : mailbox'[c] = IF c = Cpu[u] THEN u ELSE mailbox[c]
      BY <1>0, <2>2 DEF TypeOK
    <3> QED BY <1>0, <1>6, <2>2, <3>1 DEF TypeOK, PlacesInv
  <2> QED BY <1>2, <2>1, <2>2 DEF RdyThread
<1>8. NoBroadcast => \A v \in Threads : Len(targets'[v]) <= 1
  <2>1. ASSUME NoBroadcast PROVE \A v \in Threads : Len(targets[v]) <= 1
    BY <1>0, <2>1 DEF PlacesInv
  <2>2. ASSUME NoBroadcast, NEW v \in Threads PROVE Len(targets'[v]) <= 1
    <3>1. CASE v = t
      <4>1. targets'[v] = Tail(targets[t])
        BY <1>4, <3>1
      <4>2. Len(Tail(targets[t])) <= 1
        BY <1>3, <2>1, <2>2
      <4> QED BY <4>1, <4>2
    <3>2. CASE v # t
      <4>1. targets'[v] = targets[v]
        BY <1>4, <3>2
      <4> QED BY <2>1, <2>2, <4>1
    <3> QED BY <3>1, <3>2
  <2> QED BY <2>2
<1>9. Promised' \in Nat /\ Promised' <= Promised
  <2>1. CASE ~NoBroadcast
    BY <1>2, <2>1 DEF Promised, NoBroadcast, Ops
  <2>2. CASE NoBroadcast
    <3>0. NoBroadcast' /\ Pending' = Pending
      BY <1>2, <2>2 DEF NoBroadcast, Ops, Pending
    <3>1. t \in Choosing /\ Choosing' = Choosing \ {t}
      <4>1. Len(targets[t]) <= 1
        BY <1>0, <2>2 DEF PlacesInv
      <4>2. Tail(targets[t]) = << >>
        BY <1>3, <4>1
      <4> QED BY <1>2, <1>4, <4>2 DEF Choosing
    <3>2. Choosing \subseteq Threads /\ Mailed \subseteq Threads /\ Awake \subseteq Threads
      BY DEF Choosing, Mailed, Awake, Pending
    <3>3. /\ Cardinality(Choosing) \in Nat /\ Cardinality(Mailed) \in Nat /\ Cardinality(Awake) \in Nat
          /\ Cardinality(Choosing') = Cardinality(Choosing) - 1
          /\ Cardinality(Choosing') \in Nat
      <4>1. Choosing' \subseteq Threads
        BY <3>1, <3>2
      <4> QED BY <3>1, <3>2, <4>1, Sizes
    <3>4. \/ Mailed' = Mailed /\ Awake' = Awake
          \/ Mailed' = Mailed /\ Awake' = Awake \cup {u}
          \/ Mailed' = Mailed \cup {u} /\ Awake' = Awake
      <4>1. CASE u \notin suspended /\ UNCHANGED <<suspended, mailbox>>
        BY <1>2, <3>0, <4>1 DEF Mailed, Awake, Cpu
      <4>2. CASE suspended' = suspended \ {u} /\ UNCHANGED mailbox
        <5>1. Mailed' = Mailed
          BY <1>2, <4>2 DEF Mailed, Cpu
        <5>2. Awake' = Awake \/ Awake' = Awake \cup {u}
          BY <3>0, <4>2 DEF Awake
        <5> QED BY <5>1, <5>2
      <4>3. CASE /\ mailbox[Cpu[u]] = NoThread /\ mailbox' = [mailbox EXCEPT ![Cpu[u]] = u]
                 /\ UNCHANGED suspended
        <5>1. \A v \in Threads : mailbox'[Cpu[v]] = IF Cpu[v] = Cpu[u] THEN u ELSE mailbox[Cpu[v]]
          BY <1>0, <1>6, <4>3 DEF TypeOK
        <5>2. \A v \in Threads : mailbox'[Cpu[v]] = v <=> (v = u \/ mailbox[Cpu[v]] = v)
          BY <4>3, <5>1, ThreadsAssumption
        <5>3. Mailed' = Mailed \cup {u}
          BY <1>2, <5>2 DEF Mailed, Cpu
        <5> QED BY <3>0, <4>3, <5>3 DEF Awake
      <4> QED BY <1>2, <4>1, <4>2, <4>3 DEF RdyThread
    <3>5. /\ Cardinality(Mailed \cup {u}) \in Nat /\ Cardinality(Awake \cup {u}) \in Nat
          /\ Cardinality(Mailed \cup {u}) <= Cardinality(Mailed) + 1
          /\ Cardinality(Awake \cup {u}) <= Cardinality(Awake) + 1
      <4>1. PICK m \in Nat, w \in Nat : m = Cardinality(Mailed) /\ w = Cardinality(Awake)
        BY <3>3
      <4>2. Cardinality(Mailed \cup {u}) = m \/ Cardinality(Mailed \cup {u}) = m + 1
        BY <3>2, <4>1, Sizes, Zenon
      <4>3. Cardinality(Awake \cup {u}) = w \/ Cardinality(Awake \cup {u}) = w + 1
        BY <3>2, <4>1, Sizes, Zenon
      <4> QED BY <4>1, <4>2, <4>3
    <3>6. /\ Promised = Cardinality(Choosing) + Cardinality(Mailed) + Cardinality(Awake)
          /\ Promised' = Cardinality(Choosing') + Cardinality(Mailed') + Cardinality(Awake')
      BY <2>2, <3>0 DEF Promised
    <3>7. CASE Mailed' = Mailed /\ Awake' = Awake
      BY <3>3, <3>6, <3>7
    <3>8. CASE Mailed' = Mailed /\ Awake' = Awake \cup {u}
      BY <3>3, <3>5, <3>6, <3>8
    <3>9. CASE Mailed' = Mailed \cup {u} /\ Awake' = Awake
      BY <3>3, <3>5, <3>6, <3>9
    <3> QED BY <3>4, <3>7, <3>8, <3>9
  <2> QED BY <2>1, <2>2
<1> QED BY <1>2, <1>5, <1>7, <1>8, <1>9, WakeupsKeep

(* acoral_ipi_cmd_handler carries the wakeup out. *)
LEMMA IpiKeeps ==
  ASSUME IInv, NEW c \in Cpus, Ipi(c)
  PROVE  IInv'
<1>0. TypeOK /\ PlacesInv /\ QueueInv /\ Counting /\ PostFindsWaiter
  BY DEF IInv
<1>1. PICK u \in Threads : u = mailbox[c] /\ Cpu[u] = c
  BY <1>0 DEF Ipi, IpiHandler, TypeOK, PlacesInv
<1>2. /\ suspended' = suspended \ {u} /\ mailbox' = [mailbox EXCEPT ![c] = NoThread]
      /\ UNCHANGED <<app, crit, lock, wait_queue, ipc, pc, calls, count, targets, granted,
                     posted, lostPost>>
  BY <1>1 DEF Ipi, IpiHandler
<1>3. \A d \in Cpus : mailbox'[d] = IF d = c THEN NoThread ELSE mailbox[d]
  BY <1>0, <1>2 DEF TypeOK
<1>4. /\ mailbox' \in [Cpus -> Threads \cup {NoThread}]
      /\ \A d \in Cpus : mailbox'[d] # NoThread => Cpu[mailbox'[d]] = d
  BY <1>0, <1>2, <1>3 DEF TypeOK, PlacesInv
<1>5. Promised' \in Nat /\ Promised' <= Promised
  <2>1. CASE ~NoBroadcast
    BY <1>2, <2>1 DEF Promised, NoBroadcast, Ops
  <2>2. CASE NoBroadcast
    <3>1. NoBroadcast' /\ Pending' = Pending /\ Choosing' = Choosing
      BY <1>2, <2>2 DEF NoBroadcast, Ops, Pending, Choosing
    <3>2. u \in Mailed /\ Mailed' = Mailed \ {u}
      <4>1. \A v \in Threads : Cpu[v] \in Cpus
        BY <1>0, AppsAssumption DEF TypeOK, Cpu
      <4>2. \A v \in Threads : mailbox'[Cpu[v]] = v <=> (v # u /\ mailbox[Cpu[v]] = v)
        BY <1>1, <1>3, <4>1, ThreadsAssumption
      <4> QED BY <1>1, <1>2, <4>2 DEF Mailed, Cpu
    <3>3. Awake' = Awake \/ Awake' = Awake \cup {u}
      BY <1>2, <3>1 DEF Awake
    <3>4. Choosing \subseteq Threads /\ Mailed \subseteq Threads /\ Awake \subseteq Threads
      BY DEF Choosing, Mailed, Awake, Pending
    <3>5. /\ Cardinality(Choosing) \in Nat /\ Cardinality(Mailed) \in Nat /\ Cardinality(Awake) \in Nat
          /\ Cardinality(Mailed') = Cardinality(Mailed) - 1 /\ Cardinality(Mailed') \in Nat
      <4>1. Mailed' \subseteq Threads
        BY <3>2, <3>4
      <4> QED BY <3>2, <3>4, <4>1, Sizes
    <3>6. Cardinality(Awake \cup {u}) \in Nat /\ Cardinality(Awake \cup {u}) <= Cardinality(Awake) + 1
      BY <3>4, <3>5, Sizes
    <3>7. /\ Promised = Cardinality(Choosing) + Cardinality(Mailed) + Cardinality(Awake)
          /\ Promised' = Cardinality(Choosing) + Cardinality(Mailed') + Cardinality(Awake')
      BY <2>2, <3>1 DEF Promised
    <3>8. CASE Awake' = Awake
      BY <3>5, <3>7, <3>8
    <3>9. CASE Awake' = Awake \cup {u}
      BY <3>5, <3>6, <3>7, <3>9
    <3> QED BY <3>3, <3>8, <3>9
  <2> QED BY <2>1, <2>2
<1>6. /\ targets' \in [Threads -> Seq(Threads)]
      /\ NoBroadcast => \A v \in Threads : Len(targets'[v]) <= 1
  BY <1>0, <1>2 DEF TypeOK, PlacesInv
<1> QED BY <1>2, <1>4, <1>5, <1>6, WakeupsKeep

(* A waiter is killed: it leaves the queue, and count keeps counting it. *)
LEMMA KillKeeps ==
  ASSUME IInv, NEW t \in Threads, Kill(t)
  PROVE  IInv'
<1>0. TypeOK /\ PlacesInv /\ QueueInv /\ Counting /\ PostFindsWaiter
  BY DEF IInv
<1>1. PICK place \in {"dead"} : pc' = [pc EXCEPT ![t] = place]
  BY DEF Kill, GoTo
<1>2. /\ t \in suspended /\ suspended' = suspended \ {t} /\ WaitQueueDel(t)
      /\ UNCHANGED <<app, crit, mailbox, lock, calls, count, targets, granted, posted, lostPost>>
  BY DEF Kill
<1>3. pc[t] \in {"gap", "gaps"} /\ t \notin Dead /\ pc[t] # "dead"
  BY <1>0, <1>2 DEF PlacesInv, Dead
<1>4. wait_queue' \in Seq(Threads) /\ QueueInv'
  BY <1>0, <1>1, <1>2, WaitQueueMembers DEF Waiting
<1>5. \A u \in Threads : pc'[u] = IF u = t THEN "dead" ELSE pc[u]
  BY <1>0, <1>1 DEF TypeOK
<1>6. PlacesInv'
  <2>1. \A u \in suspended' : pc'[u] \in {"gap", "gaps"}
    BY <1>0, <1>2, <1>5 DEF PlacesInv, TypeOK
  <2>2. NoBroadcast' => \A u \in Threads : pc'[u] \notin {"posts", "readyall"} /\ Len(targets'[u]) <= 1
    BY <1>0, <1>2, <1>5 DEF PlacesInv, NoBroadcast, Ops
  <2>3. NoPend' => \A u \in Threads : pc'[u] \notin {"pend", "gap", "wake"}
    BY <1>0, <1>2, <1>5 DEF PlacesInv, NoPend, Ops
  <2>4. \A c \in Cpus : mailbox'[c] # NoThread => Cpu'[mailbox'[c]] = c
    BY <1>0, <1>2 DEF PlacesInv, Cpu
  <2> QED BY <2>1, <2>2, <2>3, <2>4 DEF PlacesInv
<1>7. Pending' = Pending \ {t} /\ Dead' = Dead \cup {t} /\ Awake' = Awake
  <2>1. Pending' = Pending \ {t} /\ Dead' = Dead \cup {t}
    BY <1>0, <1>1, Moves
  <2> QED BY <1>2, <2>1 DEF Awake
<1>8. Counting'
  <2>1. Promised' = Promised /\ SemNum' = SemNum
    BY <1>2, <1>7, SamePromises DEF SemNum
  <2>2. Pending \subseteq Threads /\ Dead \subseteq Threads
    BY DEF Pending, Dead
  <2>3. /\ Cardinality(Pending) \in Nat /\ Cardinality(Dead) \in Nat
        /\ Cardinality(Pending') = (IF t \in Pending THEN Cardinality(Pending) - 1 ELSE Cardinality(Pending))
        /\ Cardinality(Dead') = Cardinality(Dead) + 1
    BY <1>3, <1>7, <2>2, Sizes
  <2>4. SemNum + posted + count <= granted + Cardinality(Pending') + Cardinality(Dead') + 1
    BY <1>0, <2>3, Quantities DEF Counting
  <2> QED BY <1>0, <1>2, <2>1, <2>4 DEF Counting
<1>9. PostFindsWaiter'
  BY <1>0, <1>1, <1>2, <1>3, DeadStays
<1>10. TypeOK'
  <2>1. pc' \in [Threads -> Places] /\ ipc' \subseteq Threads /\ suspended' \subseteq Threads
    BY <1>0, <1>1, <1>2 DEF TypeOK, Places, Resting, WaitQueueDel
  <2> QED BY <1>0, <1>2, <1>4, <2>1 DEF TypeOK
<1> QED BY <1>4, <1>6, <1>8, <1>9, <1>10 DEF IInv

(* Every step of a supported use keeps the invariant. *)
LEMMA StepInv == IInv /\ Supported /\ [Next]_vars => IInv'
<1> SUFFICES ASSUME IInv, Supported, [Next]_vars PROVE IInv'
  OBVIOUS
<1>1. ASSUME NEW t \in Threads, Call(t) \/ ThreadStep(t) \/ Kill(t) PROVE IInv'
  BY <1>1, CallKeeps, PassersKeep, BlockKeeps, ResumeKeeps, ReturnKeeps, WakeKeeps, WakeAllKeeps,
     ReadyKeeps, KillKeeps DEF ThreadStep
<1>2. ASSUME NEW c \in Cpus, Ipi(c) PROVE IInv'
  BY <1>2, IpiKeeps
<1>3. ASSUME UNCHANGED vars PROVE IInv'
  BY <1>3 DEF vars, baseVars, IInv, TypeOK, PlacesInv, QueueInv, Counting, PostFindsWaiter,
     NoBroadcast, NoPend, Ops, Cpu, QueuedThreads, Promised, Choosing, Mailed, Awake, Pending, Dead,
     SemNum
<1> QED BY <1>1, <1>2, <1>3 DEF Next, Finished

(* What a caller may rely on follows from the invariant: when no thread    *)
(* was killed, count is at most 0 while an unpromised resource is left.    *)
LEMMA CountTells == IInv /\ Supported => Conservation
<1> SUFFICES ASSUME IInv, Supported PROVE Conservation
  OBVIOUS
<1>0. TypeOK /\ Counting
  BY DEF IInv
<1>1. granted <= SemNum + posted
  BY <1>0, Quantities DEF Counting
<1>2. ASSUME SemNum + posted > granted + Cardinality(Pending), \A t \in Threads : pc[t] # "dead"
      PROVE  Available
  <2>1. Dead = {}
    BY <1>2 DEF Dead
  <2>2. Cardinality(Dead) = 0
    BY <2>1, FS_EmptySet
  <2>3. count <= 0
    BY <1>0, <1>2, <2>2, Quantities DEF Counting
  <2> QED BY <1>0, <2>3, CountFits
<1> QED BY <1>0, <1>1, <1>2 DEF Conservation

(* In every supported use of a semaphore no resource is handed out twice   *)
(* and none is withheld, whatever the number of threads (below 127), CPUs  *)
(* and calls, and however pends, posts, inter-processor wakeups and kills  *)
(* interleave.                                                             *)
THEOREM SemConserves == Spec /\ []Supported => []Conservation
<1>1. Init /\ Supported => IInv
  BY InitInv
<1>2. IInv /\ Supported /\ [Next]_vars => IInv'
  BY StepInv
<1>3. IInv /\ Supported => Conservation
  BY CountTells
<1> QED BY <1>1, <1>2, <1>3, PTL DEF Spec

(* acoral_sem_post takes its error path, a waiter promised by count that   *)
(* the queue does not hold, only after a waiter was killed.                *)
THEOREM PostsFindWaiters == Spec /\ []Supported => []PostFindsWaiter
<1>1. Init /\ Supported => IInv
  BY InitInv
<1>2. IInv /\ Supported /\ [Next]_vars => IInv'
  BY StepInv
<1>3. IInv => PostFindsWaiter
  BY DEF IInv
<1> QED BY <1>1, <1>2, <1>3, PTL DEF Spec
=============================================================================
