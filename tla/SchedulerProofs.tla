-------------------------- MODULE SchedulerProofs --------------------------
(* For any number of CPUs, threads and priorities and every disciplined    *)
(* application: the ready queues agree with the threads' states, every CPU *)
(* runs its most urgent thread, no thread runs on two CPUs, only a         *)
(* migrating thread's stack is shared, and what the daemon has released is *)
(* off its CPU.                                                            *)
EXTENDS Scheduler, QueueProofs, FiniteSetTheorems

Contexts == Threads \cup Cpus

Ready(t) == "READY" \in state[t]
Asleep(t) == "SUSPEND" \in state[t]
ReadySet == {t \in Threads : Ready(t)}

(* A thread is alive, and then ready or suspended, or has one of the       *)
(* states of its end.                                                      *)
Dead == {{"EXIT"}, {"RELEASE"}, {"FREE"}}
FlagsInv ==
  \A t \in Threads :
    \/ state[t] \in Dead
    \/ "EXIT" \notin state[t] /\ "RELEASE" \notin state[t] /\ "FREE" \notin state[t] /\ (Ready(t) <=> ~Asleep(t))

Queues == [Cpus -> [Prios -> Seq(Threads)]]

(* Lists q, bits and counters n hold the threads R on the CPUs cp at the   *)
(* priorities pr.                                                          *)
Agree(q, bits, n, R, cp, pr) ==
  \A c \in Cpus :
    /\ \A p \in Prios : /\ IsInjective(q[c][p])
                        /\ ToSet(q[c][p]) = {t \in R : cp[t] = c /\ pr[t] = p}
    /\ bits[c] = {p \in Prios : q[c][p] # << >>}
    /\ n[c] = Cardinality({t \in R : cp[t] = c})
Lists == Agree(queue, bitmap, num, ReadySet, cpu, prio)

(* A CPU runs one of its threads: a ready one, or one that has just been   *)
(* suspended or killed, and then the switch is due.                        *)
RunInv ==
  \A c \in Cpus : /\ cpu[running[c]] = c
                  /\ \/ Ready(running[c])
                     \/ c \in need_sched /\ (Asleep(running[c]) \/ state[running[c]] = {"EXIT"})

IdleInv == \A c \in Cpus : Ready(Idle[c]) /\ cpu[Idle[c]] = c

(* Without the switch that a CPU owes, it runs the thread to be selected,  *)
(* or one that does not yield.                                             *)
UrgentInv ==
  \A c \in Cpus : c \notin need_sched =>
     running[c] = Selected(c) \/ ~CanSwitch(running[c], Selected(c))

(* Calls carried out away from their caller's context, and by their caller.*)
RemoteOp(app, k) ==
  \/ k.op = "ready" /\ k.thread = Daem
  \/ /\ \E l \in app : l.op = k.op /\ l.thread = k.thread /\ ~LocalCall(l)
     /\ k.op \in {"ready", "suspend", "chg_prio", "kill"}
     /\ k.op = "chg_prio" => k.arg \in Prios
OwnOp(app, x, k) ==
  \/ k.op = "suspend" /\ k.thread = Daem /\ x = Daem
  \/ /\ \E l \in app : l.op = k.op /\ l.thread = k.thread /\ l.by = x /\ LocalCall(l)
     /\ k.op \in {"ready", "suspend", "chg_prio", "kill"}
     /\ k.op = "chg_prio" => k.arg \in Prios

(* What a thread, a handler and a mailbox can be about. *)
ThreadCall(app, x, k) ==
  \/ k = NoCall
  \/ k.pc = "commit" /\ OwnOp(app, x, k)
  \/ k.pc = "send" /\ k.to \in Cpus /\ RemoteOp(app, k)
  \/ k.pc = "send" /\ k.to \in Cpus /\ k.op = "movein" /\ k.thread = x /\ x \in MoversOf(app)
  \/ /\ k.pc \in {"enter", "spin"} /\ k.op = "moveto" /\ k.thread = x /\ x \in MoversOf(app)
     /\ k.arg \in Cpus
  \/ k.pc = "sgi" /\ k.op = "none"
  \/ k.pc = "daem" /\ k.op = "ready"
HandlerCall(app, k) ==
  \/ k = NoCall \/ k = ExitCall
  \/ k.pc = "commit" /\ RemoteOp(app, k)
  \/ k.pc = "send" /\ k.to \in Cpus /\ RemoteOp(app, k)
  \/ k.pc \in {"spin", "commit"} /\ k.op = "movein" /\ k.thread \in MoversOf(app)
  \/ k.pc = "daem" /\ k.op = "ready"
Mail(app, m) ==
  \/ m = None
  \/ RemoteOp(app, m)
  \/ m.op = "movein" /\ m.thread \in MoversOf(app)

CallInv(app) ==
  /\ \A x \in Threads : ThreadCall(app, x, call[x]) /\ (call[x].op = "moveto" => Ready(x))
  /\ \A c \in Cpus : HandlerCall(app, call[c]) /\ Mail(app, mailbox[c])

(* Only threads that migrate change their CPU. *)
HomeInv(app) == \A t \in Threads : t \notin MoversOf(app) => cpu[t] = InitCpu[t]

(* What was tested before a critical section still holds in it. *)
Home(x) == IF x \in Cpus THEN x ELSE cpu[x]
CommitInv ==
  \A x \in Contexts : call[x].pc = "commit" =>
    /\ cpu[call[x].thread] = Home(x)
    /\ call[x].op \in {"ready", "movein"} => Asleep(call[x].thread)
    /\ call[x].op = "suspend" => Ready(call[x].thread)

(* A migrating thread is asleep, in one call or one mailbox, and locked    *)
(* until its old CPU has left it.                                          *)
Carries(x, t) == call[x].op = "movein" /\ call[x].thread = t
Mailed(c, t) == mailbox[c] # None /\ mailbox[c].op = "movein" /\ mailbox[c].thread = t
Underway(t) ==
  /\ Asleep(t)
  /\ running[cpu[t]] = t => t \in move_lock /\ "MOVE" \in state[t]
TransitInv ==
  \A t \in Threads :
    /\ \A x \in Contexts : Carries(x, t) =>
         /\ Underway(t) /\ (x = t \/ call[t] = NoCall)
         /\ \A y \in Contexts : Carries(y, t) => x = y
         /\ \A c \in Cpus : ~Mailed(c, t)
    /\ \A c \in Cpus : Mailed(c, t) =>
         Underway(t) /\ call[t] = NoCall /\ \A d \in Cpus : Mailed(d, t) => c = d

(* Who is inside a critical section. *)
CritInv ==
  \A c \in crit :
    \/ call[c].pc \in {"send", "daem"}
    \/ call[c] = NoCall /\ call[running[c]].pc \in {"spin", "send", "daem"}

(* The types, in parts. *)
Shape ==
  /\ state \in [Threads -> SUBSET Flags]
  /\ cpu \in [Threads -> Cpus] /\ prio \in [Threads -> Prios]
  /\ queue \in Queues
  /\ bitmap \in [Cpus -> SUBSET Prios]
  /\ num \in [Cpus -> Int]
  /\ running \in [Cpus -> Threads]
  /\ need_sched \subseteq Cpus
  /\ move_lock \subseteq Threads
Commands == [op : Ops, thread : Threads, arg : Prios \cup Cpus \cup {None}]
CallShape ==
  /\ mailbox \in [Cpus -> Commands \cup {None}]
  /\ call \in [Contexts -> CallRecords]
OtherShape ==
  /\ stack \in [Cpus -> Threads] /\ irq_switch \subseteq Cpus /\ crit \subseteq Cpus
  /\ release \in Seq(Threads) /\ tmp \in Threads \cup {None} /\ walk \in {"start", "walk"}

Data == Shape /\ FlagsInv /\ Lists /\ RunInv /\ IdleInv /\ UrgentInv

IInvOf(app) ==
  /\ Data /\ CallShape /\ OtherShape /\ script \subseteq app
  /\ CallInv(app) /\ HomeInv(app) /\ CommitInv /\ TransitInv /\ CritInv
IInv == \E app \in Apps : IInvOf(app)

-----------------------------------------------------------------------------
(* Lists *)

(* A list with one more element at its end. *)
LEMMA AppendMembers ==
  ASSUME NEW S, NEW q \in Seq(S), NEW e \in S
  PROVE  /\ Append(q, e) \in Seq(S) /\ Append(q, e) # << >>
         /\ ToSet(Append(q, e)) = ToSet(q) \cup {e}
         /\ (IsInjective(q) /\ e \notin ToSet(q)) => IsInjective(Append(q, e))
<1> DEFINE r == Append(q, e)
<1>1. /\ r \in Seq(S) /\ Len(r) = Len(q) + 1 /\ Len(q) \in Nat
      /\ \A i \in 1 .. Len(q) : r[i] = q[i]
      /\ r[Len(q) + 1] = e
  BY AppendProperties, LenProperties
<1>2. r # << >>
  BY <1>1
<1> HIDE DEF r
<1>3. 1 .. Len(r) = (1 .. Len(q)) \cup {Len(q) + 1}
  BY <1>1
<1>4. ToSet(r) = ToSet(q) \cup {e}
  <2>1. \A x : x \in ToSet(r) <=> \E i \in 1 .. Len(r) : r[i] = x
    BY <1>1, ToSetOfSeq
  <2>2. \A x : x \in ToSet(q) <=> \E i \in 1 .. Len(q) : q[i] = x
    BY ToSetOfSeq
  <2> QED BY <1>1, <1>3, <2>1, <2>2
<1>5. ASSUME IsInjective(q), e \notin ToSet(q) PROVE IsInjective(r)
  <2>1. \A i, j \in 1 .. Len(q) : q[i] = q[j] => i = j
    BY <1>5, ToSetOfSeq
  <2>2. \A i \in 1 .. Len(q) : q[i] # e
    BY <1>5, ToSetOfSeq
  <2>3. \A i, j \in 1 .. Len(r) : r[i] = r[j] => i = j
    BY <1>1, <1>3, <2>1, <2>2
  <2> QED BY <1>1, <2>3, ToSetOfSeq
<1> QED BY <1>1, <1>2, <1>4, <1>5 DEF r

(* A list is empty exactly when it has no members. *)
LEMMA EmptyMembers ==
  ASSUME NEW S, NEW q \in Seq(S)
  PROVE  q = << >> <=> ToSet(q) = {}
<1>1. \A x : x \in ToSet(q) <=> \E i \in 1 .. Len(q) : q[i] = x
  BY ToSetOfSeq
<1>2. q = << >> => ToSet(q) = {}
  BY <1>1, EmptySeq
<1>3. q # << >> => q[1] \in ToSet(q)
  <2>1. q # << >> => Len(q) \in Nat /\ Len(q) # 0
    BY LenProperties, EmptySeq
  <2>2. q # << >> => 1 \in 1 .. Len(q)
    BY <2>1
  <2> QED BY <1>1, <2>2
<1> QED BY <1>2, <1>3

(* The first element is a member. *)
LEMMA HeadMember ==
  ASSUME NEW S, NEW q \in Seq(S), q # << >>
  PROVE  Head(q) \in ToSet(q) /\ Head(q) \in S
<1>1. Len(q) \in Nat /\ Len(q) # 0 /\ Head(q) = q[1]
  BY LenProperties, EmptySeq, HeadTailProperties
<1>2. 1 \in 1 .. Len(q)
  BY <1>1
<1> QED BY <1>1, <1>2, ToSetOfSeq

(* Agree for one CPU. *)
AgreeAt(q, bits, n, R, cp, pr, c) ==
  /\ \A p \in Prios : IsInjective(q[c][p])
  /\ \A p \in Prios : \A t : t \in ToSet(q[c][p]) <=> t \in R /\ cp[t] = c /\ pr[t] = p
  /\ \A p \in Prios : p \in bits[c] <=> \E t \in R : cp[t] = c /\ pr[t] = p
  /\ bits[c] \subseteq Prios
  /\ n[c] = Cardinality({t \in R : cp[t] = c})

(* Agree says AgreeAt of every CPU. *)
LEMMA AgreeIs ==
  ASSUME NEW q \in Queues, NEW bits, NEW n, NEW R, NEW cp, NEW pr
  PROVE  Agree(q, bits, n, R, cp, pr) <=> \A c \in Cpus : AgreeAt(q, bits, n, R, cp, pr, c)
<1> SUFFICES ASSUME NEW c \in Cpus
    PROVE  AgreeAt(q, bits, n, R, cp, pr, c) <=>
           /\ \A p \in Prios : /\ IsInjective(q[c][p])
                               /\ ToSet(q[c][p]) = {t \in R : cp[t] = c /\ pr[t] = p}
           /\ bits[c] = {p \in Prios : q[c][p] # << >>}
           /\ n[c] = Cardinality({t \in R : cp[t] = c})
  BY DEF Agree
<1>1. \A p \in Prios : q[c][p] \in Seq(Threads)
  BY DEF Queues
<1>2. \A p \in Prios : q[c][p] = << >> <=> ToSet(q[c][p]) = {}
  BY <1>1, EmptyMembers
<1>3. (\A p \in Prios : \A t : t \in ToSet(q[c][p]) <=> t \in R /\ cp[t] = c /\ pr[t] = p)
        <=> \A p \in Prios : ToSet(q[c][p]) = {t \in R : cp[t] = c /\ pr[t] = p}
  OBVIOUS
<1>4. ASSUME \A p \in Prios : \A t : t \in ToSet(q[c][p]) <=> t \in R /\ cp[t] = c /\ pr[t] = p
      PROVE  bits[c] = {p \in Prios : q[c][p] # << >>} <=>
               /\ \A p \in Prios : p \in bits[c] <=> \E t \in R : cp[t] = c /\ pr[t] = p
               /\ bits[c] \subseteq Prios
  <2>1. \A p \in Prios : q[c][p] # << >> <=> \E t \in R : cp[t] = c /\ pr[t] = p
    BY <1>2, <1>4
  <2> QED BY <2>1
<1> QED BY <1>3, <1>4 DEF AgreeAt

(* acoral_thread_prio_queue_add keeps lists, bits and counters in          *)
(* agreement with the threads queued.                                      *)
LEMMA AgreeAdd ==
  ASSUME NEW q \in Queues, NEW bits \in [Cpus -> SUBSET Prios], NEW n \in [Cpus -> Int],
         NEW R, R \subseteq Threads, NEW cp \in [Threads -> Cpus], NEW pr \in [Threads -> Prios],
         Agree(q, bits, n, R, cp, pr), NEW t \in Threads, t \notin R
  PROVE  /\ AddQ(q, cp[t], pr[t], t) \in Queues
         /\ Agree(AddQ(q, cp[t], pr[t], t), [bits EXCEPT ![cp[t]] = @ \cup {pr[t]}],
                  [n EXCEPT ![cp[t]] = @ + 1], R \cup {t}, cp, pr)
<1> DEFINE c0 == cp[t]
           p0 == pr[t]
           r == AddQ(q, c0, p0, t)
           b == [bits EXCEPT ![c0] = @ \cup {p0}]
           m == [n EXCEPT ![c0] = @ + 1]
<1>a. \A c \in Cpus : AgreeAt(q, bits, n, R, cp, pr, c)
  BY AgreeIs
<1>0. c0 \in Cpus /\ p0 \in Prios
  OBVIOUS
<1>1. \A c \in Cpus, p \in Prios : r[c][p] = IF c = c0 /\ p = p0 THEN Append(q[c][p], t) ELSE q[c][p]
  BY <1>0 DEF AddQ, Queues
<1>2. r \in [Cpus -> [Prios -> {r[c][p] : c \in Cpus, p \in Prios}]]
  <2>1. r = [c \in Cpus |-> r[c]]
    BY DEF AddQ, Queues
  <2>2. ASSUME NEW c \in Cpus PROVE r[c] = [p \in Prios |-> r[c][p]]
    BY <1>0 DEF AddQ, Queues
  <2> HIDE DEF r
  <2> DEFINE all == {r[k][p] : k \in Cpus, p \in Prios}
  <2>3. \A c \in Cpus, p \in Prios : r[c][p] \in all
    OBVIOUS
  <2> HIDE DEF all
  <2>4. \A c \in Cpus : r[c] \in [Prios -> all]
    BY <2>2, <2>3
  <2>5. r \in [Cpus -> [Prios -> all]]
    BY <2>1, <2>4
  <2> QED BY <2>5 DEF all
<1>3. \A c \in Cpus : b[c] = IF c = c0 THEN bits[c] \cup {p0} ELSE bits[c]
  BY <1>0
<1>4. \A c \in Cpus : m[c] = IF c = c0 THEN n[c] + 1 ELSE n[c]
  BY <1>0
<1> HIDE DEF r, b, m, c0, p0
<1>5. ASSUME NEW c \in Cpus, NEW p \in Prios
      PROVE  /\ r[c][p] \in Seq(Threads) /\ IsInjective(r[c][p])
             /\ \A u : u \in ToSet(r[c][p]) <=> u \in R \cup {t} /\ cp[u] = c /\ pr[u] = p
  <2>0. q[c][p] \in Seq(Threads)
    BY DEF Queues
  <2>a. AgreeAt(q, bits, n, R, cp, pr, c)
    BY <1>a
  <2>b. IsInjective(q[c][p]) /\ \A u : u \in ToSet(q[c][p]) <=> u \in R /\ cp[u] = c /\ pr[u] = p
    BY <2>a DEF AgreeAt
  <2>1. /\ q[c][p] \in Seq(Threads) /\ IsInjective(q[c][p])
        /\ \A u : u \in ToSet(q[c][p]) <=> u \in R /\ cp[u] = c /\ pr[u] = p
    BY <2>0, <2>b
  <2>2. CASE c = c0 /\ p = p0
    <3>1. t \notin ToSet(q[c][p])
      BY <2>1
    <3>2. /\ Append(q[c][p], t) \in Seq(Threads) /\ IsInjective(Append(q[c][p], t))
          /\ ToSet(Append(q[c][p], t)) = ToSet(q[c][p]) \cup {t}
      BY <2>1, <3>1, AppendMembers
    <3> QED BY <1>1, <2>1, <2>2, <3>2 DEF c0, p0
  <2>3. CASE ~(c = c0 /\ p = p0)
    BY <1>1, <2>1, <2>3 DEF c0, p0
  <2> QED BY <2>2, <2>3
<1>6. r \in Queues
  BY <1>2, <1>5 DEF Queues
<1>7. ASSUME NEW c \in Cpus
      PROVE  /\ \A p \in Prios : p \in b[c] <=> \E u \in R \cup {t} : cp[u] = c /\ pr[u] = p
             /\ b[c] \subseteq Prios
  <2>1. /\ \A p \in Prios : p \in bits[c] <=> \E u \in R : cp[u] = c /\ pr[u] = p
        /\ bits[c] \subseteq Prios
    BY <1>a DEF AgreeAt
  <2>2. CASE c = c0
    <3>1. b[c] = bits[c] \cup {p0} /\ cp[t] = c /\ pr[t] = p0
      BY <1>3, <2>2 DEF c0, p0
    <3>2. ASSUME NEW p \in Prios PROVE p \in b[c] <=> \E u \in R \cup {t} : cp[u] = c /\ pr[u] = p
      <4>1. CASE p = p0
        BY <3>1, <4>1
      <4>2. CASE p # p0
        <5>1. p \in b[c] <=> p \in bits[c]
          BY <3>1, <4>2
        <5>2. (\E u \in R \cup {t} : cp[u] = c /\ pr[u] = p) <=> \E u \in R : cp[u] = c /\ pr[u] = p
          BY <3>1, <4>2
        <5> QED BY <2>1, <5>1, <5>2
      <4> QED BY <4>1, <4>2
    <3> QED BY <1>0, <2>1, <3>1, <3>2
  <2>3. CASE c # c0
    <3>1. cp[t] # c /\ b[c] = bits[c]
      BY <1>3, <2>3 DEF c0
    <3> QED BY <2>1, <3>1
  <2> QED BY <2>2, <2>3
<1>8. ASSUME NEW c \in Cpus PROVE m[c] = Cardinality({u \in R \cup {t} : cp[u] = c})
  <2> DEFINE A == {u \in R : cp[u] = c}
             B == {u \in R \cup {t} : cp[u] = c}
  <2>1. n[c] = Cardinality(A)
    BY <1>a DEF AgreeAt
  <2>2. IsFiniteSet(A)
    BY SetsAssumption, FS_Subset
  <2>3. CASE c = c0
    <3>1. B = A \cup {t} /\ t \notin A
      BY <2>3 DEF c0
    <3>2. Cardinality(A \cup {t}) = Cardinality(A) + 1
      BY <2>2, <3>1, FS_AddElement
    <3> QED BY <1>4, <2>1, <2>3, <3>1, <3>2
  <2>4. CASE c # c0
    <3>1. B = A
      BY <2>4 DEF c0
    <3> QED BY <1>4, <2>1, <2>4, <3>1
  <2> QED BY <2>3, <2>4
<1>9. Agree(r, b, m, R \cup {t}, cp, pr)
  <2>1. ASSUME NEW c \in Cpus PROVE AgreeAt(r, b, m, R \cup {t}, cp, pr, c)
    BY <1>5, <1>7, <1>8 DEF AgreeAt
  <2> QED BY <1>6, <2>1, AgreeIs
<1> QED BY <1>6, <1>9 DEF r, b, m, c0, p0

(* acoral_sched_rdyqueue_del keeps lists, bits and counters in agreement   *)
(* with the threads queued.                                                *)
LEMMA AgreeDel ==
  ASSUME NEW q \in Queues, NEW bits \in [Cpus -> SUBSET Prios], NEW n \in [Cpus -> Int],
         NEW R, R \subseteq Threads, NEW cp \in [Threads -> Cpus], NEW pr \in [Threads -> Prios],
         Agree(q, bits, n, R, cp, pr), NEW t \in R
  PROVE  /\ DelQ(q, t) \in Queues
         /\ Agree(DelQ(q, t), ClearedBits(DelQ(q, t), bits, cp[t], pr[t]),
                  [n EXCEPT ![cp[t]] = @ - 1], R \ {t}, cp, pr)
<1> DEFINE c0 == cp[t]
           p0 == pr[t]
           r == DelQ(q, t)
           b == ClearedBits(r, bits, c0, p0)
           m == [n EXCEPT ![c0] = @ - 1]
<1>a. \A c \in Cpus : AgreeAt(q, bits, n, R, cp, pr, c)
  BY AgreeIs
<1>0. c0 \in Cpus /\ p0 \in Prios
  OBVIOUS
<1>1. \A c \in Cpus, p \in Prios : r[c][p] = RemoveFirst(q[c][p], t)
  BY DEF DelQ
<1>2. r \in [Cpus -> [Prios -> {r[c][p] : c \in Cpus, p \in Prios}]]
  BY DEF DelQ
<1>3. \A c \in Cpus : b[c] = IF c = c0 /\ r[c0][p0] = << >> THEN bits[c] \ {p0} ELSE bits[c]
  BY <1>0 DEF ClearedBits
<1>4. \A c \in Cpus : m[c] = IF c = c0 THEN n[c] - 1 ELSE n[c]
  BY <1>0
<1> HIDE DEF r, b, m, c0, p0
<1>5. ASSUME NEW c \in Cpus, NEW p \in Prios
      PROVE  /\ r[c][p] \in Seq(Threads) /\ IsInjective(r[c][p])
             /\ \A u : u \in ToSet(r[c][p]) <=> u \in R \ {t} /\ cp[u] = c /\ pr[u] = p
  <2>0. q[c][p] \in Seq(Threads)
    BY DEF Queues
  <2>a. AgreeAt(q, bits, n, R, cp, pr, c)
    BY <1>a
  <2>b. IsInjective(q[c][p]) /\ \A u : u \in ToSet(q[c][p]) <=> u \in R /\ cp[u] = c /\ pr[u] = p
    BY <2>a DEF AgreeAt
  <2>1. /\ q[c][p] \in Seq(Threads) /\ IsInjective(q[c][p])
        /\ \A u : u \in ToSet(q[c][p]) <=> u \in R /\ cp[u] = c /\ pr[u] = p
    BY <2>0, <2>b
  <2>2. /\ RemoveFirst(q[c][p], t) \in Seq(Threads) /\ IsInjective(RemoveFirst(q[c][p], t))
        /\ ToSet(RemoveFirst(q[c][p], t)) = ToSet(q[c][p]) \ {t}
    BY <2>1, RemoveFirstMembers
  <2> QED BY <1>1, <2>1, <2>2
<1>6. r \in Queues
  BY <1>2, <1>5 DEF Queues
<1>7. ASSUME NEW c \in Cpus
      PROVE  /\ \A p \in Prios : p \in b[c] <=> \E u \in R \ {t} : cp[u] = c /\ pr[u] = p
             /\ b[c] \subseteq Prios
  <2>1. /\ \A p \in Prios : p \in bits[c] <=> \E u \in R : cp[u] = c /\ pr[u] = p
        /\ bits[c] \subseteq Prios
    BY <1>a DEF AgreeAt
  <2>2. r[c0][p0] = << >> <=> ~ \E u \in R \ {t} : cp[u] = c0 /\ pr[u] = p0
    <3>1. r[c0][p0] = << >> <=> ToSet(r[c0][p0]) = {}
      BY <1>0, <1>5, EmptyMembers
    <3>2. \A u : u \in ToSet(r[c0][p0]) <=> u \in R \ {t} /\ cp[u] = c0 /\ pr[u] = p0
      BY <1>0, <1>5
    <3> QED BY <3>1, <3>2
  <2>3. CASE c = c0
    <3>1. ASSUME NEW p \in Prios PROVE p \in b[c] <=> \E u \in R \ {t} : cp[u] = c /\ pr[u] = p
      <4>1. CASE p = p0
        BY <1>3, <2>1, <2>2, <2>3, <4>1
      <4>2. CASE p # p0
        <5>1. p \in b[c] <=> p \in bits[c]
          BY <1>3, <4>2
        <5>2. pr[t] # p
          BY <4>2 DEF p0
        <5> QED BY <2>1, <5>1, <5>2
      <4> QED BY <4>1, <4>2
    <3> QED BY <1>3, <2>1, <3>1
  <2>4. CASE c # c0
    <3>1. cp[t] # c /\ b[c] = bits[c]
      BY <1>3, <2>4 DEF c0
    <3> QED BY <2>1, <3>1
  <2> QED BY <2>3, <2>4
<1>8. ASSUME NEW c \in Cpus PROVE m[c] = Cardinality({u \in R \ {t} : cp[u] = c})
  <2> DEFINE A == {u \in R : cp[u] = c}
             B == {u \in R \ {t} : cp[u] = c}
  <2>1. n[c] = Cardinality(A)
    BY <1>a DEF AgreeAt
  <2>2. IsFiniteSet(A)
    BY SetsAssumption, FS_Subset
  <2>3. CASE c = c0
    <3>1. B = A \ {t} /\ t \in A
      BY <2>3 DEF c0
    <3>2. Cardinality(A \ {t}) = Cardinality(A) - 1
      BY <2>2, <3>1, FS_RemoveElement
    <3> QED BY <1>4, <2>1, <2>3, <3>1, <3>2
  <2>4. CASE c # c0
    <3>1. B = A
      BY <2>4 DEF c0
    <3> QED BY <1>4, <2>1, <2>4, <3>1
  <2> QED BY <2>3, <2>4
<1>9. Agree(r, b, m, R \ {t}, cp, pr)
  <2>1. ASSUME NEW c \in Cpus PROVE AgreeAt(r, b, m, R \ {t}, cp, pr, c)
    BY <1>5, <1>7, <1>8 DEF AgreeAt
  <2> QED BY <1>6, <2>1, AgreeIs
<1> QED BY <1>6, <1>9 DEF r, b, m, c0, p0

(* Where a thread that is in no list belongs does not matter. *)
LEMMA AgreeElsewhere ==
  ASSUME NEW q \in Queues, NEW bits, NEW n, NEW R, R \subseteq Threads,
         NEW cp, NEW pr, NEW cp1, NEW pr1,
         \A u \in R : cp1[u] = cp[u] /\ pr1[u] = pr[u], Agree(q, bits, n, R, cp, pr)
  PROVE  Agree(q, bits, n, R, cp1, pr1)
<1>1. \A c \in Cpus : {u \in R : cp1[u] = c} = {u \in R : cp[u] = c}
  OBVIOUS
<1>2. \A c \in Cpus, p \in Prios :
        {u \in R : cp1[u] = c /\ pr1[u] = p} = {u \in R : cp[u] = c /\ pr[u] = p}
  OBVIOUS
<1> QED BY <1>1, <1>2 DEF Agree

-----------------------------------------------------------------------------
(* Flags, ready queues and running threads *)

(* acoral_select_thread finds a ready thread of its CPU. *)
LEMMA SelectedFrom ==
  ASSUME queue \in Queues, prio \in [Threads -> Prios], Lists, IdleInv, NEW c \in Cpus
  PROVE  Selected(c) \in Threads /\ Ready(Selected(c)) /\ cpu[Selected(c)] = c
<1>1. queue \in Queues /\ prio \in [Threads -> Prios] /\ Idle[c] \in Threads
  BY ThreadAssumption
<1>2. AgreeAt(queue, bitmap, num, ReadySet, cpu, prio, c)
  BY <1>1, AgreeIs DEF Lists
<1>3. Idle[c] \in ReadySet /\ cpu[Idle[c]] = c
  BY <1>1 DEF IdleInv, ReadySet
<1>4. prio[Idle[c]] \in bitmap[c] /\ bitmap[c] \subseteq Prios
  BY <1>1, <1>2, <1>3 DEF AgreeAt
<1>5. Min(bitmap[c]) \in bitmap[c]
  BY <1>4, SetsAssumption, MinOfNats
<1> DEFINE p == Min(bitmap[c])
<1> HIDE DEF p
<1>6. p \in Prios /\ p \in bitmap[c]
  BY <1>4, <1>5 DEF p
<1>7. PICK t \in ReadySet : cpu[t] = c /\ prio[t] = p
  BY <1>2, <1>6 DEF AgreeAt
<1>8. t \in ToSet(queue[c][p]) /\ queue[c][p] \in Seq(Threads)
  BY <1>1, <1>2, <1>6, <1>7 DEF AgreeAt, Queues
<1>9. queue[c][p] # << >>
  BY <1>8, EmptyMembers
<1>10. Head(queue[c][p]) \in ToSet(queue[c][p])
  BY <1>8, <1>9, HeadMember
<1>11. Head(queue[c][p]) \in ReadySet /\ cpu[Head(queue[c][p])] = c
  BY <1>2, <1>6, <1>10 DEF AgreeAt
<1> QED BY <1>11 DEF Selected, ReadySet, p

(* acoral_select_thread under the invariant. *)
LEMMA SelectedReady ==
  ASSUME Data, NEW c \in Cpus
  PROVE  Selected(c) \in Threads /\ Ready(Selected(c)) /\ cpu[Selected(c)] = c
  BY SelectedFrom DEF Data, Shape

(* A running thread belongs to one CPU. *)
LEMMA RunsOnce ==
  ASSUME RunInv, NEW c \in Cpus, NEW d \in Cpus, running[c] = running[d]
  PROVE  c = d
  BY DEF RunInv

SameFlags ==
  \A t \in Threads : (Ready(t)' <=> Ready(t)) /\ (Asleep(t)' <=> Asleep(t))

(* acoral_switch_context: what it leaves to a migrating thread is a lock   *)
(* while it still runs.                                                    *)
LEMMA SwitchKeeps ==
  ASSUME Data, NEW c \in Cpus, SwitchContext(c), UNCHANGED <<cpu, prio, queue, bitmap, num>>
  PROVE  /\ Data' /\ SameFlags
         /\ \A d \in Cpus : d # c => running'[d] = running[d]
         /\ \A t \in Threads : (Asleep(t) /\ running'[cpu[t]] = t) =>
              /\ running[cpu[t]] = t
              /\ "MOVE" \in state[t] => "MOVE" \in state'[t]
              /\ t \in move_lock => t \in move_lock'
<1> DEFINE prev == running[c]
           next == Selected(c)
<1>0. /\ Shape /\ FlagsInv /\ Lists /\ RunInv /\ IdleInv /\ UrgentInv
      /\ prev \in Threads /\ cpu[prev] = c /\ running \in [Cpus -> Threads] /\ state \in [Threads -> SUBSET Flags]
  BY DEF Data, Shape, RunInv
<1>1. next \in Threads /\ Ready(next) /\ cpu[next] = c
  BY SelectedReady
<1>2. need_sched' = need_sched \ {c}
  BY DEF SwitchContext
<1>3. \A d \in Cpus : Selected(d)' = Selected(d)
  BY DEF Selected
<1>s. ASSUME state' \in [Threads -> SUBSET Flags], running' \in [Cpus -> Threads], move_lock' \subseteq Threads,
             SameFlags, FlagsInv'
      PROVE  Shape' /\ Lists' /\ IdleInv'
  <2>1. ReadySet' = ReadySet
    BY <1>s DEF SameFlags, ReadySet
  <2>2. Lists'
    BY <1>0, <2>1 DEF Lists
  <2>3. IdleInv'
    BY <1>0, <1>s, ThreadAssumption DEF IdleInv, SameFlags
  <2> QED BY <1>0, <1>2, <1>s, <2>2, <2>3 DEF Shape
<1>4. CASE prev # next /\ (state[prev] = {"EXIT"} \/ CanSwitch(prev, next))
  <2> DEFINE left == IF state[prev] = {"EXIT"} THEN {"RELEASE"} ELSE state[prev] \ {"RUNNING", "MOVE"}
  <2>1. /\ running' = [running EXCEPT ![c] = next]
        /\ state' = [state EXCEPT ![prev] = left, ![next] = @ \cup {"RUNNING"}]
        /\ move_lock' = LocksAfter(prev)
    BY <1>4 DEF SwitchContext
  <2>2. left \in SUBSET Flags
    BY <1>0 DEF Flags
  <2> HIDE DEF left
  <2>3. /\ state' \in [Threads -> SUBSET Flags]
        /\ \A t \in Threads : state'[t] = IF t = prev THEN left
                                          ELSE IF t = next THEN state[t] \cup {"RUNNING"} ELSE state[t]
    <3>1. state[next] \cup {"RUNNING"} \in SUBSET Flags
      BY <1>0, <1>1 DEF Flags
    <3> HIDE DEF prev, next
    <3> QED BY <1>0, <1>1, <1>4, <2>1, <2>2, <3>1
  <2>4. /\ running' \in [Cpus -> Threads] /\ running'[c] = next
        /\ \A d \in Cpus : d # c => running'[d] = running[d]
    BY <1>0, <1>1, <2>1
  <2>5. /\ "READY" \in left <=> Ready(prev)
        /\ "SUSPEND" \in left <=> Asleep(prev)
    BY DEF left, Ready, Asleep
  <2>6. SameFlags
    BY <2>3, <2>5 DEF SameFlags, Ready, Asleep
  <2>7. FlagsInv'
    <3> SUFFICES ASSUME NEW t \in Threads, state'[t] \notin Dead
        PROVE "EXIT" \notin state'[t] /\ "RELEASE" \notin state'[t] /\ "FREE" \notin state'[t]
              /\ (Ready(t)' <=> ~Asleep(t)')
      BY DEF FlagsInv
    <3>1. CASE t = prev
      <4>1. state'[t] = left
        BY <2>3, <3>1
      <4>2. state[prev] # {"EXIT"}
        BY <4>1 DEF left, Dead
      <4>3. left = state[prev] \ {"RUNNING", "MOVE"}
        BY <4>2 DEF left
      <4>4. state[prev] \notin Dead
        <5>1. state[prev] # {"RELEASE"} /\ state[prev] # {"FREE"}
          BY <1>0 DEF RunInv, Ready, Asleep
        <5> QED BY <4>2, <5>1 DEF Dead
      <4> QED BY <1>0, <2>6, <3>1, <4>1, <4>3, <4>4 DEF FlagsInv, SameFlags
    <3>2. CASE t = next /\ t # prev
      <4>1. state'[t] = state[t] \cup {"RUNNING"} /\ state[t] \notin Dead
        BY <1>1, <2>3, <3>2 DEF Dead, Ready
      <4> QED BY <1>0, <2>6, <4>1 DEF FlagsInv, SameFlags
    <3>3. CASE t # next /\ t # prev
      BY <1>0, <2>3, <3>3 DEF FlagsInv, Ready, Asleep
    <3> QED BY <3>1, <3>2, <3>3
  <2>8. move_lock' \subseteq Threads /\ \A t \in Threads : t # prev /\ t \in move_lock => t \in move_lock'
    BY <1>0, <2>1 DEF LocksAfter, Shape
  <2>9. RunInv'
    <3> SUFFICES ASSUME NEW d \in Cpus
        PROVE  /\ cpu[running'[d]] = d
               /\ \/ Ready(running[d])'
                  \/ d \in need_sched' /\ (Asleep(running[d])' \/ state'[running'[d]] = {"EXIT"})
      BY DEF RunInv
    <3>1. CASE d = c
      BY <1>1, <2>4, <2>6, <3>1 DEF SameFlags, Ready
    <3>2. CASE d # c
      <4>1. running[d] \in Threads /\ running'[d] = running[d] /\ running[d] # prev /\ running[d] # next
            /\ cpu[running[d]] = d
        BY <1>0, <1>1, <2>4, <3>2 DEF RunInv
      <4>2. state'[running[d]] = state[running[d]]
        BY <2>3, <4>1
      <4> QED BY <1>0, <1>2, <3>2, <4>1, <4>2 DEF RunInv, Ready, Asleep
    <3> QED BY <3>1, <3>2
  <2>10. UrgentInv'
    <3> SUFFICES ASSUME NEW d \in Cpus, d \notin need_sched'
        PROVE  running'[d] = Selected(d) \/ ~CanSwitch(running[d], Selected(d))'
      BY <1>3 DEF UrgentInv
    <3>1. CASE d # c
      <4>1. running[d] \in Threads /\ running'[d] = running[d]
        BY <1>0, <2>4, <3>1
      <4>2. "SUSPEND" \in state'[running[d]] <=> "SUSPEND" \in state[running[d]]
        BY <2>6, <4>1 DEF SameFlags, Asleep
      <4>3. running[d] = Selected(d) \/ ~CanSwitch(running[d], Selected(d))
        BY <1>0, <1>2, <3>1 DEF UrgentInv
      <4> QED BY <1>3, <4>1, <4>2, <4>3 DEF CanSwitch
    <3> QED BY <2>4, <3>1
  <2>11. \A t \in Threads : (Asleep(t) /\ running'[cpu[t]] = t) =>
              /\ running[cpu[t]] = t
              /\ "MOVE" \in state[t] => "MOVE" \in state'[t]
              /\ t \in move_lock => t \in move_lock'
    <3> SUFFICES ASSUME NEW t \in Threads, Asleep(t), running'[cpu[t]] = t
        PROVE running[cpu[t]] = t /\ ("MOVE" \in state[t] => "MOVE" \in state'[t])
              /\ (t \in move_lock => t \in move_lock')
      OBVIOUS
    <3>1. t # next
      <4>1. next \in Threads /\ state[next] \notin Dead
        BY <1>1 DEF Ready, Dead
      <4> QED BY <1>0, <1>1, <4>1 DEF FlagsInv
    <3>2. cpu[t] # c /\ cpu[t] \in Cpus
      BY <1>0, <2>4, <3>1 DEF Shape
    <3>3. t # prev
      BY <1>0, <3>2
    <3> QED BY <2>3, <2>4, <2>8, <3>1, <3>2, <3>3
  <2> QED BY <1>s, <2>3, <2>4, <2>6, <2>7, <2>8, <2>9, <2>10, <2>11 DEF Data
<1>5. CASE ~(prev # next /\ (state[prev] = {"EXIT"} \/ CanSwitch(prev, next)))
  <2>1. UNCHANGED <<running, state, move_lock>>
    BY <1>5 DEF SwitchContext
  <2>2. SameFlags /\ FlagsInv'
    BY <1>0, <2>1 DEF SameFlags, FlagsInv, Ready, Asleep
  <2>3. Ready(prev)
    <3>1. CASE prev = next
      BY <1>1, <3>1
    <3>2. CASE prev # next
      BY <1>0, <1>5, <3>2 DEF RunInv, CanSwitch, Asleep
    <3> QED BY <3>1, <3>2
  <2>4. RunInv'
    BY <1>0, <1>2, <2>1, <2>3 DEF RunInv, Ready, Asleep
  <2>5. UrgentInv'
    <3> SUFFICES ASSUME NEW d \in Cpus, d \notin need_sched'
        PROVE  running[d] = Selected(d) \/ ~CanSwitch(running[d], Selected(d))
      BY <1>3, <2>1 DEF UrgentInv, CanSwitch
    <3>1. CASE d = c
      BY <1>5, <3>1
    <3>2. CASE d # c
      BY <1>0, <1>2, <3>2 DEF UrgentInv
    <3> QED BY <3>1, <3>2
  <2>6. Shape' /\ Lists' /\ IdleInv'
    <3>1. state' \in [Threads -> SUBSET Flags] /\ running' \in [Cpus -> Threads] /\ move_lock' \subseteq Threads
      BY <1>0, <2>1 DEF Shape
    <3> QED BY <1>s, <2>2, <3>1
  <2> QED BY <2>1, <2>2, <2>4, <2>5, <2>6 DEF Data
<1> QED BY <1>4, <1>5

(* A context of CPU c changes one thread of the CPU and asks for a switch. *)
Touches(c, t) ==
  /\ cpu[t] = c /\ running' = running /\ cpu' = cpu
  /\ need_sched' = need_sched \cup {c}
  /\ \A u \in Threads : u # t => state'[u] = state[u]
  /\ \A d \in Cpus : d # c => queue'[d] = queue[d] /\ bitmap'[d] = bitmap[d]

(* Such a change keeps Data, if the lists agree again and the thread is    *)
(* left ready, suspended or killed.                                        *)
LEMMA TouchKeeps ==
  ASSUME Data, NEW c \in Cpus, NEW t \in Threads, Touches(c, t), Shape', FlagsInv', Lists',
         Ready(t)' \/ \A d \in Cpus : t # Idle[d],
         Ready(t)' \/ Asleep(t)' \/ state'[t] = {"EXIT"}
  PROVE  Data'
<1>0. /\ RunInv /\ IdleInv /\ UrgentInv /\ running \in [Cpus -> Threads]
      /\ \A d \in Cpus : Idle[d] \in Threads
  BY ThreadAssumption DEF Data, Shape
<1>1. /\ cpu[t] = c /\ running' = running /\ cpu' = cpu /\ need_sched' = need_sched \cup {c}
      /\ \A u \in Threads : u # t => state'[u] = state[u]
      /\ \A d \in Cpus : d # c => queue'[d] = queue[d] /\ bitmap'[d] = bitmap[d]
  BY DEF Touches
<1>2. \A d \in Cpus : d # c => running[d] \in Threads /\ running[d] # t
  BY <1>0, <1>1 DEF RunInv
<1>3. RunInv'
  <2> SUFFICES ASSUME NEW d \in Cpus
      PROVE  /\ cpu[running[d]] = d
             /\ \/ Ready(running[d])'
                \/ d \in need_sched' /\ (Asleep(running[d])' \/ state'[running[d]] = {"EXIT"})
    BY <1>1 DEF RunInv
  <2>1. CASE running[d] = t
    <3>1. d = c
      BY <1>2, <2>1
    <3> QED BY <1>0, <1>1, <2>1, <3>1 DEF RunInv, Ready, Asleep
  <2>2. CASE running[d] # t
    <3>1. state'[running[d]] = state[running[d]]
      BY <1>0, <1>1, <2>2
    <3> QED BY <1>0, <1>1, <3>1 DEF RunInv, Ready, Asleep
  <2> QED BY <2>1, <2>2
<1>4. IdleInv'
  <2> SUFFICES ASSUME NEW d \in Cpus PROVE Ready(Idle[d])' /\ cpu[Idle[d]] = d
    BY <1>1 DEF IdleInv
  <2>1. CASE Idle[d] = t
    BY <1>0, <2>1 DEF IdleInv, Ready
  <2>2. CASE Idle[d] # t
    BY <1>0, <1>1, <2>2 DEF IdleInv, Ready
  <2> QED BY <2>1, <2>2
<1>5. UrgentInv'
  <2> SUFFICES ASSUME NEW d \in Cpus, d \notin need_sched'
      PROVE  running[d] = Selected(d)' \/ ~CanSwitch(running[d], Selected(d))'
    BY <1>1 DEF UrgentInv
  <2>1. d # c /\ d \notin need_sched
    BY <1>1
  <2>2. Selected(d)' = Selected(d)
    BY <1>1, <2>1 DEF Selected
  <2>3. state'[running[d]] = state[running[d]]
    BY <1>1, <1>2, <2>1
  <2>4. running[d] = Selected(d) \/ ~CanSwitch(running[d], Selected(d))
    BY <1>0, <2>1 DEF UrgentInv
  <2> QED BY <1>1, <2>2, <2>3, <2>4 DEF CanSwitch
<1> QED BY <1>3, <1>4, <1>5 DEF Data

(* A thread that is not ready changes, and no queue does. *)
Outside(t) ==
  /\ UNCHANGED <<queue, bitmap, num, running, need_sched>>
  /\ \A u \in Threads : u # t => state'[u] = state[u] /\ cpu'[u] = cpu[u] /\ prio'[u] = prio[u]

(* Such a change keeps Data, if a CPU that runs the thread owes a switch   *)
(* away from it.                                                           *)
LEMMA OutsideKeeps ==
  ASSUME Data, NEW t \in Threads, Outside(t), Shape', FlagsInv', ~Ready(t), ~Ready(t)',
         \A d \in Cpus : running[d] = t =>
           cpu'[t] = cpu[t] /\ (Asleep(t)' \/ state'[t] = {"EXIT"})
  PROVE  Data'
<1>0. /\ RunInv /\ IdleInv /\ UrgentInv /\ Lists /\ running \in [Cpus -> Threads] /\ queue \in Queues
      /\ \A d \in Cpus : Idle[d] \in Threads
  BY ThreadAssumption DEF Data, Shape
<1>1. /\ UNCHANGED <<queue, bitmap, num, running, need_sched>>
      /\ \A u \in Threads : u # t => state'[u] = state[u] /\ cpu'[u] = cpu[u] /\ prio'[u] = prio[u]
  BY DEF Outside
<1>2. ReadySet' = ReadySet
  BY <1>1 DEF ReadySet, Ready
<1>3. Lists'
  <2>1. ReadySet \subseteq Threads /\ \A u \in ReadySet : cpu'[u] = cpu[u] /\ prio'[u] = prio[u]
    BY <1>1 DEF ReadySet, Ready
  <2>2. Agree(queue, bitmap, num, ReadySet, cpu, prio)
    BY <1>0 DEF Lists
  <2>3. Agree(queue, bitmap, num, ReadySet, cpu', prio')
    BY <1>0, <2>1, <2>2, AgreeElsewhere
  <2> QED BY <1>1, <1>2, <2>3 DEF Lists
<1>4. RunInv'
  <2> SUFFICES ASSUME NEW d \in Cpus
      PROVE  /\ cpu'[running[d]] = d
             /\ \/ Ready(running[d])'
                \/ d \in need_sched /\ (Asleep(running[d])' \/ state'[running[d]] = {"EXIT"})
    BY <1>1 DEF RunInv
  <2>1. CASE running[d] = t
    BY <1>0, <1>1, <2>1 DEF RunInv
  <2>2. CASE running[d] # t
    <3>1. running[d] \in Threads /\ state'[running[d]] = state[running[d]] /\ cpu'[running[d]] = cpu[running[d]]
      BY <1>0, <1>1, <2>2
    <3> QED BY <1>0, <1>1, <3>1 DEF RunInv, Ready, Asleep
  <2> QED BY <2>1, <2>2
<1>5. IdleInv'
  BY <1>0, <1>1 DEF IdleInv, Ready
<1>6. UrgentInv'
  <2> SUFFICES ASSUME NEW d \in Cpus, d \notin need_sched
      PROVE  running[d] = Selected(d)' \/ ~CanSwitch(running[d], Selected(d))'
    BY <1>1 DEF UrgentInv
  <2>1. Selected(d)' = Selected(d)
    BY <1>1 DEF Selected
  <2>2. state'[running[d]] = state[running[d]]
    BY <1>0, <1>1 DEF RunInv
  <2>4. running[d] = Selected(d) \/ ~CanSwitch(running[d], Selected(d))
    BY <1>0 DEF UrgentInv
  <2> QED BY <1>1, <2>1, <2>2, <2>4 DEF CanSwitch
<1> QED BY <1>3, <1>4, <1>5, <1>6 DEF Data

(* acoral_sched_rdyqueue_add, for a thread that is suspended. *)
LEMMA AddKeeps ==
  ASSUME Data, NEW c \in Cpus, NEW t \in Threads, Asleep(t), cpu[t] = c, RdyQueueAdd(c, t),
         UNCHANGED <<cpu, prio, running>>, move_lock' \subseteq Threads
  PROVE  /\ Data' /\ Ready(t)' /\ ~Asleep(t)'
         /\ \A u \in Threads : u # t => state'[u] = state[u]
<1>0. /\ Shape /\ FlagsInv /\ Lists
      /\ state \in [Threads -> SUBSET Flags] /\ cpu \in [Threads -> Cpus] /\ prio \in [Threads -> Prios]
      /\ queue \in Queues /\ bitmap \in [Cpus -> SUBSET Prios] /\ num \in [Cpus -> Int]
      /\ running \in [Cpus -> Threads] /\ need_sched \subseteq Cpus
  BY DEF Data, Shape
<1>1. /\ queue' = AddQ(queue, c, prio[t], t)
      /\ bitmap' = [bitmap EXCEPT ![c] = @ \cup {prio[t]}]
      /\ num' = [num EXCEPT ![c] = @ + 1]
      /\ state' = [state EXCEPT ![t] = AddFlags(@)]
      /\ need_sched' = need_sched \cup {c}
  BY DEF RdyQueueAdd
<1>2. state[t] \notin Dead /\ ~Ready(t)
  <2>1. state[t] \notin Dead
    BY DEF Asleep, Dead
  <2> QED BY <1>0, <2>1 DEF FlagsInv
<1>3. AddFlags(state[t]) \in SUBSET Flags /\ "READY" \in AddFlags(state[t]) /\ "SUSPEND" \notin AddFlags(state[t])
      /\ \A f \in {"EXIT", "RELEASE", "FREE"} : f \in AddFlags(state[t]) => f \in state[t]
  BY <1>0 DEF AddFlags, Flags
<1>4. /\ state' \in [Threads -> SUBSET Flags] /\ state'[t] = AddFlags(state[t])
      /\ \A u \in Threads : u # t => state'[u] = state[u]
  BY <1>0, <1>1, <1>3
<1>5. Ready(t)' /\ ~Asleep(t)'
  BY <1>3, <1>4 DEF Ready, Asleep
<1>6. FlagsInv'
  <2>1. ASSUME NEW u \in Threads, u # t
        PROVE \/ state'[u] \in Dead
              \/ "EXIT" \notin state'[u] /\ "RELEASE" \notin state'[u] /\ "FREE" \notin state'[u] /\ (Ready(u)' <=> ~Asleep(u)')
    BY <1>0, <1>4, <2>1 DEF FlagsInv, Ready, Asleep
  <2>2. "EXIT" \notin state'[t] /\ "RELEASE" \notin state'[t] /\ "FREE" \notin state'[t]
    BY <1>0, <1>2, <1>3, <1>4 DEF FlagsInv
  <2> QED BY <1>5, <2>1, <2>2 DEF FlagsInv
<1>7. ReadySet' = ReadySet \cup {t} /\ t \notin ReadySet /\ ReadySet \subseteq Threads
  BY <1>2, <1>4, <1>5 DEF ReadySet, Ready
<1>8. queue' \in Queues /\ Lists'
  <2>1. Agree(queue, bitmap, num, ReadySet, cpu, prio)
    BY <1>0 DEF Lists
  <2>2. /\ AddQ(queue, cpu[t], prio[t], t) \in Queues
        /\ Agree(AddQ(queue, cpu[t], prio[t], t), [bitmap EXCEPT ![cpu[t]] = @ \cup {prio[t]}],
                 [num EXCEPT ![cpu[t]] = @ + 1], ReadySet \cup {t}, cpu, prio)
    BY <1>0, <1>7, <2>1, AgreeAdd
  <2>3. /\ queue' \in Queues
        /\ Agree(queue', bitmap', num', ReadySet', cpu, prio)
    BY <1>1, <1>7, <2>2
  <2> QED BY <2>3 DEF Lists
<1>9. Shape'
  <2>1. bitmap' \in [Cpus -> SUBSET Prios] /\ num' \in [Cpus -> Int] /\ need_sched' \subseteq Cpus
    BY <1>0, <1>1
  <2> QED BY <1>0, <1>4, <1>8, <2>1 DEF Shape
<1>10. Touches(c, t)
  <2>1. \A d \in Cpus : d # c => queue'[d] = queue[d] /\ bitmap'[d] = bitmap[d]
    BY <1>0, <1>1 DEF AddQ, Queues
  <2> QED BY <1>1, <1>4, <2>1 DEF Touches
<1> QED BY <1>4, <1>5, <1>6, <1>8, <1>9, <1>10, TouchKeeps

(* The queues of the other CPUs do not hold the thread that is taken out.  *)
LEMMA DelElsewhere ==
  ASSUME Data, NEW t \in Threads, NEW d \in Cpus, d # cpu[t]
  PROVE  DelQ(queue, t)[d] = queue[d]
<1>0. queue \in Queues /\ Lists
  BY DEF Data, Shape
<1>1. AgreeAt(queue, bitmap, num, ReadySet, cpu, prio, d)
  BY <1>0, AgreeIs DEF Lists
<1>2. ASSUME NEW p \in Prios PROVE RemoveFirst(queue[d][p], t) = queue[d][p]
  <2>1. t \notin ToSet(queue[d][p]) /\ queue[d][p] \in Seq(Threads)
    BY <1>0, <1>1 DEF AgreeAt, Queues
  <2> QED BY <2>1, RemoveFirstAt
<1>3. queue[d] \in [Prios -> Seq(Threads)] /\ DelQ(queue, t)[d] = [p \in Prios |-> RemoveFirst(queue[d][p], t)]
  BY <1>0 DEF Queues, DelQ
<1> QED BY <1>2, <1>3

(* acoral_sched_rdyqueue_del, for a ready thread that is not an idle one.  *)
LEMMA DelKeeps ==
  ASSUME Data, NEW c \in Cpus, NEW t \in Threads, Ready(t), cpu[t] = c, RdyQueueDel(c, t),
         NEW f \in SUBSET Flags, state' = [state EXCEPT ![t] = f], "READY" \notin f,
         f = {"EXIT"} \/ f = DelFlags(state[t]) \/ f = DelFlags(state[t]) \cup {"MOVE"},
         \A d \in Cpus : t # Idle[d],
         UNCHANGED <<cpu, prio, running>>, move_lock' \subseteq Threads
  PROVE  /\ Data' /\ ~Ready(t)' /\ state'[t] = f
         /\ \A u \in Threads : u # t => state'[u] = state[u]
<1>0. /\ Shape /\ FlagsInv /\ Lists
      /\ state \in [Threads -> SUBSET Flags] /\ cpu \in [Threads -> Cpus] /\ prio \in [Threads -> Prios]
      /\ queue \in Queues /\ bitmap \in [Cpus -> SUBSET Prios] /\ num \in [Cpus -> Int]
      /\ running \in [Cpus -> Threads] /\ need_sched \subseteq Cpus
  BY DEF Data, Shape
<1>1. /\ queue' = DelQ(queue, t)
      /\ bitmap' = ClearedBits(DelQ(queue, t), bitmap, c, prio[t])
      /\ num' = [num EXCEPT ![c] = @ - 1]
      /\ need_sched' = need_sched \cup {c}
  BY DEF RdyQueueDel
<1>2. state[t] \notin Dead
  BY DEF Ready, Dead
<1>4. /\ state' \in [Threads -> SUBSET Flags] /\ state'[t] = f
      /\ \A u \in Threads : u # t => state'[u] = state[u]
  BY <1>0
<1>5. ~Ready(t)' /\ (f = {"EXIT"} \/ Asleep(t)')
  BY <1>4 DEF Ready, Asleep, DelFlags
<1>6. FlagsInv'
  <2>1. ASSUME NEW u \in Threads, u # t
        PROVE \/ state'[u] \in Dead
              \/ "EXIT" \notin state'[u] /\ "RELEASE" \notin state'[u] /\ "FREE" \notin state'[u] /\ (Ready(u)' <=> ~Asleep(u)')
    BY <1>0, <1>4, <2>1 DEF FlagsInv, Ready, Asleep
  <2>2. CASE f = {"EXIT"}
    BY <1>4, <2>1, <2>2 DEF FlagsInv, Dead
  <2>3. CASE f # {"EXIT"}
    <3>1. "EXIT" \notin f /\ "RELEASE" \notin f /\ "FREE" \notin f
      BY <1>0, <1>2, <2>3 DEF FlagsInv, DelFlags
    <3> QED BY <1>4, <1>5, <2>1, <2>3, <3>1 DEF FlagsInv
  <2> QED BY <2>2, <2>3
<1>7. ReadySet' = ReadySet \ {t} /\ t \in ReadySet /\ ReadySet \subseteq Threads
  BY <1>4, <1>5 DEF ReadySet, Ready
<1>8. queue' \in Queues /\ Lists'
  <2>1. Agree(queue, bitmap, num, ReadySet, cpu, prio)
    BY <1>0 DEF Lists
  <2>2. /\ DelQ(queue, t) \in Queues
        /\ Agree(DelQ(queue, t), ClearedBits(DelQ(queue, t), bitmap, cpu[t], prio[t]),
                  [num EXCEPT ![cpu[t]] = @ - 1], ReadySet \ {t}, cpu, prio)
    BY <1>0, <1>7, <2>1, AgreeDel
  <2>3. /\ queue' \in Queues
        /\ Agree(queue', bitmap', num', ReadySet', cpu, prio)
    BY <1>1, <1>7, <2>2
  <2> QED BY <2>3 DEF Lists
<1>b. bitmap' \in [Cpus -> SUBSET Prios] /\ \A d \in Cpus : d # c => bitmap'[d] = bitmap[d]
  BY <1>0, <1>1 DEF ClearedBits
<1>9. Shape'
  <2>1. num' \in [Cpus -> Int] /\ need_sched' \subseteq Cpus
    BY <1>0, <1>1
  <2> QED BY <1>0, <1>b, <1>4, <1>8, <2>1 DEF Shape
<1>10. Touches(c, t)
  <2>1. \A d \in Cpus : d # c => queue'[d] = queue[d]
    BY <1>1, DelElsewhere
  <2> QED BY <1>1, <1>b, <1>4, <2>1 DEF Touches
<1> QED BY <1>4, <1>5, <1>6, <1>8, <1>9, <1>10, TouchKeeps

(* acoral_thread_change_prio for a ready thread: out of one queue and into *)
(* another.                                                                *)
LEMMA PrioKeeps ==
  ASSUME Data, NEW c \in Cpus, NEW t \in Threads, Ready(t), cpu[t] = c, NEW p \in Prios,
         prio' = [prio EXCEPT ![t] = p],
         queue' = AddQ(DelQ(queue, t), c, p, t),
         bitmap' = [ClearedBits(DelQ(queue, t), bitmap, c, prio[t]) EXCEPT ![c] = @ \cup {p}],
         state' = [state EXCEPT ![t] = AddFlags(DelFlags(@))],
         need_sched' = need_sched \cup {c},
         UNCHANGED <<cpu, num, running, move_lock>>
  PROVE  Data' /\ SameFlags /\ \A u \in Threads : u # t => state'[u] = state[u]
<1>0. /\ Shape /\ FlagsInv /\ Lists
      /\ state \in [Threads -> SUBSET Flags] /\ cpu \in [Threads -> Cpus] /\ prio \in [Threads -> Prios]
      /\ queue \in Queues /\ bitmap \in [Cpus -> SUBSET Prios] /\ num \in [Cpus -> Int]
      /\ running \in [Cpus -> Threads] /\ need_sched \subseteq Cpus
  BY DEF Data, Shape
<1>2. state[t] \notin Dead
  BY DEF Ready, Dead
<1> DEFINE f == AddFlags(DelFlags(state[t]))
<1>3. f \in SUBSET Flags /\ "READY" \in f /\ "SUSPEND" \notin f
      /\ \A g \in {"EXIT", "RELEASE", "FREE"} : g \in f => g \in state[t]
  BY <1>0 DEF AddFlags, DelFlags, Flags
<1>4. /\ state' \in [Threads -> SUBSET Flags] /\ state'[t] = f
      /\ \A u \in Threads : u # t => state'[u] = state[u]
  BY <1>0, <1>3
<1> HIDE DEF f
<1>a. "EXIT" \notin state[t] /\ "RELEASE" \notin state[t] /\ "FREE" \notin state[t] /\ ~Asleep(t)
  BY <1>0, <1>2 DEF FlagsInv
<1>5. SameFlags
  BY <1>3, <1>4, <1>a DEF Ready, Asleep, SameFlags
<1>6. FlagsInv'
  <2>1. ASSUME NEW u \in Threads, u # t
        PROVE \/ state'[u] \in Dead
              \/ "EXIT" \notin state'[u] /\ "RELEASE" \notin state'[u] /\ "FREE" \notin state'[u] /\ (Ready(u)' <=> ~Asleep(u)')
    BY <1>0, <1>4, <2>1 DEF FlagsInv, Ready, Asleep
  <2>2. "EXIT" \notin state'[t] /\ "RELEASE" \notin state'[t] /\ "FREE" \notin state'[t]
    BY <1>a, <1>3, <1>4
  <2>3. Ready(t)' /\ ~Asleep(t)'
    BY <1>5, <1>a DEF SameFlags
  <2> QED BY <2>1, <2>2, <2>3 DEF FlagsInv
<1>7. ReadySet' = ReadySet /\ t \in ReadySet /\ ReadySet \subseteq Threads
  BY <1>5 DEF ReadySet, SameFlags
<1> DEFINE R == ReadySet \ {t}
           q == DelQ(queue, t)
           b == ClearedBits(q, bitmap, c, prio[t])
           n == [num EXCEPT ![c] = @ - 1]
<1>8. q \in Queues /\ Agree(q, b, n, R, cpu, prio)
  <2>1. Agree(queue, bitmap, num, ReadySet, cpu, prio)
    BY <1>0 DEF Lists
  <2>2. /\ DelQ(queue, t) \in Queues
        /\ Agree(DelQ(queue, t), ClearedBits(DelQ(queue, t), bitmap, cpu[t], prio[t]),
                  [num EXCEPT ![cpu[t]] = @ - 1], ReadySet \ {t}, cpu, prio)
    BY <1>0, <1>7, <2>1, AgreeDel
  <2> QED BY <2>2
<1>b. b \in [Cpus -> SUBSET Prios] /\ n \in [Cpus -> Int] /\ \A d \in Cpus : d # c => b[d] = bitmap[d]
  BY <1>0 DEF ClearedBits
<1>c. [n EXCEPT ![c] = @ + 1] = num /\ bitmap' = [b EXCEPT ![c] = @ \cup {p}] /\ queue' = AddQ(q, c, p, t)
      /\ R \subseteq Threads /\ t \notin R /\ R \cup {t} = ReadySet
  <2>1. [n EXCEPT ![c] = @ + 1] = num
    <3>1. num[c] \in Int /\ (num[c] - 1) + 1 = num[c]
      BY <1>0
    <3>2. n = [num EXCEPT ![c] = num[c] - 1]
      OBVIOUS
    <3> HIDE DEF n
    <3>3. n[c] = num[c] - 1 /\ [n EXCEPT ![c] = @ + 1] = [num EXCEPT ![c] = n[c] + 1]
      BY <1>0, <3>2
    <3> QED BY <1>0, <3>1, <3>3
  <2>2. R \subseteq Threads /\ t \notin R /\ R \cup {t} = ReadySet
    BY <1>7
  <2> QED BY <2>1, <2>2
<1>d. \A d \in Cpus : d # c => q[d] = queue[d]
  BY DelElsewhere
<1>e. prio' \in [Threads -> Prios] /\ prio'[t] = p /\ \A u \in R : prio'[u] = prio[u]
  BY <1>0 DEF ReadySet
<1> HIDE DEF R, q, b, n
<1>9. Agree(q, b, n, R, cpu, prio')
  BY <1>8, <1>c, <1>e, AgreeElsewhere
<1>10. /\ AddQ(q, cpu[t], prio'[t], t) \in Queues
       /\ Agree(AddQ(q, cpu[t], prio'[t], t), [b EXCEPT ![cpu[t]] = @ \cup {prio'[t]}],
                [n EXCEPT ![cpu[t]] = @ + 1], R \cup {t}, cpu, prio')
  BY <1>0, <1>8, <1>9, <1>b, <1>c, <1>e, AgreeAdd
<1>11. queue' \in Queues /\ Lists'
  BY <1>10, <1>c, <1>e, <1>7 DEF Lists
<1>f. bitmap' \in [Cpus -> SUBSET Prios] /\ \A d \in Cpus : d # c => bitmap'[d] = bitmap[d]
  <2> DEFINE bits == b[c] \cup {p}
  <2>0. b[c] \in SUBSET Prios
    BY <1>b
  <2>1. bits \in SUBSET Prios
    BY <2>0
  <2>2. bitmap' = [b EXCEPT ![c] = bits]
    BY <1>c
  <2> HIDE DEF bits
  <2> QED BY <1>b, <2>1, <2>2
<1>12. Shape'
  BY <1>0, <1>f, <1>4, <1>11, <1>e DEF Shape
<1>13. Touches(c, t)
  <2>1. \A d \in Cpus : d # c => queue'[d] = q[d]
    BY <1>8, <1>c DEF AddQ, Queues
  <2> QED BY <1>4, <2>1, <1>d, <1>f DEF Touches
<1> QED BY <1>4, <1>5, <1>6, <1>7, <1>11, <1>12, <1>13, TouchKeeps DEF SameFlags

-----------------------------------------------------------------------------
(* Calls in progress *)

(* A context that has CPU c, or the handler that an interrupt starts. *)
Acts(c, x) == x = c \/ (x = running[c] /\ call[c] = NoCall)

(* Call k is one that x can be about, and has made its tests. *)
Fits(app, x, k) ==
  /\ x \in Threads => ThreadCall(app, x, k) /\ (k.op = "moveto" => "READY" \in state'[x])
  /\ x \in Cpus => HandlerCall(app, k)
Tested(x, k) ==
  k.pc = "commit" =>
    /\ cpu'[k.thread] = (IF x \in Cpus THEN x ELSE cpu'[x])
    /\ k.op \in {"ready", "movein"} => "SUSPEND" \in state'[k.thread]
    /\ k.op = "suspend" => "READY" \in state'[k.thread]

(* What the calls of the others rely on stays. *)
Kept(x) ==
  \A y \in Contexts : y # x =>
    /\ (y \in Threads /\ call[y].op = "moveto") => Ready(y)'
    /\ Tested(y, call[y])

InTransit(t) == (\E y \in Contexts : Carries(y, t)) \/ \E d \in Cpus : Mailed(d, t)
Passing(x, k) ==
  /\ k.op = "movein" => call[x].op = "movein" /\ k.thread = call[x].thread
  /\ \A t \in Threads : InTransit(t) => (InTransit(t)' => Underway(t)') /\ (x = t => k = NoCall)

(* The mailboxes hold commands; no migration is sent. *)
Posts(app) ==
  mailbox' \in [Cpus -> Commands \cup {None}] /\ \A d \in Cpus : Mail(app, mailbox'[d])
Unsent == \A d \in Cpus, t \in Threads : Mailed(d, t)' => Mailed(d, t)

(* A step that leaves the mailboxes alone. *)
LEMMA MailKept ==
  ASSUME NEW app, IInvOf(app), mailbox' = mailbox
  PROVE  Posts(app) /\ Unsent
  BY DEF IInvOf, CallShape, CallInv, Posts, Unsent, Mailed

Closed(c, x, k) ==
  /\ running' = running /\ crit' \subseteq crit \cup {c}
  /\ c \in crit' => k.pc \in {"send", "daem"} \/ (x # c /\ k.pc = "spin")

(* The parts of the invariant are kept when context x goes on to call k. *)
LEMMA ControlKeeps ==
  ASSUME NEW app \in Apps, IInvOf(app), NEW c \in Cpus, NEW x \in Contexts, Acts(c, x),
         NEW k \in CallRecords, call' = [call EXCEPT ![x] = k], Posts(app),
         Data', OtherShape', script' \subseteq app, HomeInv(app)',
         Fits(app, x, k), Tested(x, k), Kept(x),
         (Unsent /\ Passing(x, k)) \/ TransitInv', Closed(c, x, k) \/ CritInv'
  PROVE  IInvOf(app)'
<1>0. /\ CallShape /\ CallInv(app) /\ TransitInv /\ CritInv /\ RunInv /\ Threads \cap Cpus = {}
      /\ call \in [Contexts -> CallRecords] /\ running \in [Cpus -> Threads]
  BY SetsAssumption DEF IInvOf, CallShape, Data, Shape
<1>1. /\ call' \in [Contexts -> CallRecords] /\ call'[x] = k
      /\ \A y \in Contexts : y # x => call'[y] = call[y]
  BY <1>0
<1>c. c \in Contexts /\ Contexts = Threads \cup Cpus
  BY DEF Contexts
<1>2. CallShape'
  BY <1>0, <1>1 DEF CallShape, Posts
<1>3. CallInv(app)'
  <2>1. ASSUME NEW y \in Threads PROVE ThreadCall(app, y, call'[y]) /\ (call'[y].op = "moveto" => Ready(y)')
    <3>1. CASE y = x
      BY <1>1, <2>1, <3>1 DEF Fits, Ready
    <3>2. CASE y # x
      <4>1. call'[y] = call[y] /\ y \in Contexts
        BY <1>1, <1>c, <3>2
      <4> QED BY <1>0, <2>1, <3>2, <4>1 DEF CallInv, Kept
    <3> QED BY <3>1, <3>2
  <2>2. ASSUME NEW d \in Cpus PROVE HandlerCall(app, call'[d]) /\ Mail(app, mailbox'[d])
    <3>1. CASE d = x
      BY <1>0, <1>1, <2>2, <3>1 DEF Fits, Posts
    <3>2. CASE d # x
      BY <1>0, <1>1, <1>c, <2>2, <3>2 DEF CallInv, Posts
    <3> QED BY <3>1, <3>2
  <2> QED BY <2>1, <2>2 DEF CallInv, ThreadCall, HandlerCall, Mail, OwnOp, RemoteOp
<1>4. CommitInv'
  <2> SUFFICES ASSUME NEW y \in Contexts PROVE Tested(y, call'[y])
    BY DEF CommitInv, Tested, Home, Ready, Asleep
  <2>1. CASE y = x
    BY <1>1, <2>1
  <2>2. CASE y # x
    BY <1>1, <2>2 DEF Kept
  <2> QED BY <2>1, <2>2
<1>5. ASSUME Unsent, Passing(x, k) PROVE TransitInv'
  <2>0. \A y \in Contexts, t \in Threads : Carries(y, t)' => Carries(y, t)
    BY <1>1, <1>5 DEF Passing, Carries
  <2>1. \A d \in Cpus, t \in Threads : Mailed(d, t)' => Mailed(d, t)
    BY <1>5 DEF Unsent
  <2>2. ASSUME NEW t \in Threads, NEW y \in Contexts, Carries(y, t)'
        PROVE /\ Underway(t)' /\ (y = t \/ call'[t] = NoCall)
              /\ \A z \in Contexts : Carries(z, t)' => y = z
              /\ \A d \in Cpus : ~Mailed(d, t)'
    <3>1. Carries(y, t) /\ InTransit(t) /\ InTransit(t)'
      BY <2>0, <2>2 DEF InTransit
    <3>2. Underway(t)' /\ (x = t => k = NoCall)
      BY <1>5, <3>1 DEF Passing
    <3>3. /\ y = t \/ call[t] = NoCall
          /\ \A z \in Contexts : Carries(z, t) => y = z
          /\ \A d \in Cpus : ~Mailed(d, t)
      BY <1>0, <3>1 DEF TransitInv
    <3>4. y = t \/ call'[t] = NoCall
      <4>1. t \in Contexts
        BY <1>c
      <4> QED BY <1>1, <3>2, <3>3, <4>1
    <3> QED BY <2>0, <2>1, <3>2, <3>3, <3>4
  <2>3. ASSUME NEW t \in Threads, NEW d \in Cpus, Mailed(d, t)'
        PROVE Underway(t)' /\ call'[t] = NoCall /\ \A e \in Cpus : Mailed(e, t)' => d = e
    <3>1. Mailed(d, t) /\ InTransit(t) /\ InTransit(t)'
      BY <2>1, <2>3 DEF InTransit
    <3>2. Underway(t)' /\ (x = t => k = NoCall)
      BY <1>5, <3>1 DEF Passing
    <3>3. call[t] = NoCall /\ \A e \in Cpus : Mailed(e, t) => d = e
      BY <1>0, <3>1 DEF TransitInv
    <3>4. t \in Contexts
      BY <1>c
    <3> QED BY <1>1, <2>1, <3>2, <3>3, <3>4
  <2> QED BY <2>2, <2>3 DEF TransitInv
<1>6. ASSUME Closed(c, x, k) PROVE CritInv'
  <2> SUFFICES ASSUME NEW d \in crit'
      PROVE \/ call'[d].pc \in {"send", "daem"}
            \/ call'[d] = NoCall /\ call'[running[d]].pc \in {"spin", "send", "daem"}
    BY <1>6 DEF CritInv, Closed
  <2>0. crit' \subseteq Cpus /\ d \in Cpus /\ d \in Contexts /\ running[d] \in Contexts
    BY <1>0, <1>c DEF OtherShape
  <2>1. CASE d = c
    <3>1. k.pc \in {"send", "daem"} \/ (x # c /\ k.pc = "spin")
      BY <1>6, <2>1 DEF Closed
    <3>2. CASE x = c
      BY <1>1, <2>1, <3>1, <3>2
    <3>3. CASE x # c
      <4>1. x = running[c] /\ call[c] = NoCall
        BY <3>3 DEF Acts
      <4> QED BY <1>1, <1>c, <2>1, <3>1, <3>3, <4>1
    <3> QED BY <3>2, <3>3
  <2>2. CASE d # c
    <3>1. d \in crit /\ x # d /\ x # running[d]
      <4>1. d \in crit
        BY <1>6, <2>2 DEF Closed
      <4>2. x # d /\ x # running[d]
        BY <1>0, <2>0, <2>2 DEF Acts, RunInv
      <4> QED BY <4>1, <4>2
    <3> QED BY <1>0, <1>1, <2>0, <3>1 DEF CritInv
  <2> QED BY <2>1, <2>2
<1> QED BY <1>2, <1>3, <1>4, <1>5, <1>6 DEF IInvOf

(* The calls of a disciplined application. *)
LEMMA AppCalls ==
  ASSUME NEW app \in Apps, Disciplined(app), NEW l \in app
  PROVE  /\ l.thread \in Threads /\ l.by \in Contexts /\ l.op \in Ops \ {"movein"}
         /\ l.arg \in Prios \cup Cpus \cup {None}
         /\ l.thread # Daem /\ \A d \in Cpus : l.thread # Idle[d]
         /\ l.op = "chg_prio" => l.arg \in Prios
         /\ l.op = "moveto" => l.arg \in Cpus /\ l.thread \in MoversOf(app)
         /\ l.thread \in MoversOf(app) => l.by = l.thread /\ LocalCall(l)
         /\ l.by \in MoversOf(app) => l.by = l.thread
<1>1. /\ l \in [by : Threads \cup Cpus, op : Ops, thread : Threads,
                arg : Prios \cup Cpus \cup {None}, once : BOOLEAN]
      /\ l.op # "movein" /\ (l.op = "chg_prio" => l.arg \in Prios) /\ (l.op = "moveto" => l.arg \in Cpus)
  BY AppsAssumption
<1>2. l.thread # Daem /\ (\A d \in Cpus : l.thread # Idle[d])
      /\ \A t \in MoversOf(app) : l.thread = t <=> l.by = t
  BY DEF Disciplined
<1>3. l.op = "moveto" => l.thread \in MoversOf(app)
  BY DEF MoversOf
<1> QED BY <1>1, <1>2, <1>3 DEF LocalCall, Contexts

(* The kernel's threads do not migrate. *)
LEMMA MoverThreads ==
  ASSUME NEW app \in Apps, Disciplined(app), NEW t \in MoversOf(app)
  PROVE  t \in Threads /\ t # Daem /\ \A d \in Cpus : t # Idle[d]
<1>1. PICK l \in app : l.op = "moveto" /\ l.thread = t
  BY DEF MoversOf
<1> QED BY <1>1, AppCalls

(* Operations carried out for another context are not on threads that      *)
(* migrate; those a thread carries out on one are its own.                 *)
LEMMA RemoteTarget ==
  ASSUME NEW app \in Apps, Disciplined(app), NEW k, RemoteOp(app, k)
  PROVE  /\ k.thread \in Threads /\ k.thread \notin MoversOf(app)
         /\ \A d \in Cpus : k.thread # Idle[d]
         /\ k.op \in {"ready", "suspend", "chg_prio", "kill"}
         /\ k.thread = Daem => k.op = "ready"
         /\ k.op = "chg_prio" => k.arg \in Prios
<1>1. CASE k.op = "ready" /\ k.thread = Daem
  BY <1>1, MoverThreads, ThreadAssumption
<1>2. CASE ~(k.op = "ready" /\ k.thread = Daem)
  <2>1. PICK l \in app : l.op = k.op /\ l.thread = k.thread /\ ~LocalCall(l)
    BY <1>2 DEF RemoteOp
  <2>2. k.op \in {"ready", "suspend", "chg_prio", "kill"} /\ (k.op = "chg_prio" => k.arg \in Prios)
    BY <1>2 DEF RemoteOp
  <2> QED BY <2>1, <2>2, AppCalls
<1> QED BY <1>1, <1>2

(* Operations that a thread carries out by itself. *)
LEMMA OwnTarget ==
  ASSUME NEW app \in Apps, Disciplined(app), NEW x, NEW k, OwnOp(app, x, k)
  PROVE  /\ k.thread \in Threads
         /\ k.thread \in MoversOf(app) => x = k.thread
         /\ \A d \in Cpus : k.thread # Idle[d]
         /\ k.op \in {"ready", "suspend", "chg_prio", "kill"}
         /\ k.thread = Daem => k.op = "suspend" /\ x = Daem
         /\ k.op = "chg_prio" => k.arg \in Prios
<1>1. CASE k.op = "suspend" /\ k.thread = Daem /\ x = Daem
  BY <1>1, MoverThreads, ThreadAssumption
<1>2. CASE ~(k.op = "suspend" /\ k.thread = Daem /\ x = Daem)
  <2>1. PICK l \in app : l.op = k.op /\ l.thread = k.thread /\ l.by = x
    BY <1>2 DEF OwnOp
  <2>2. k.op \in {"ready", "suspend", "chg_prio", "kill"} /\ (k.op = "chg_prio" => k.arg \in Prios)
    BY <1>2 DEF OwnOp
  <2> QED BY <2>1, <2>2, AppCalls
<1> QED BY <1>1, <1>2

(* What a context in a critical section is about. *)
LEMMA CommitBy ==
  ASSUME NEW app \in Apps, Disciplined(app), IInvOf(app), NEW y \in Contexts, call[y].pc = "commit"
  PROVE  /\ call[y].thread \in Threads
         /\ \A d \in Cpus : call[y].thread # Idle[d]
         /\ y \in Threads => OwnOp(app, y, call[y])
         /\ y \in Cpus => RemoteOp(app, call[y]) \/ (call[y].op = "movein" /\ call[y].thread \in MoversOf(app))
         /\ call[y].op \in {"ready", "suspend", "chg_prio", "kill", "movein"}
         /\ call[y].op = "chg_prio" => call[y].arg \in Prios
         /\ call[y].op # "movein" => call[y].thread \notin MoversOf(app) \/ y = call[y].thread
         /\ call[y].op = "kill" => call[y].thread # Daem
<1>0. CallInv(app) /\ Contexts = Threads \cup Cpus
  BY DEF IInvOf, Contexts
<1>1. CASE y \in Threads
  <2>1. OwnOp(app, y, call[y])
    BY <1>0, <1>1 DEF CallInv, ThreadCall, NoCall
  <2>2. y \notin Cpus
    BY <1>1, SetsAssumption
  <2> QED BY <2>1, <2>2, OwnTarget
<1>2. CASE y \in Cpus
  <2>0. y \notin Threads
    BY <1>2, SetsAssumption
  <2>1. RemoteOp(app, call[y]) \/ (call[y].op = "movein" /\ call[y].thread \in MoversOf(app))
    BY <1>0, <1>2 DEF CallInv, HandlerCall, NoCall, ExitCall
  <2>2. CASE RemoteOp(app, call[y])
    BY <2>0, <2>2, RemoteTarget
  <2>3. CASE call[y].op = "movein" /\ call[y].thread \in MoversOf(app)
    BY <2>0, <2>3, MoverThreads
  <2> QED BY <2>1, <2>2, <2>3
<1> QED BY <1>0, <1>1, <1>2

(* A context that has its CPU. *)
LEMMA Acting ==
  ASSUME NEW app \in Apps, IInvOf(app), NEW c \in Cpus, NEW x, x = c \/ x = running[c], Has(c, x)
  PROVE  /\ x \in Contexts /\ Acts(c, x) /\ call[x] \in CallRecords
         /\ x \in Threads <=> x # c
         /\ x \in Cpus <=> x = c
         /\ x \in Threads => x = running[c] /\ call[c] = NoCall /\ cpu[x] = c
         /\ c \in crit => call[x].pc \in {"send", "daem"} \/ (x # c /\ call[x].pc = "spin")
         /\ (x \in Threads /\ call[x].pc \notin {"spin", "send", "daem"}) => Ready(x) /\ c \notin need_sched
<1>0. /\ CritInv /\ RunInv /\ running \in [Cpus -> Threads] /\ call \in [Contexts -> CallRecords]
      /\ Threads \cap Cpus = {} /\ NoCall.pc = "none" /\ Contexts = Threads \cup Cpus
  BY SetsAssumption DEF IInvOf, CallShape, Data, Shape, NoCall, Contexts
<1>1. CASE x = c
  <2>1. call[c] # NoCall
    BY <1>0, <1>1 DEF Has
  <2> QED BY <1>0, <1>1, <2>1 DEF CritInv, Acts
<1>2. CASE x # c
  <2>1. x = running[c] /\ call[c] = NoCall /\ (c \in need_sched => c \in crit)
    BY <1>2 DEF Has
  <2>2. c \in crit => call[x].pc \in {"spin", "send", "daem"}
    BY <1>0, <2>1 DEF CritInv
  <2>3. cpu[x] = c /\ (Ready(x) \/ c \in need_sched)
    BY <1>0, <2>1 DEF RunInv
  <2> QED BY <1>0, <1>2, <2>1, <2>2, <2>3 DEF Acts
<1> QED BY <1>1, <1>2

(* Context x is about to make thread t ready, or to take it out. *)
Handles(x, t) ==
  \/ call[x].pc = "commit" /\ call[x].thread = t /\ call[x].op # "chg_prio"
  \/ x \in Threads /\ call[x].op = "moveto" /\ call[x].pc = "spin" /\ t = x
  \/ t = Daem /\ Asleep(Daem) /\ call[x].pc = "daem"

(* No thread is ready and suspended. *)
LEMMA FlagsExclude ==
  ASSUME FlagsInv, NEW t \in Threads
  PROVE  ~(Ready(t) /\ Asleep(t))
<1> SUFFICES ASSUME Ready(t), Asleep(t) PROVE FALSE
  OBVIOUS
<1>1. state[t] \notin Dead
  BY DEF Ready, Dead
<1> QED BY <1>1 DEF FlagsInv

(* Nobody else is in a critical section that relies on the thread's flags: *)
(* this is where the discipline is needed.                                 *)
LEMMA Alone ==
  ASSUME NEW app \in Apps, Disciplined(app), IInvOf(app), NEW c \in Cpus, NEW x \in Contexts, Acts(c, x),
         NEW t \in Threads, cpu[t] = c, Handles(x, t),
         NEW y \in Contexts, y # x, call[y].pc = "commit", call[y].thread = t
  PROVE  call[y].op \in {"chg_prio", "kill"}
<1>0. /\ CallInv(app) /\ CommitInv /\ TransitInv /\ RunInv /\ FlagsInv /\ Threads \cap Cpus = {}
      /\ NoCall.pc = "none" /\ Contexts = Threads \cup Cpus /\ running \in [Cpus -> Threads]
      /\ NoCall.op = "none"
  BY SetsAssumption DEF IInvOf, CallShape, Data, Shape, NoCall, Contexts
<1>1. Home(y) = c
  BY <1>0 DEF CommitInv
<1>2. y \in Threads
  <2> SUFFICES ASSUME y \in Cpus PROVE FALSE
    BY <1>0
  <2>1. y = c
    BY <1>1 DEF Home
  <2> QED BY <1>0, <2>1 DEF Acts
<1> SUFFICES ASSUME call[y].op \notin {"chg_prio", "kill"} PROVE FALSE
  OBVIOUS
<1>3. OwnOp(app, y, call[y]) /\ call[y].op \in {"ready", "suspend"}
  <2>1. OwnOp(app, y, call[y])
    BY <1>2, CommitBy
  <2> QED BY <2>1, OwnTarget
<1>4. /\ call[y].op = "ready" => Asleep(t)
      /\ call[y].op = "suspend" => Ready(t)
  BY <1>3, <1>0 DEF CommitInv
<1>5. ~(Ready(t) /\ Asleep(t))
  BY <1>0, FlagsExclude
<1>6. CASE call[y].op = "suspend" /\ t = Daem /\ y = Daem
  <2>1. ~Asleep(Daem) /\ Ready(Daem)
    BY <1>4, <1>5, <1>6
  <2>2. call[x].pc = "commit" /\ call[x].thread = t /\ call[x].op # "chg_prio"
    <3>1. ~(x \in Threads /\ t = x)
      BY <1>6
    <3> QED BY <2>1, <3>1 DEF Handles
  <2>3. call[x].op \notin {"ready", "movein"}
    BY <1>0, <1>6, <2>1, <2>2 DEF CommitInv
  <2>4. CASE x \in Threads
    <3>1. OwnOp(app, x, call[x])
      BY <2>2, <2>4, CommitBy
    <3> QED BY <1>6, <2>2, <3>1, OwnTarget
  <2>5. CASE x \in Cpus
    <3>1. RemoteOp(app, call[x])
      BY <2>2, <2>3, <2>5, CommitBy
    <3> QED BY <1>6, <2>2, <2>3, <3>1, RemoteTarget
  <2> QED BY <1>0, <2>4, <2>5
<1>7. CASE ~(call[y].op = "suspend" /\ t = Daem /\ y = Daem)
  <2>1. PICK l \in app : l.op = call[y].op /\ l.thread = t /\ l.by = y /\ LocalCall(l)
    BY <1>3, <1>7 DEF OwnOp
  <2>2. t # Daem
    BY <2>1, AppCalls
  <2>3. t \in MoversOf(app) => y = t
    BY <2>1, AppCalls
  <2>4. ASSUME NEW m \in app, m.thread = t, m.op \in {call[y].op, "kill"}
        PROVE m.by = y /\ LocalCall(m)
    <3>1. m.by = l.by
      BY <1>3, <2>1, <2>4 DEF Disciplined
    <3> QED BY <2>1, <2>4, <3>1 DEF LocalCall
  <2>5. CASE x \in Threads /\ call[x].op = "moveto" /\ t = x
    <3>1. x \in MoversOf(app)
      BY <1>0, <2>5 DEF CallInv, ThreadCall, NoCall, OwnOp, RemoteOp
    <3> QED BY <2>3, <2>5, <3>1
  <2>6. CASE call[x].pc = "commit" /\ call[x].thread = t /\ call[x].op # "chg_prio"
    <3>1. CASE call[x].op = "movein"
      <4>1. x \in Cpus
        BY <1>0, <2>6, <3>1, CommitBy, OwnTarget
      <4>2. t \in MoversOf(app)
        BY <2>6, <3>1, <4>1, CommitBy, RemoteTarget
      <4>3. Carries(x, t) /\ x # t /\ y = t
        BY <1>0, <2>3, <2>6, <3>1, <4>1, <4>2 DEF Carries
      <4>4. call[t] = NoCall
        BY <1>0, <4>3 DEF TransitInv
      <4> QED BY <1>0, <4>3, <4>4
    <3>2. CASE call[x].op # "movein"
      <4>1. call[x].op \in {call[y].op, "kill"}
        <5>1. call[x].op \in {"ready", "suspend", "kill"}
          BY <2>6, <3>2, CommitBy
        <5>2. (call[x].op = "ready" => Asleep(t)) /\ (call[x].op = "suspend" => Ready(t))
          BY <1>0, <2>6 DEF CommitInv
        <5> QED BY <1>3, <1>4, <1>5, <5>1, <5>2
      <4>2. CASE x \in Threads
        <5>1. OwnOp(app, x, call[x])
          BY <2>6, <4>2, CommitBy
        <5>2. PICK m \in app : m.op = call[x].op /\ m.thread = t /\ m.by = x
          BY <2>2, <2>6, <5>1 DEF OwnOp
        <5> QED BY <2>4, <4>1, <5>2
      <4>3. CASE x \in Cpus
        <5>1. RemoteOp(app, call[x])
          BY <2>6, <3>2, <4>3, CommitBy
        <5>2. PICK m \in app : m.op = call[x].op /\ m.thread = t /\ ~LocalCall(m)
          BY <2>2, <2>6, <5>1 DEF RemoteOp
        <5> QED BY <2>4, <4>1, <5>2
      <4> QED BY <1>0, <4>2, <4>3
    <3> QED BY <3>1, <3>2
  <2> QED BY <2>2, <2>5, <2>6 DEF Handles
<1> QED BY <1>6, <1>7

(* A thread in a call of its own is not migrating. *)
LEMMA BusyStays ==
  ASSUME TransitInv, NEW t \in Threads, InTransit(t)
  PROVE  Underway(t) /\ (call[t] = NoCall \/ call[t].op = "movein")
<1>1. CASE \E d \in Cpus : Mailed(d, t)
  BY <1>1 DEF TransitInv
<1>2. CASE \E y \in Contexts : Carries(y, t)
  BY <1>2 DEF TransitInv, Carries
<1> QED BY <1>1, <1>2 DEF InTransit

(* Only threads of the application that move themselves migrate. *)
LEMMA MoversTransit ==
  ASSUME NEW app \in Apps, Disciplined(app), IInvOf(app), NEW t \in Threads, InTransit(t)
  PROVE  t \in MoversOf(app)
<1>0. CallInv(app) /\ Contexts = Threads \cup Cpus
  BY DEF IInvOf, Contexts
<1>n. NoCall.op = "none" /\ ExitCall.op = "none"
  BY DEF NoCall, ExitCall
<1>1. ASSUME NEW d \in Cpus, Mailed(d, t) PROVE t \in MoversOf(app)
  <2>1. Mail(app, mailbox[d]) /\ mailbox[d] # None /\ mailbox[d].op = "movein" /\ mailbox[d].thread = t
    BY <1>0, <1>1 DEF CallInv, Mailed
  <2> QED BY <2>1, RemoteTarget DEF Mail
<1>2. ASSUME NEW y \in Contexts, Carries(y, t) PROVE t \in MoversOf(app)
  <2>0. call[y].op = "movein" /\ call[y].thread = t
    BY <1>2 DEF Carries
  <2>1. CASE y \in Threads
    <3>1. ThreadCall(app, y, call[y])
      BY <1>0, <2>1 DEF CallInv
    <3>2. ~OwnOp(app, y, call[y]) /\ ~RemoteOp(app, call[y])
      BY <2>0, OwnTarget, RemoteTarget
    <3> QED BY <1>n, <2>0, <3>1, <3>2 DEF ThreadCall
  <2>2. CASE y \in Cpus
    <3>1. HandlerCall(app, call[y])
      BY <1>0, <2>2 DEF CallInv
    <3>2. ~RemoteOp(app, call[y])
      BY <2>0, RemoteTarget
    <3> QED BY <1>n, <2>0, <3>1, <3>2 DEF HandlerCall
  <2> QED BY <1>0, <2>1, <2>2
<1> QED BY <1>1, <1>2 DEF InTransit

(* The thread that a critical section handles is not migrating, unless it  *)
(* is the migration's own.                                                 *)
LEMMA NotAway ==
  ASSUME NEW app \in Apps, Disciplined(app), IInvOf(app), NEW x \in Contexts, NEW t \in Threads,
         \/ call[x].pc = "commit" /\ call[x].thread = t /\ call[x].op # "movein"
         \/ x = t /\ call[x].op = "moveto"
         \/ t = Daem
  PROVE  ~InTransit(t)
<1> SUFFICES ASSUME InTransit(t) PROVE FALSE
  OBVIOUS
<1>0. TransitInv /\ NoCall.pc = "none" /\ NoCall.op = "none"
  BY DEF IInvOf, NoCall
<1>1. t \in MoversOf(app) /\ (call[t] = NoCall \/ call[t].op = "movein")
  BY <1>0, MoversTransit, BusyStays
<1>2. t # Daem
  BY <1>1, MoverThreads
<1>3. call[x].pc = "commit" /\ call[x].thread = t /\ call[x].op # "movein"
  BY <1>0, <1>1, <1>2
<1>4. x = t
  BY <1>1, <1>3, CommitBy
<1> QED BY <1>0, <1>1, <1>3, <1>4

(* A step that changes nobody's READY and SUSPEND leaves every other call  *)
(* what it relies on.                                                      *)
LEMMA KeptSame ==
  ASSUME NEW app \in Apps, Disciplined(app), IInvOf(app), NEW x \in Contexts, SameFlags, cpu' = cpu
  PROVE  Kept(x)
<1>0. CallInv(app) /\ CommitInv
  BY DEF IInvOf
<1>1. ASSUME NEW y \in Threads, call[y].op = "moveto" PROVE Ready(y)'
  BY <1>0, <1>1 DEF CallInv, SameFlags
<1>2. ASSUME NEW y \in Contexts, call[y].pc = "commit" PROVE Tested(y, call[y])
  <2>1. call[y].thread \in Threads
    BY <1>2, CommitBy
  <2>2. /\ cpu[call[y].thread] = Home(y)
        /\ call[y].op \in {"ready", "movein"} => Asleep(call[y].thread)
        /\ call[y].op = "suspend" => Ready(call[y].thread)
    BY <1>0, <1>2 DEF CommitInv
  <2> QED BY <2>1, <2>2 DEF Tested, SameFlags, Ready, Asleep, Home
<1>3. \A y \in Contexts : call[y].pc # "commit" => Tested(y, call[y])
  BY DEF Tested
<1> QED BY <1>1, <1>2, <1>3 DEF Kept

(* So does a step that handles one thread: nobody else relies on that one. *)
LEMMA KeptAlone ==
  ASSUME NEW app \in Apps, Disciplined(app), IInvOf(app), NEW c \in Cpus, NEW x \in Contexts, Acts(c, x),
         NEW t \in Threads, cpu[t] = c, Handles(x, t), cpu' = cpu,
         \A u \in Threads : u # t => state'[u] = state[u]
  PROVE  Kept(x)
<1>0. CallInv(app) /\ CommitInv /\ TransitInv /\ NoCall.op = "none"
  BY DEF IInvOf, NoCall
<1>1. ASSUME NEW y \in Threads, y # x, call[y].op = "moveto" PROVE Ready(y)'
  <2>1. y \in MoversOf(app)
    <3>1. ThreadCall(app, y, call[y]) /\ ~OwnOp(app, y, call[y]) /\ ~RemoteOp(app, call[y])
      BY <1>0, <1>1, OwnTarget, RemoteTarget DEF CallInv
    <3> QED BY <1>0, <1>1, <3>1 DEF ThreadCall
  <2>2. y # t
    <3> SUFFICES ASSUME y = t PROVE FALSE
      OBVIOUS
    <3>1. t # Daem
      BY <2>1, MoverThreads
    <3>2. call[x].pc = "commit" /\ call[x].thread = t
      BY <1>1, <3>1 DEF Handles
    <3>3. call[x].op = "movein"
      BY <1>1, <2>1, <3>2, CommitBy
    <3>4. Carries(x, t)
      BY <3>2, <3>3 DEF Carries
    <3>5. call[t] = NoCall
      BY <1>0, <1>1, <3>4 DEF TransitInv
    <3> QED BY <1>0, <1>1, <3>5
  <2>3. Ready(y)
    BY <1>0, <1>1 DEF CallInv
  <2> QED BY <2>2, <2>3 DEF Ready
<1>2. ASSUME NEW y \in Contexts, y # x, call[y].pc = "commit" PROVE Tested(y, call[y])
  <2>1. call[y].thread \in Threads
    BY <1>2, CommitBy
  <2>2. /\ cpu[call[y].thread] = Home(y)
        /\ call[y].op \in {"ready", "movein"} => Asleep(call[y].thread)
        /\ call[y].op = "suspend" => Ready(call[y].thread)
    BY <1>0, <1>2 DEF CommitInv
  <2>3. CASE call[y].thread = t
    <3>1. call[y].op \in {"chg_prio", "kill"}
      BY <1>2, <2>3, Alone
    <3> QED BY <2>2, <3>1 DEF Tested, Home
  <2>4. CASE call[y].thread # t
    BY <2>1, <2>2, <2>4 DEF Tested, Ready, Asleep, Home
  <2> QED BY <2>3, <2>4
<1>3. \A y \in Contexts : call[y].pc # "commit" => Tested(y, call[y])
  BY DEF Tested
<1> QED BY <1>1, <1>2, <1>3 DEF Kept

(* A step that leaves migrating threads alone. *)
LEMMA PassingAside ==
  ASSUME NEW app \in Apps, Disciplined(app), IInvOf(app), NEW x \in Contexts, NEW k,
         k.op # "movein", cpu' = cpu, running' = running,
         \A t \in Threads : InTransit(t) /\ InTransit(t)' =>
            state'[t] = state[t] /\ (t \in move_lock => t \in move_lock'),
         x \in Threads => k = NoCall \/ ~InTransit(x)
  PROVE  Passing(x, k)
<1>0. TransitInv
  BY DEF IInvOf
<1>1. ASSUME NEW t \in Threads, InTransit(t) PROVE (InTransit(t)' => Underway(t)') /\ (x = t => k = NoCall)
  <2>1. Underway(t)
    BY <1>0, <1>1, BusyStays
  <2>2. ASSUME InTransit(t)' PROVE Underway(t)'
    <3>1. state'[t] = state[t] /\ (t \in move_lock => t \in move_lock')
      BY <1>1, <2>2
    <3> QED BY <2>1, <3>1 DEF Underway, Asleep
  <2> QED BY <1>1, <2>2
<1> QED BY <1>1 DEF Passing

(* A call that returns. *)
LEMMA ReturnFits ==
  ASSUME NEW app \in Apps, NEW x \in Contexts
  PROVE  /\ Returned(x) \in CallRecords /\ Fits(app, x, Returned(x)) /\ Tested(x, Returned(x))
         /\ Returned(x).op = "none" /\ Returned(x).pc \notin {"send", "daem", "spin", "commit"}
         /\ x \in Threads => Returned(x) = NoCall
<1>1. /\ Returned(x).op = "none" /\ Returned(x).pc \in {"none", "exit"}
      /\ x \in Cpus => Returned(x) = ExitCall
      /\ x \notin Cpus => Returned(x) = NoCall
  BY DEF Returned, NoCall, ExitCall
<1>2. NoCall \in CallRecords /\ ExitCall \in CallRecords
  BY DEF NoCall, ExitCall, CallRecords
<1>3. Fits(app, x, Returned(x))
  BY <1>1, SetsAssumption DEF Fits, ThreadCall, HandlerCall
<1>4. Tested(x, Returned(x))
  BY <1>1 DEF Tested
<1> QED BY <1>1, <1>2, <1>3, <1>4, SetsAssumption

(* A step that ends its call keeps the invariant, if it leaves Data in     *)
(* order and others alone.                                                 *)
LEMMA ReturnKeeps ==
  ASSUME NEW app \in Apps, Disciplined(app), IInvOf(app), NEW c \in Cpus, NEW x, x = c \/ x = running[c],
         Has(c, x), Return(x), Posts(app), Data', OtherShape', cpu' = cpu, running' = running,
         script' = script, crit' \subseteq crit, c \notin crit', Kept(x),
         (Unsent /\ Passing(x, Returned(x))) \/ TransitInv'
  PROVE  IInvOf(app)'
<1>1. x \in Contexts /\ Acts(c, x)
  BY Acting
<1>2. PICK k \in CallRecords : k = Returned(x)
  BY <1>1, ReturnFits
<1>3. call' = [call EXCEPT ![x] = k]
  BY <1>2 DEF Return, SetCall
<1>4. Fits(app, x, k) /\ Tested(x, k)
  BY <1>1, <1>2, ReturnFits
<1>5. Closed(c, x, k)
  BY DEF Closed
<1>6. script' \subseteq app /\ HomeInv(app)'
  BY DEF IInvOf, HomeInv
<1>7. Passing(x, Returned(x)) => Passing(x, k)
  BY <1>2
<1> QED BY <1>1, <1>3, <1>4, <1>5, <1>6, <1>7, ControlKeeps

-----------------------------------------------------------------------------
(* The critical sections *)

(* acoral_rdy_thread and the end of acoral_movein_thread. *)
LEMMA CommitReadyKeeps ==
  ASSUME NEW app \in Apps, Disciplined(app), IInvOf(app), NEW c \in Cpus, NEW x, x = c \/ x = running[c],
         CommitReady(c, x)
  PROVE  IInvOf(app)'
<1>1. /\ Has(c, x) /\ call[x].pc = "commit" /\ call[x].op \in {"ready", "movein"}
      /\ RdyQueueAdd(c, call[x].thread)
      /\ move_lock' = IF call[x].op = "movein" THEN move_lock \ {call[x].thread} ELSE move_lock
      /\ Return(x)
      /\ UNCHANGED <<cpu, prio, running, stack, irq_switch, crit, mailbox, release, tmp, walk, script>>
  BY DEF CommitReady, daemonVars
<1>2. x \in Contexts /\ Acts(c, x) /\ c \notin crit /\ Home(x) = c
  BY <1>1, Acting DEF Home
<1>3. /\ Data /\ CommitInv /\ TransitInv /\ OtherShape /\ move_lock \subseteq Threads
  BY DEF IInvOf, Data, Shape
<1>4. PICK t \in Threads : t = call[x].thread
  BY <1>1, <1>2, CommitBy
<1>5. Asleep(t) /\ cpu[t] = c
  BY <1>1, <1>2, <1>3, <1>4 DEF CommitInv
<1>6. move_lock' \subseteq Threads
  BY <1>1, <1>3
<1>7. Data' /\ \A u \in Threads : u # t => state'[u] = state[u]
  BY <1>1, <1>3, <1>4, <1>5, <1>6, AddKeeps
<1>8. Handles(x, t)
  BY <1>1, <1>4 DEF Handles
<1>9. Kept(x)
  BY <1>1, <1>2, <1>5, <1>7, <1>8, KeptAlone
<1>10. ~InTransit(t)'
  <2>1. CASE call[x].op # "movein"
    <3>1. ~InTransit(t)
      BY <1>1, <1>2, <1>4, <2>1, NotAway
    <3>2. \A y \in Contexts : Carries(y, t)' => Carries(y, t)
      BY <1>1, <1>2, ReturnFits DEF Carries, Return, SetCall, IInvOf, CallShape
    <3> QED BY <1>1, <3>1, <3>2 DEF InTransit, Mailed
  <2>2. CASE call[x].op = "movein"
    <3>1. Carries(x, t)
      BY <1>4, <2>2 DEF Carries
    <3>2. (\A y \in Contexts : Carries(y, t) => x = y) /\ \A d \in Cpus : ~Mailed(d, t)
      BY <1>2, <1>3, <3>1 DEF TransitInv
    <3>3. \A y \in Contexts : Carries(y, t)' => Carries(y, t) /\ y # x
      BY <1>1, <1>2, ReturnFits DEF Carries, Return, SetCall, IInvOf, CallShape
    <3> QED BY <1>1, <3>2, <3>3 DEF InTransit, Mailed
  <2> QED BY <2>1, <2>2
<1>11. Passing(x, Returned(x))
  <2>1. ASSUME NEW u \in Threads, InTransit(u)' PROVE state'[u] = state[u] /\ (u \in move_lock => u \in move_lock')
    <3>1. u # t
      BY <1>10, <2>1
    <3> QED BY <1>1, <1>4, <1>7, <3>1
  <2> QED BY <1>1, <1>2, <2>1, PassingAside, ReturnFits
<1>12. OtherShape'
  BY <1>1, <1>3 DEF OtherShape
<1> QED BY <1>1, <1>2, <1>7, <1>9, <1>11, <1>12, MailKept, ReturnKeeps

(* acoral_suspend_thread. *)
LEMMA CommitSuspendKeeps ==
  ASSUME NEW app \in Apps, Disciplined(app), IInvOf(app), NEW c \in Cpus, NEW x, x = c \/ x = running[c],
         CommitSuspend(c, x)
  PROVE  IInvOf(app)'
<1>1. /\ Has(c, x) /\ call[x].pc = "commit" /\ call[x].op = "suspend"
      /\ RdyQueueDel(c, call[x].thread)
      /\ state' = [state EXCEPT ![call[x].thread] = DelFlags(@)]
      /\ Return(x)
      /\ UNCHANGED <<cpu, move_lock, prio, running, stack, irq_switch, crit, mailbox, release, tmp, walk, script>>
  BY DEF CommitSuspend, daemonVars, moveVars
<1>2. x \in Contexts /\ Acts(c, x) /\ c \notin crit /\ Home(x) = c
  BY <1>1, Acting DEF Home
<1>3. /\ Data /\ CommitInv /\ TransitInv /\ OtherShape /\ move_lock \subseteq Threads /\ state \in [Threads -> SUBSET Flags]
  BY DEF IInvOf, Data, Shape
<1>4. PICK t \in Threads : t = call[x].thread /\ \A d \in Cpus : t # Idle[d]
  BY <1>1, <1>2, CommitBy
<1>5. Ready(t) /\ cpu[t] = c
  BY <1>1, <1>2, <1>3, <1>4 DEF CommitInv
<1>6. PICK f \in SUBSET Flags : f = DelFlags(state[t])
  BY <1>3 DEF DelFlags, Flags
<1>7. Data' /\ \A u \in Threads : u # t => state'[u] = state[u]
  <2>1. state' = [state EXCEPT ![t] = f] /\ "READY" \notin f
    BY <1>1, <1>4, <1>6 DEF DelFlags
  <2>2. RdyQueueDel(c, t) /\ UNCHANGED <<cpu, prio, running>> /\ move_lock' \subseteq Threads
    BY <1>1, <1>3, <1>4
  <2> QED BY <1>3, <1>4, <1>5, <1>6, <2>1, <2>2, DelKeeps
<1>8. Handles(x, t)
  BY <1>1, <1>4 DEF Handles
<1>9. Kept(x)
  BY <1>1, <1>2, <1>5, <1>7, <1>8, KeptAlone
<1>10. ~InTransit(t)
  BY <1>1, <1>2, <1>4, NotAway
<1>11. Passing(x, Returned(x))
  BY <1>1, <1>2, <1>7, <1>10, PassingAside, ReturnFits
<1>12. OtherShape'
  BY <1>1, <1>3 DEF OtherShape
<1> QED BY <1>1, <1>2, <1>7, <1>9, <1>11, <1>12, MailKept, ReturnKeeps

(* acoral_thread_change_prio. *)
LEMMA CommitPrioKeeps ==
  ASSUME NEW app \in Apps, Disciplined(app), IInvOf(app), NEW c \in Cpus, NEW x, x = c \/ x = running[c],
         CommitPrio(c, x)
  PROVE  IInvOf(app)'
<1> DEFINE k == call[x]
<1>1. /\ Has(c, x) /\ k.pc = "commit" /\ k.op = "chg_prio"
      /\ prio' = [prio EXCEPT ![k.thread] = k.arg]
      /\ Return(x)
      /\ UNCHANGED <<cpu, move_lock, num, running, stack, irq_switch, crit, mailbox, release, tmp, walk, script>>
  BY DEF CommitPrio, NewPrio, daemonVars, moveVars
<1>2. x \in Contexts /\ Acts(c, x) /\ c \notin crit /\ Home(x) = c
  BY <1>1, Acting DEF Home
<1>3. /\ Data /\ CommitInv /\ TransitInv /\ OtherShape /\ FlagsInv /\ Shape
      /\ prio \in [Threads -> Prios] /\ RunInv
  BY DEF IInvOf, Data, Shape
<1>4. PICK t \in Threads, p \in Prios : t = k.thread /\ p = k.arg
  BY <1>1, <1>2, CommitBy
<1>5. cpu[t] = c
  BY <1>1, <1>2, <1>3, <1>4 DEF CommitInv
<1>7. Data' /\ SameFlags /\ \A u \in Threads : u # t => state'[u] = state[u]
  <2>1. CASE Ready(t)
    <3>1. /\ queue' = AddQ(DelQ(queue, t), c, p, t)
          /\ bitmap' = [ClearedBits(DelQ(queue, t), bitmap, c, prio[t]) EXCEPT ![c] = @ \cup {p}]
          /\ state' = [state EXCEPT ![t] = AddFlags(DelFlags(@))]
          /\ need_sched' = need_sched \cup {c}
      BY <1>4, <1>5, <2>1 DEF CommitPrio, NewPrio, Ready
    <3> QED BY <1>1, <1>3, <1>4, <1>5, <2>1, <3>1, PrioKeeps
  <2>2. CASE ~Ready(t)
    <3>1. UNCHANGED <<queue, bitmap, state, need_sched>>
      BY <1>4, <2>2 DEF CommitPrio, Ready
    <3>2. SameFlags /\ FlagsInv'
      BY <1>3, <3>1 DEF SameFlags, FlagsInv, Ready, Asleep
    <3>3. prio' \in [Threads -> Prios] /\ \A u \in Threads : u # t => prio'[u] = prio[u]
      BY <1>1, <1>3, <1>4
    <3>4. Shape'
      BY <1>1, <1>3, <3>1, <3>3 DEF Shape
    <3>5. Outside(t)
      BY <1>1, <3>1, <3>3 DEF Outside
    <3>6. \A d \in Cpus : running[d] = t => cpu'[t] = cpu[t] /\ (Asleep(t)' \/ state'[t] = {"EXIT"})
      BY <1>1, <1>3, <2>2, <3>1 DEF RunInv, Asleep
    <3>7. ~Ready(t)'
      BY <2>2, <3>1 DEF Ready
    <3> QED BY <1>3, <2>2, <3>1, <3>2, <3>4, <3>5, <3>6, <3>7, OutsideKeeps
  <2> QED BY <2>1, <2>2
<1>9. Kept(x)
  BY <1>1, <1>2, <1>7, KeptSame
<1>10. ~InTransit(t)
  BY <1>1, <1>2, <1>4, NotAway
<1>11. Passing(x, Returned(x))
  BY <1>1, <1>2, <1>7, <1>10, PassingAside, ReturnFits
<1>12. OtherShape'
  BY <1>1, <1>3 DEF OtherShape
<1> QED BY <1>1, <1>2, <1>7, <1>9, <1>11, <1>12, MailKept, ReturnKeeps

(* acoral_kill_thread. *)
LEMMA CommitKillKeeps ==
  ASSUME NEW app \in Apps, Disciplined(app), IInvOf(app), NEW c \in Cpus, NEW x, x = c \/ x = running[c],
         CommitKill(c, x)
  PROVE  IInvOf(app)'
<1>1. /\ Has(c, x) /\ call[x].pc = "commit" /\ call[x].op = "kill"
      /\ state' = [state EXCEPT ![call[x].thread] = {"EXIT"}]
      /\ release' = Append(release, call[x].thread)
      /\ crit' = crit \cup {c}
      /\ SetCall(x, CallAt("daem", "ready", Daem, None, None))
      /\ UNCHANGED <<cpu, move_lock, prio, running, stack, irq_switch, mailbox, tmp, walk, script>>
  BY DEF CommitKill, moveVars
<1>2. x \in Contexts /\ Acts(c, x) /\ c \notin crit /\ Home(x) = c
  BY <1>1, Acting DEF Home
<1>3. /\ Data /\ CommitInv /\ TransitInv /\ OtherShape /\ FlagsInv /\ Shape /\ RunInv
      /\ state \in [Threads -> SUBSET Flags] /\ move_lock \subseteq Threads
  BY DEF IInvOf, Data, Shape
<1>4. PICK t \in Threads : t = call[x].thread /\ \A d \in Cpus : t # Idle[d]
  BY <1>1, <1>2, CommitBy
<1>5. cpu[t] = c
  BY <1>1, <1>2, <1>3, <1>4 DEF CommitInv
<1>6. {"EXIT"} \in SUBSET Flags /\ "READY" \notin {"EXIT"} /\ state' = [state EXCEPT ![t] = {"EXIT"}]
  BY <1>1, <1>4 DEF Flags
<1>a. /\ state' \in [Threads -> SUBSET Flags] /\ state'[t] = {"EXIT"}
      /\ \A u \in Threads : u # t => state'[u] = state[u]
  BY <1>3, <1>6
<1>7. Data'
  <2>1. CASE Ready(t)
    <3>1. RdyQueueDel(c, t)
      BY <1>4, <2>1 DEF CommitKill, Ready
    <3>2. UNCHANGED <<cpu, prio, running>> /\ move_lock' \subseteq Threads
      BY <1>1, <1>3
    <3> QED BY <1>3, <1>4, <1>5, <1>6, <2>1, <3>1, <3>2, DelKeeps
  <2>2. CASE ~Ready(t)
    <3>1. UNCHANGED <<queue, bitmap, num, need_sched>>
      BY <1>4, <2>2 DEF CommitKill, Ready, rqVars
    <3>2. FlagsInv'
      BY <1>3, <1>a DEF FlagsInv, Ready, Asleep, Dead
    <3>4. Shape'
      BY <1>1, <1>3, <1>a, <3>1 DEF Shape
    <3>5. Outside(t)
      BY <1>1, <1>a, <3>1 DEF Outside
    <3>7. ~Ready(t)'
      BY <1>a DEF Ready
    <3> QED BY <1>1, <1>3, <1>a, <2>2, <3>2, <3>4, <3>5, <3>7, OutsideKeeps
  <2> QED BY <2>1, <2>2
<1>8. Handles(x, t)
  BY <1>1, <1>4 DEF Handles
<1>9. Kept(x)
  BY <1>1, <1>2, <1>5, <1>a, <1>8, KeptAlone
<1>10. ~InTransit(t) /\ (x \in Threads => ~InTransit(x))
  <2>1. ~InTransit(t)
    BY <1>1, <1>2, <1>4, NotAway
  <2>2. ASSUME x \in Threads, InTransit(x) PROVE FALSE
    BY <1>1, <1>3, <2>2, BusyStays DEF NoCall
  <2> QED BY <2>1, <2>2
<1>b. PICK k \in CallRecords : k = CallAt("daem", "ready", Daem, None, None)
  BY ThreadAssumption DEF CallAt, CallRecords, Ops
<1>c. k.pc = "daem" /\ k.op = "ready"
  BY <1>b DEF CallAt
<1>11. Passing(x, k)
  BY <1>1, <1>2, <1>a, <1>10, <1>c, PassingAside
<1>12. OtherShape'
  <2>1. release' \in Seq(Threads) /\ crit' \subseteq Cpus
    BY <1>1, <1>3, <1>4, AppendProperties DEF OtherShape
  <2> QED BY <1>1, <1>3, <2>1 DEF OtherShape
<1>13. Fits(app, x, k) /\ Tested(x, k)
  BY <1>c DEF Fits, Tested, ThreadCall, HandlerCall
<1>14. Closed(c, x, k)
  BY <1>1, <1>c DEF Closed
<1>15. call' = [call EXCEPT ![x] = k] /\ script' \subseteq app /\ HomeInv(app)'
  BY <1>1, <1>b DEF SetCall, IInvOf, HomeInv
<1> QED BY <1>1, <1>2, <1>7, <1>9, <1>11, <1>12, <1>13, <1>14, <1>15, MailKept, ControlKeeps

(* Nothing but a lock, a mailbox or a call changes. *)
LEMMA DataStutters ==
  ASSUME Data, UNCHANGED <<state, cpu, prio, queue, bitmap, num, running, need_sched>>, move_lock' \subseteq Threads
  PROVE  Data' /\ SameFlags
<1>1. Shape' /\ FlagsInv' /\ RunInv' /\ IdleInv' /\ SameFlags
  BY DEF Data, Shape, FlagsInv, RunInv, IdleInv, Ready, Asleep, SameFlags
<1>2. Lists'
  <2>1. ReadySet' = ReadySet
    BY DEF ReadySet, Ready
  <2> QED BY <2>1 DEF Data, Lists
<1>3. UrgentInv'
  BY DEF Data, UrgentInv, Selected, CanSwitch
<1> QED BY <1>1, <1>2, <1>3 DEF Data

(* The daemon is readied by acoral_prerelease_thread. *)
LEMMA WakeDaemKeeps ==
  ASSUME NEW app \in Apps, Disciplined(app), IInvOf(app), NEW c \in Cpus, NEW x, x = c \/ x = running[c],
         WakeDaem(c, x)
  PROVE  IInvOf(app)'
<1>1. /\ Has(c, x) /\ call[x].pc = "daem"
      /\ UNCHANGED <<cpu, move_lock, prio, running, stack, irq_switch, mailbox, release, tmp, walk, script>>
  BY DEF WakeDaem, moveVars, daemonVars
<1>2. x \in Contexts /\ Acts(c, x) /\ Daem \in Threads
  BY <1>1, Acting, ThreadAssumption
<1>3. /\ Data /\ TransitInv /\ OtherShape /\ move_lock' \subseteq Threads /\ CallInv(app) /\ cpu \in [Threads -> Cpus]
  BY <1>1 DEF IInvOf, Data, Shape
<1>4. x \in Threads => ~InTransit(x)
  <2> SUFFICES ASSUME x \in Threads, InTransit(x) PROVE FALSE
    OBVIOUS
  <2>1. call[x].op = "ready"
    BY <1>1, <1>3 DEF CallInv, ThreadCall, NoCall
  <2> QED BY <1>3, <2>1, BusyStays DEF NoCall
<1>5. ~InTransit(Daem)
  BY <1>2, NotAway
<1>6. CASE "SUSPEND" \notin state[Daem]
  <2>1. crit' = crit \ {c} /\ Return(x) /\ UNCHANGED <<state, queue, bitmap, num, need_sched>>
    BY <1>6 DEF WakeDaem, rqVars
  <2>2. Data' /\ SameFlags
    BY <1>1, <1>3, <2>1, DataStutters
  <2>3. OtherShape'
    BY <1>1, <1>3, <2>1 DEF OtherShape
  <2>4. Kept(x) /\ Passing(x, Returned(x))
    BY <1>1, <1>2, <1>4, <2>1, <2>2, KeptSame, PassingAside, ReturnFits
  <2> QED BY <1>1, <2>1, <2>2, <2>3, <2>4, MailKept, ReturnKeeps
<1>7. CASE "SUSPEND" \in state[Daem] /\ cpu[Daem] = c
  <2>1. crit' = crit \ {c} /\ Return(x) /\ RdyQueueAdd(c, Daem) /\ Asleep(Daem)
    BY <1>7 DEF WakeDaem, Asleep
  <2>2. Data' /\ \A u \in Threads : u # Daem => state'[u] = state[u]
    BY <1>1, <1>2, <1>3, <1>7, <2>1, AddKeeps
  <2>3. OtherShape'
    BY <1>1, <1>3, <2>1 DEF OtherShape
  <2>4. Kept(x)
    <3>1. Handles(x, Daem)
      BY <1>1, <2>1 DEF Handles
    <3> QED BY <1>1, <1>2, <1>7, <2>2, <3>1, KeptAlone
  <2>5. Passing(x, Returned(x))
    BY <1>1, <1>2, <1>5, <2>2, PassingAside, ReturnFits
  <2> QED BY <1>1, <2>1, <2>2, <2>3, <2>4, <2>5, MailKept, ReturnKeeps
<1>8. CASE "SUSPEND" \in state[Daem] /\ cpu[Daem] # c
  <2>1. /\ SetCall(x, CallAt("send", "ready", Daem, None, cpu[Daem]))
        /\ UNCHANGED <<state, queue, bitmap, num, need_sched, crit>>
    BY <1>8 DEF WakeDaem, rqVars
  <2>2. Data' /\ SameFlags
    BY <1>1, <1>3, <2>1, DataStutters
  <2>3. OtherShape'
    BY <1>1, <1>3, <2>1 DEF OtherShape
  <2>4. PICK k \in CallRecords : k = CallAt("send", "ready", Daem, None, cpu[Daem])
    BY <1>2, <1>3 DEF CallAt, CallRecords, Ops
  <2>5. k.pc = "send" /\ k.op = "ready" /\ k.thread = Daem /\ k.to \in Cpus
    BY <1>2, <1>3, <2>4 DEF CallAt
  <2>6. Fits(app, x, k) /\ Tested(x, k)
    BY <2>5 DEF Fits, Tested, ThreadCall, HandlerCall, RemoteOp
  <2>7. Kept(x) /\ Passing(x, k)
    BY <1>1, <1>2, <1>4, <2>1, <2>2, <2>5, KeptSame, PassingAside
  <2>8. Closed(c, x, k)
    BY <1>1, <2>1, <2>5 DEF Closed
  <2>9. call' = [call EXCEPT ![x] = k] /\ script' \subseteq app /\ HomeInv(app)'
    BY <1>1, <2>1, <2>4 DEF SetCall, IInvOf, HomeInv
  <2> QED BY <1>1, <1>2, <2>2, <2>3, <2>6, <2>7, <2>8, <2>9, MailKept, ControlKeeps
<1> QED BY <1>6, <1>7, <1>8

(* Who is where in a migration. *)
LEMMA MoveToBy ==
  ASSUME NEW app \in Apps, Disciplined(app), IInvOf(app), NEW x \in Contexts,
         call[x].pc = "enter" \/ (call[x].pc = "spin" /\ call[x].op = "moveto")
  PROVE  /\ x \in Threads /\ x \in MoversOf(app) /\ call[x].op = "moveto" /\ call[x].thread = x
         /\ call[x].arg \in Cpus /\ Ready(x)
<1>1. CallInv(app) /\ Contexts = Threads \cup Cpus
  BY DEF IInvOf, Contexts
<1>2. x \in Threads
  BY <1>1 DEF CallInv, HandlerCall, NoCall, ExitCall
<1>3. ThreadCall(app, x, call[x]) /\ (call[x].op = "moveto" => Ready(x))
  BY <1>1, <1>2 DEF CallInv
<1>4. /\ x \in MoversOf(app) /\ call[x].op = "moveto" /\ call[x].thread = x
      /\ call[x].arg \in Cpus
  BY <1>3 DEF ThreadCall, NoCall
<1> QED BY <1>2, <1>3, <1>4

(* acoral_moveto_thread enters its critical section. *)
LEMMA MoveEnterKeeps ==
  ASSUME NEW app \in Apps, Disciplined(app), IInvOf(app), NEW c \in Cpus, NEW x, x = c \/ x = running[c],
         MoveEnter(c, x)
  PROVE  IInvOf(app)'
<1>1. /\ Has(c, x) /\ call[x].pc = "enter" /\ crit' = crit \cup {c}
      /\ SetCall(x, [call[x] EXCEPT !.pc = "spin"])
      /\ UNCHANGED <<state, cpu, move_lock, prio, queue, bitmap, num, running, stack, need_sched, irq_switch,
                     mailbox, release, tmp, walk, script>>
  BY DEF MoveEnter, moveVars, daemonVars, rqVars
<1>2. x \in Contexts /\ Acts(c, x) /\ call[x] \in CallRecords /\ (x \in Threads => x # c)
  BY <1>1, Acting
<1>3. /\ x \in Threads /\ x \in MoversOf(app) /\ call[x].op = "moveto" /\ call[x].thread = x
      /\ call[x].arg \in Cpus /\ Ready(x)
  BY <1>1, <1>2, MoveToBy
<1>4. Data' /\ SameFlags
  <2>1. Data /\ move_lock' \subseteq Threads
    BY <1>1 DEF IInvOf, Data, Shape
  <2> QED BY <1>1, <2>1, DataStutters
<1>5. OtherShape'
  BY <1>1 DEF IInvOf, OtherShape
<1>6. PICK k \in CallRecords : k = [call[x] EXCEPT !.pc = "spin"]
  BY <1>2 DEF CallRecords
<1>7. k.pc = "spin" /\ k.op = "moveto" /\ k.thread = x /\ k.arg = call[x].arg
  BY <1>2, <1>3, <1>6 DEF CallRecords
<1>8. Fits(app, x, k) /\ Tested(x, k)
  <2>1. "READY" \in state'[x] /\ x \notin Cpus
    BY <1>1, <1>3, SetsAssumption DEF Ready
  <2> QED BY <1>3, <1>7, <2>1 DEF Fits, Tested, ThreadCall
<1>9. Kept(x)
  BY <1>1, <1>2, <1>4, KeptSame
<1>10. Passing(x, k)
  <2>1. ~InTransit(x)
    BY <1>2, <1>3, NotAway
  <2> QED BY <1>1, <1>2, <1>7, <2>1, PassingAside
<1>11. Closed(c, x, k)
  BY <1>1, <1>2, <1>3, <1>7 DEF Closed
<1>12. call' = [call EXCEPT ![x] = k] /\ script' \subseteq app /\ HomeInv(app)'
  BY <1>1, <1>6 DEF SetCall, IInvOf, HomeInv
<1> QED BY <1>1, <1>2, <1>4, <1>5, <1>8, <1>9, <1>10, <1>11, <1>12, MailKept, ControlKeeps

(* acoral_moveto_thread takes its own thread out and locks it. *)
LEMMA MoveToKeeps ==
  ASSUME NEW app \in Apps, Disciplined(app), IInvOf(app), NEW c \in Cpus, NEW x, x = c \/ x = running[c],
         MoveTo(c, x)
  PROVE  IInvOf(app)'
<1>1. /\ Has(c, x) /\ call[x].pc = "spin" /\ call[x].op = "moveto"
      /\ move_lock' = move_lock \cup {call[x].thread}
      /\ UNCHANGED <<cpu, prio, running, stack, irq_switch, crit, mailbox, release, tmp, walk, script>>
  BY DEF MoveTo, daemonVars
<1>2. x \in Contexts /\ Acts(c, x) /\ (x \in Threads => x # c /\ cpu[x] = c)
  BY <1>1, Acting
<1>3. /\ x \in Threads /\ x \in MoversOf(app) /\ call[x].thread = x /\ call[x].arg \in Cpus /\ Ready(x)
      /\ \A d \in Cpus : x # Idle[d]
  BY <1>1, <1>2, MoveToBy, MoverThreads
<1>4. /\ RdyQueueDel(c, x) /\ state' = [state EXCEPT ![x] = DelFlags(@) \cup {"MOVE"}]
      /\ SetCall(x, CallAt("send", "movein", x, None, call[x].arg))
  BY <1>2, <1>3 DEF MoveTo, Ready
<1>5. /\ Data /\ TransitInv /\ OtherShape /\ move_lock \subseteq Threads /\ state \in [Threads -> SUBSET Flags]
      /\ call \in [Contexts -> CallRecords]
  BY DEF IInvOf, Data, Shape, CallShape
<1>6. PICK f \in SUBSET Flags : f = DelFlags(state[x]) \cup {"MOVE"}
  BY <1>3, <1>5 DEF DelFlags, Flags
<1>7. Data' /\ state'[x] = f /\ \A u \in Threads : u # x => state'[u] = state[u]
  <2>1. state' = [state EXCEPT ![x] = f] /\ "READY" \notin f
    BY <1>4, <1>6 DEF DelFlags
  <2>2. move_lock' \subseteq Threads /\ UNCHANGED <<cpu, prio, running>>
    BY <1>1, <1>3, <1>5
  <2>3. /\ Data /\ x \in Threads /\ Ready(x) /\ cpu[x] = c /\ RdyQueueDel(c, x)
        /\ \A d \in Cpus : x # Idle[d]
    BY <1>2, <1>3, <1>4, <1>5
  <2>4. f = {"EXIT"} \/ f = DelFlags(state[x]) \/ f = DelFlags(state[x]) \cup {"MOVE"}
    BY <1>6
  <2> QED BY <2>1, <2>2, <2>3, <2>4, DelKeeps
<1>8. PICK k \in CallRecords : k = CallAt("send", "movein", x, None, call[x].arg)
  BY <1>3 DEF CallAt, CallRecords, Ops
<1>9. k.pc = "send" /\ k.op = "movein" /\ k.thread = x /\ k.to = call[x].arg
  BY <1>8 DEF CallAt
<1>10. call' = [call EXCEPT ![x] = k] /\ script' \subseteq app /\ HomeInv(app)'
  BY <1>1, <1>4, <1>8 DEF SetCall, IInvOf, HomeInv
<1>11. call'[x] = k /\ \A y \in Contexts : y # x => call'[y] = call[y]
  BY <1>2, <1>5, <1>10
<1>12. Fits(app, x, k) /\ Tested(x, k)
  <2>1. x \notin Cpus
    BY <1>3, SetsAssumption
  <2> QED BY <1>3, <1>9, <2>1 DEF Fits, Tested, ThreadCall
<1>13. Kept(x)
  <2>1. Handles(x, x)
    BY <1>1, <1>3 DEF Handles
  <2> QED BY <1>1, <1>2, <1>3, <1>7, <2>1, KeptAlone
<1>14. ~InTransit(x)
  BY <1>1, <1>2, <1>3, NotAway
<1>15. TransitInv'
  <2>1. \A d \in Cpus, u \in Threads : Mailed(d, u)' <=> Mailed(d, u)
    BY <1>1 DEF Mailed
  <2>2. \A y \in Contexts, u \in Threads : Carries(y, u)' <=> (y # x /\ Carries(y, u)) \/ (y = x /\ u = x)
    BY <1>9, <1>11 DEF Carries
  <2>3. (\A y \in Contexts : ~Carries(y, x)) /\ \A d \in Cpus : ~Mailed(d, x)
    BY <1>14 DEF InTransit
  <2>4. ASSUME NEW u \in Threads, u # x, Underway(u) PROVE Underway(u)'
    BY <1>1, <1>7, <2>4 DEF Underway, Asleep
  <2>5. Underway(x)'
    BY <1>1, <1>3, <1>6, <1>7 DEF Underway, Asleep, DelFlags
  <2>6. ASSUME NEW u \in Threads, u # x, NEW y \in Contexts, Carries(y, u)'
        PROVE /\ Underway(u)' /\ (y = u \/ call'[u] = NoCall)
              /\ \A z \in Contexts : Carries(z, u)' => y = z
              /\ \A d \in Cpus : ~Mailed(d, u)'
    <3>1. Carries(y, u)
      BY <2>2, <2>6
    <3>2. /\ Underway(u) /\ (y = u \/ call[u] = NoCall)
          /\ \A z \in Contexts : Carries(z, u) => y = z
          /\ \A d \in Cpus : ~Mailed(d, u)
      BY <1>5, <3>1 DEF TransitInv
    <3>3. call'[u] = call[u]
      BY <1>11, <2>6 DEF Contexts
    <3>4. \A z \in Contexts : Carries(z, u)' => y = z
      BY <2>2, <2>6, <3>2
    <3> QED BY <2>1, <2>4, <2>6, <3>2, <3>3, <3>4
  <2>7. ASSUME NEW u \in Threads, NEW d \in Cpus, Mailed(d, u)'
        PROVE Underway(u)' /\ call'[u] = NoCall /\ \A e \in Cpus : Mailed(e, u)' => d = e
    <3>1. Mailed(d, u) /\ u # x
      BY <2>1, <2>3, <2>7
    <3>2. Underway(u) /\ call[u] = NoCall /\ \A e \in Cpus : Mailed(e, u) => d = e
      BY <1>5, <3>1 DEF TransitInv
    <3>3. call'[u] = call[u]
      BY <1>11, <3>1 DEF Contexts
    <3> QED BY <2>1, <2>4, <3>1, <3>2, <3>3
  <2>8. ASSUME NEW y \in Contexts, Carries(y, x)'
        PROVE /\ Underway(x)' /\ (y = x \/ call'[x] = NoCall)
              /\ \A z \in Contexts : Carries(z, x)' => y = z
              /\ \A d \in Cpus : ~Mailed(d, x)'
    BY <1>3, <2>1, <2>2, <2>3, <2>5, <2>8
  <2> QED BY <2>6, <2>7, <2>8 DEF TransitInv
<1>16. OtherShape' /\ Closed(c, x, k)
  BY <1>1, <1>5, <1>9 DEF OtherShape, Closed
<1> QED BY <1>1, <1>2, <1>7, <1>10, <1>12, <1>13, <1>15, <1>16, MailKept, ControlKeeps

(* acoral_movein_thread gets the lock only when no CPU runs the thread any *)
(* more.                                                                   *)
LEMMA MoveInKeeps ==
  ASSUME NEW app \in Apps, Disciplined(app), IInvOf(app), NEW c \in Cpus, NEW x, x = c \/ x = running[c],
         MoveIn(c, x)
  PROVE  IInvOf(app)'
<1>1. /\ Has(c, x) /\ call[x].pc = "spin" /\ call[x].op = "movein" /\ call[x].thread \notin move_lock
      /\ cpu' = [cpu EXCEPT ![call[x].thread] = c]
      /\ UNCHANGED <<state, prio, queue, bitmap, num, running, stack, need_sched, irq_switch, crit,
                     mailbox, release, tmp, walk, script>>
  BY DEF MoveIn, daemonVars, rqVars
<1>2. /\ x \in Contexts /\ Acts(c, x) /\ Contexts = Threads \cup Cpus
      /\ x \in Cpus <=> x = c
      /\ c \in crit => call[x].pc \in {"send", "daem"} \/ x # c
  BY <1>1, Acting DEF Contexts
<1>3. /\ Data /\ TransitInv /\ OtherShape /\ CallInv(app) /\ CommitInv /\ RunInv /\ Shape /\ FlagsInv
      /\ cpu \in [Threads -> Cpus] /\ move_lock \subseteq Threads /\ NoCall.pc = "none" /\ ExitCall.pc = "exit"
      /\ Threads \cap Cpus = {} /\ HomeInv(app)
  BY SetsAssumption DEF IInvOf, Data, Shape, NoCall, ExitCall
<1>4. x \notin Threads
  BY <1>1, <1>3 DEF CallInv, ThreadCall
<1>5. x = c
  BY <1>2, <1>4
<1>6. PICK t \in Threads : t = call[x].thread /\ t \in MoversOf(app)
  <2>1. HandlerCall(app, call[c])
    BY <1>3 DEF CallInv
  <2>2. call[c].thread \in MoversOf(app)
    BY <1>1, <1>3, <1>5, <2>1 DEF HandlerCall
  <2> QED BY <1>5, <2>2, MoverThreads
<1>7. Carries(x, t) /\ x # t
  BY <1>1, <1>4, <1>6 DEF Carries
<1>8. /\ Underway(t) /\ call[t] = NoCall
      /\ \A y \in Contexts : Carries(y, t) => x = y
  BY <1>2, <1>3, <1>7 DEF TransitInv
<1>9. Asleep(t) /\ ~Ready(t) /\ \A d \in Cpus : running[d] # t
  <2>1. Asleep(t) /\ running[cpu[t]] # t
    BY <1>1, <1>6, <1>8 DEF Underway
  <2> QED BY <1>3, <2>1, FlagsExclude DEF RunInv
<1>10. move_lock' = move_lock \cup {t} /\ SetCall(x, CallAt("commit", "movein", t, None, None))
  BY <1>6, <1>9 DEF MoveIn, Asleep
<1>11. cpu' \in [Threads -> Cpus] /\ cpu'[t] = c /\ \A u \in Threads : u # t => cpu'[u] = cpu[u]
  BY <1>1, <1>3, <1>6
<1>12. Data'
  <2>1. Shape'
    BY <1>1, <1>3, <1>10, <1>11 DEF Shape
  <2>2. FlagsInv' /\ ~Ready(t)'
    BY <1>1, <1>3, <1>9 DEF FlagsInv, Ready, Asleep
  <2>3. Outside(t)
    BY <1>1, <1>11 DEF Outside
  <2> QED BY <1>3, <1>9, <2>1, <2>2, <2>3, OutsideKeeps
<1>13. HomeInv(app)'
  BY <1>3, <1>6, <1>11 DEF HomeInv
<1>14. PICK k \in CallRecords : k = CallAt("commit", "movein", t, None, None)
  BY DEF CallAt, CallRecords, Ops
<1>15. k.pc = "commit" /\ k.op = "movein" /\ k.thread = t
  BY <1>14 DEF CallAt
<1>16. Fits(app, x, k) /\ Tested(x, k)
  BY <1>1, <1>4, <1>5, <1>6, <1>9, <1>11, <1>15 DEF Fits, Tested, HandlerCall, Asleep
<1>17. Kept(x)
  <2>1. ASSUME NEW y \in Threads, call[y].op = "moveto" PROVE Ready(y)'
    BY <1>1, <1>3, <2>1 DEF CallInv, Ready
  <2>2. ASSUME NEW y \in Contexts, y # x, call[y].pc = "commit" PROVE Tested(y, call[y])
    <3>1. call[y].thread \in Threads
      BY <2>2, CommitBy
    <3>2. y # t
      BY <1>3, <1>8, <2>2
    <3>3. call[y].thread # t
      <4> SUFFICES ASSUME call[y].thread = t PROVE FALSE
        OBVIOUS
      <4>1. call[y].op = "movein"
        BY <1>6, <2>2, <3>2, CommitBy
      <4>2. Carries(y, t)
        BY <4>1 DEF Carries
      <4> QED BY <1>8, <2>2, <4>2
    <3>4. /\ cpu[call[y].thread] = Home(y)
          /\ call[y].op \in {"ready", "movein"} => Asleep(call[y].thread)
          /\ call[y].op = "suspend" => Ready(call[y].thread)
      BY <1>3, <2>2 DEF CommitInv
    <3>5. cpu'[call[y].thread] = cpu[call[y].thread] /\ (y \notin Cpus => cpu'[y] = cpu[y])
      BY <1>2, <1>11, <3>1, <3>2, <3>3
    <3> QED BY <1>1, <3>4, <3>5 DEF Tested, Home, Ready, Asleep
  <2>3. \A y \in Contexts : call[y].pc # "commit" => Tested(y, call[y])
    BY DEF Tested
  <2> QED BY <2>1, <2>2, <2>3 DEF Kept
<1>18. Passing(x, k)
  <2>1. ASSUME NEW u \in Threads, InTransit(u) PROVE Underway(u)'
    <3>1. Underway(u)
      BY <1>3, <2>1, BusyStays
    <3>2. CASE u = t
      BY <1>1, <1>9, <1>11, <3>2 DEF Underway, Asleep
    <3>3. CASE u # t
      BY <1>1, <1>10, <1>11, <3>1, <3>3 DEF Underway, Asleep
    <3> QED BY <3>2, <3>3
  <2> QED BY <1>1, <1>4, <1>6, <1>15, <2>1 DEF Passing
<1>19. OtherShape' /\ Closed(c, x, k)
  BY <1>1, <1>2, <1>3, <1>5 DEF OtherShape, Closed
<1>20. call' = [call EXCEPT ![x] = k] /\ script' \subseteq app
  BY <1>1, <1>10, <1>14 DEF SetCall, IInvOf
<1> QED BY <1>1, <1>2, <1>12, <1>13, <1>16, <1>17, <1>18, <1>19, <1>20, MailKept, ControlKeeps

(* acoral_ipi_cmd_send. *)
LEMMA SendKeeps ==
  ASSUME NEW app \in Apps, Disciplined(app), IInvOf(app), NEW c \in Cpus, NEW x, x = c \/ x = running[c],
         Send(c, x)
  PROVE  IInvOf(app)'
<1>1. /\ Has(c, x) /\ call[x].pc = "send" /\ mailbox[call[x].to] = None
      /\ mailbox' = [mailbox EXCEPT ![call[x].to] = Command(call[x].op, call[x].thread, call[x].arg)]
      /\ crit' = crit \ {c} /\ Return(x)
      /\ UNCHANGED <<state, cpu, prio, queue, bitmap, num, running, stack, need_sched, irq_switch,
                     release, tmp, walk, script>>
  BY DEF Send, daemonVars, rqVars
<1>2. /\ x \in Contexts /\ Acts(c, x) /\ Contexts = Threads \cup Cpus /\ call[x] \in CallRecords
      /\ x \in Threads => x = running[c]
  BY <1>1, Acting DEF Contexts
<1>3. /\ Data /\ TransitInv /\ OtherShape /\ CallInv(app) /\ move_lock \subseteq Threads
      /\ mailbox \in [Cpus -> Commands \cup {None}] /\ call \in [Contexts -> CallRecords]
      /\ \A d \in Cpus : Mail(app, mailbox[d])
      /\ NoCall.pc = "none" /\ ExitCall.pc = "exit"
  BY DEF IInvOf, Data, Shape, CallShape, NoCall, ExitCall, CallInv
<1>4. /\ call[x].to \in Cpus
      /\ RemoteOp(app, call[x]) \/ (x \in Threads /\ call[x].op = "movein" /\ call[x].thread = x /\ x \in MoversOf(app))
  <2>1. CASE x \in Threads
    BY <1>1, <1>3, <2>1 DEF CallInv, ThreadCall
  <2>2. CASE x \in Cpus
    BY <1>1, <1>3, <2>2 DEF CallInv, HandlerCall
  <2> QED BY <1>2, <2>1, <2>2
<1>5. call[x].thread \in Threads /\ call[x].op \in {"ready", "suspend", "chg_prio", "kill", "movein"}
  BY <1>4, RemoteTarget
<1>6. move_lock' = move_lock
  <2>1. CASE RemoteOp(app, call[x])
    BY <2>1, RemoteTarget DEF Send
  <2>2. CASE x \in Threads /\ call[x].op = "movein" /\ call[x].thread = x
    BY <1>2, <2>2 DEF Send
  <2> QED BY <1>4, <2>1, <2>2
<1>7. PICK m \in Commands : m = Command(call[x].op, call[x].thread, call[x].arg)
  BY <1>2, <1>5 DEF Command, Commands, CallRecords, Ops
<1>8. m.op = call[x].op /\ m.thread = call[x].thread /\ m.arg = call[x].arg
  BY <1>7 DEF Command
<1>9. /\ mailbox' \in [Cpus -> Commands \cup {None}] /\ mailbox'[call[x].to] = m
      /\ \A d \in Cpus : d # call[x].to => mailbox'[d] = mailbox[d]
  BY <1>1, <1>3, <1>4, <1>7
<1>10. Posts(app)
  <2>1. Mail(app, m)
    <3>1. CASE RemoteOp(app, call[x])
      BY <1>8, <3>1 DEF Mail, RemoteOp
    <3>2. CASE call[x].op = "movein" /\ call[x].thread \in MoversOf(app)
      BY <1>8, <3>2 DEF Mail
    <3> QED BY <1>4, <3>1, <3>2
  <2>2. ASSUME NEW d \in Cpus PROVE Mail(app, mailbox'[d])
    BY <1>3, <1>9, <2>1
  <2> QED BY <1>9, <2>2 DEF Posts
<1>11. Data' /\ SameFlags /\ OtherShape' /\ Kept(x)
  <2>1. Data' /\ SameFlags
    BY <1>1, <1>3, <1>6, DataStutters
  <2>2. OtherShape'
    BY <1>1, <1>3 DEF OtherShape
  <2> QED BY <1>1, <1>2, <2>1, <2>2, KeptSame
<1>12. ASSUME RemoteOp(app, call[x]) PROVE Unsent /\ Passing(x, Returned(x))
  <2>1. call[x].op # "movein"
    BY <1>12, RemoteTarget
  <2>2. Unsent
    <3> SUFFICES ASSUME NEW d \in Cpus, NEW t \in Threads, Mailed(d, t)' PROVE Mailed(d, t)
      BY DEF Unsent
    <3>1. d # call[x].to
      BY <1>8, <1>9, <2>1 DEF Mailed
    <3> QED BY <1>9, <3>1 DEF Mailed
  <2> QED BY <1>1, <1>2, <1>6, <2>2, PassingAside, ReturnFits
<1>13. ASSUME x \in Threads, call[x].op = "movein", call[x].thread = x PROVE TransitInv'
  <2>1. call'[x] = NoCall /\ \A y \in Contexts : y # x => call'[y] = call[y]
    BY <1>1, <1>2, <1>3, <1>13, ReturnFits DEF Return, SetCall
  <2>2. \A y \in Contexts, t \in Threads : Carries(y, t)' => y # x /\ Carries(y, t)
    BY <2>1 DEF Carries, NoCall
  <2>3. /\ Underway(x) /\ (\A y \in Contexts : Carries(y, x) => x = y)
        /\ \A d \in Cpus : ~Mailed(d, x)
    BY <1>2, <1>3, <1>13 DEF TransitInv, Carries
  <2>4. \A t \in Threads : Underway(t) => Underway(t)'
    BY <1>1, <1>6 DEF Underway, Asleep
  <2>5. \A d \in Cpus, t \in Threads : Mailed(d, t)' => Mailed(d, t) \/ (t = x /\ d = call[x].to)
    <3> SUFFICES ASSUME NEW d \in Cpus, NEW t \in Threads, Mailed(d, t)', d = call[x].to PROVE t = x
      BY <1>9 DEF Mailed
    <3> QED BY <1>8, <1>9, <1>13 DEF Mailed
  <2>6. ASSUME NEW t \in Threads, NEW y \in Contexts, Carries(y, t)'
        PROVE /\ Underway(t)' /\ (y = t \/ call'[t] = NoCall)
              /\ \A z \in Contexts : Carries(z, t)' => y = z
              /\ \A d \in Cpus : ~Mailed(d, t)'
    <3>1. Carries(y, t) /\ y # x /\ t # x
      BY <2>2, <2>3, <2>6
    <3>2. /\ Underway(t) /\ (y = t \/ call[t] = NoCall)
          /\ \A z \in Contexts : Carries(z, t) => y = z
          /\ \A d \in Cpus : ~Mailed(d, t)
      BY <1>3, <3>1 DEF TransitInv
    <3>3. call'[t] = call[t]
      BY <1>2, <2>1, <3>1
    <3> QED BY <2>2, <2>4, <2>5, <3>1, <3>2, <3>3
  <2>7. ASSUME NEW t \in Threads, NEW d \in Cpus, Mailed(d, t)'
        PROVE Underway(t)' /\ call'[t] = NoCall /\ \A e \in Cpus : Mailed(e, t)' => d = e
    <3>1. CASE t = x
      BY <2>1, <2>3, <2>4, <2>5, <2>7, <3>1
    <3>2. CASE t # x
      <4>1. Mailed(d, t)
        BY <2>5, <2>7, <3>2
      <4>2. Underway(t) /\ call[t] = NoCall /\ \A e \in Cpus : Mailed(e, t) => d = e
        BY <1>3, <4>1 DEF TransitInv
      <4>3. call'[t] = call[t]
        BY <1>2, <2>1, <3>2
      <4> QED BY <2>4, <2>5, <3>2, <4>2, <4>3
    <3> QED BY <3>1, <3>2
  <2> QED BY <2>6, <2>7 DEF TransitInv
<1>14. (Unsent /\ Passing(x, Returned(x))) \/ TransitInv'
  BY <1>4, <1>12, <1>13
<1>15. cpu' = cpu /\ running' = running /\ script' = script /\ crit' \subseteq crit /\ c \notin crit'
  BY <1>1
<1> QED BY <1>1, <1>10, <1>11, <1>14, <1>15, ReturnKeeps

(* A call that begins keeps the invariant, if it is one its context can be *)
(* about.                                                                  *)
LEMMA StartKeeps ==
  ASSUME NEW app \in Apps, Disciplined(app), IInvOf(app), NEW c \in Cpus, NEW x \in Contexts, Acts(c, x),
         c \notin crit, NEW k \in CallRecords, call' = [call EXCEPT ![x] = k], Posts(app),
         UNCHANGED <<state, cpu, move_lock, prio, queue, bitmap, num, running, stack, need_sched, irq_switch, crit>>,
         OtherShape', script' \subseteq app, Fits(app, x, k), Tested(x, k),
         (Unsent /\ k.op # "movein" /\ (x \in Threads => ~InTransit(x))) \/ TransitInv'
  PROVE  IInvOf(app)'
<1>1. Data /\ move_lock' \subseteq Threads /\ HomeInv(app)'
  BY DEF IInvOf, Data, Shape, HomeInv
<1>2. Data' /\ SameFlags
  BY <1>1, DataStutters
<1>3. Kept(x)
  BY <1>2, KeptSame
<1>4. ASSUME Unsent, k.op # "movein", x \in Threads => ~InTransit(x) PROVE Passing(x, k)
  BY <1>4, PassingAside
<1>5. Closed(c, x, k)
  BY DEF Closed
<1> QED BY <1>1, <1>2, <1>3, <1>4, <1>5, ControlKeeps

(* acoral_ipi_cmd_send with interrupts open: the mailbox is filled. *)
LEMMA SendFillKeeps ==
  ASSUME NEW app \in Apps, Disciplined(app), IInvOf(app), NEW c \in Cpus, SendFill(c)
  PROVE  IInvOf(app)'
<1> DEFINE x == running[c]
           k == CallAt("sgi", "none", None, None, call[x].to)
<1>1. /\ Has(c, x) /\ call[x].pc = "send" /\ call[x].op \in {"ready", "suspend", "chg_prio", "kill"}
      /\ c \notin crit
      /\ mailbox' = [mailbox EXCEPT ![call[x].to] = Command(call[x].op, call[x].thread, call[x].arg)]
      /\ call' = [call EXCEPT ![x] = k]
      /\ UNCHANGED <<state, cpu, move_lock, prio, queue, bitmap, num, running, stack, need_sched, irq_switch,
                     crit, release, tmp, walk, script>>
  BY DEF SendFill, SetCall, moveVars, daemonVars, rqVars
<1>2. /\ Data /\ TransitInv /\ OtherShape /\ CallInv(app) /\ script' \subseteq app
      /\ mailbox \in [Cpus -> Commands \cup {None}] /\ running \in [Cpus -> Threads]
      /\ \A d \in Cpus : Mail(app, mailbox[d])
      /\ NoCall.pc = "none" /\ NoCall.op = "none"
  BY <1>1 DEF IInvOf, Data, Shape, CallShape, NoCall, CallInv
<1>3. /\ x \in Contexts /\ x \in Threads /\ Acts(c, x) /\ call[x] \in CallRecords
  BY <1>1, <1>2, Acting DEF Contexts
<1>4. call[x].to \in Cpus /\ RemoteOp(app, call[x])
  BY <1>1, <1>2, <1>3 DEF CallInv, ThreadCall
<1>5. call[x].thread \in Threads
  BY <1>4, RemoteTarget
<1>6. k \in CallRecords /\ k.pc = "sgi" /\ k.op = "none"
  BY <1>4 DEF CallAt, CallRecords
<1>7. PICK m \in Commands : m = Command(call[x].op, call[x].thread, call[x].arg)
  BY <1>1, <1>3, <1>5 DEF Command, Commands, CallRecords, Ops
<1>8. m.op = call[x].op /\ m.thread = call[x].thread /\ m.arg = call[x].arg
  BY <1>7 DEF Command
<1>9. /\ mailbox' \in [Cpus -> Commands \cup {None}] /\ mailbox'[call[x].to] = m
      /\ \A d \in Cpus : d # call[x].to => mailbox'[d] = mailbox[d]
  BY <1>1, <1>2, <1>4, <1>7
<1>10. Posts(app)
  <2>1. Mail(app, m)
    BY <1>4, <1>8 DEF Mail, RemoteOp
  <2>2. ASSUME NEW d \in Cpus PROVE Mail(app, mailbox'[d])
    BY <1>2, <1>9, <2>1
  <2> QED BY <1>9, <2>2 DEF Posts
<1>11. Unsent
  <2> SUFFICES ASSUME NEW d \in Cpus, NEW t \in Threads, Mailed(d, t)' PROVE Mailed(d, t)
    BY DEF Unsent
  <2>1. d # call[x].to
    BY <1>1, <1>8, <1>9 DEF Mailed
  <2> QED BY <1>9, <2>1 DEF Mailed
<1>12. ~InTransit(x)
  BY <1>1, <1>2, <1>3, BusyStays
<1>13. Fits(app, x, k)
  BY <1>3, <1>6, SetsAssumption DEF Fits, ThreadCall
<1>14. Tested(x, k)
  BY <1>6 DEF Tested
<1>15. OtherShape'
  BY <1>1, <1>2 DEF OtherShape
<1> HIDE DEF x, k
<1> QED BY <1>1, <1>2, <1>3, <1>6, <1>10, <1>11, <1>12, <1>13, <1>14, <1>15, StartKeeps

(* ... and the interrupt raised. *)
LEMMA SendSignalKeeps ==
  ASSUME NEW app \in Apps, Disciplined(app), IInvOf(app), NEW c \in Cpus, SendSignal(c)
  PROVE  IInvOf(app)'
<1> DEFINE x == running[c]
<1>1. /\ Has(c, x) /\ call[x].pc = "sgi" /\ Return(x)
      /\ UNCHANGED <<state, cpu, move_lock, prio, queue, bitmap, num, running, stack, need_sched, irq_switch,
                     crit, mailbox, release, tmp, walk, script>>
  BY DEF SendSignal, moveVars, daemonVars, rqVars
<1>2. /\ Data /\ OtherShape /\ TransitInv /\ move_lock' \subseteq Threads /\ running \in [Cpus -> Threads]
      /\ NoCall.pc = "none"
  BY <1>1 DEF IInvOf, Data, Shape, NoCall
<1>3. x \in Contexts /\ x \in Threads /\ c \notin crit
  BY <1>1, <1>2, Acting DEF Contexts
<1>4. Data' /\ SameFlags
  BY <1>1, <1>2, DataStutters
<1>5. OtherShape'
  BY <1>1, <1>2 DEF OtherShape
<1>6. Kept(x)
  BY <1>1, <1>3, <1>4, KeptSame
<1>7. PICK k : k = Returned(x) /\ k = NoCall /\ k.op # "movein"
  BY <1>3, ReturnFits DEF NoCall
<1>8. Passing(x, k)
  BY <1>1, <1>3, <1>7, PassingAside
<1>9. Posts(app) /\ Unsent
  BY <1>1, MailKept
<1> HIDE DEF x
<1>10. x = running[c]
  BY DEF x
<1> QED BY <1>1, <1>3, <1>4, <1>5, <1>6, <1>7, <1>8, <1>9, <1>10, ReturnKeeps

-----------------------------------------------------------------------------
(* The beginnings of calls *)

(* Where acoral_rdy_thread, acoral_suspend_thread, acoral_thread_change_prio *)
(* and acoral_kill_thread go on.                                             *)
LEMMA Routes ==
  ASSUME NEW c \in Cpus, NEW x \in Contexts, (IF x \in Cpus THEN x ELSE cpu[x]) = c,
         NEW m, m.op \in {"ready", "suspend", "chg_prio", "kill"}, m.thread \in Threads,
         m.arg \in Prios \cup Cpus \cup {None}, cpu \in [Threads -> Cpus]
  PROVE  \E k \in CallRecords :
           /\ k = Route(c, x, m)
           /\ \/ k = Returned(x)
              \/ k.op = m.op /\ k.thread = m.thread /\ k.arg = m.arg /\ k.pc \in {"commit", "send"}
           /\ k.pc = "commit" => /\ cpu[k.thread] = (IF x \in Cpus THEN x ELSE cpu[x])
                                 /\ k.op = "ready" => Asleep(k.thread)
                                 /\ k.op = "suspend" => Ready(k.thread)
           /\ k.pc = "send" => k.to = cpu[m.thread] /\ cpu[m.thread] # c /\ k.to \in Cpus
<1> DEFINE local == CallAt("commit", m.op, m.thread, m.arg, None)
           remote == CallAt("send", m.op, m.thread, m.arg, cpu[m.thread])
           here == IF cpu[m.thread] = c THEN local ELSE remote
<1>1. local \in CallRecords /\ remote \in CallRecords /\ Returned(x) \in CallRecords
  BY DEF CallAt, CallRecords, Ops, Returned, NoCall, ExitCall
<1>2. Returned(x).pc \in {"none", "exit"}
  BY DEF Returned, NoCall, ExitCall
<1>3. /\ local.pc = "commit" /\ local.op = m.op /\ local.thread = m.thread /\ local.arg = m.arg
      /\ remote.pc = "send" /\ remote.op = m.op /\ remote.thread = m.thread /\ remote.arg = m.arg
      /\ remote.to = cpu[m.thread]
  BY DEF CallAt
<1>4. /\ m.op = "ready" => Route(c, x, m) = IF Asleep(m.thread) THEN here ELSE Returned(x)
      /\ m.op = "suspend" => Route(c, x, m) = IF Ready(m.thread) THEN here ELSE Returned(x)
      /\ m.op \in {"chg_prio", "kill"} => Route(c, x, m) = here
  BY DEF Route, Asleep, Ready
<1>5. CASE Route(c, x, m) = Returned(x)
  BY <1>1, <1>2, <1>5
<1>6. CASE Route(c, x, m) # Returned(x)
  <2>1. /\ Route(c, x, m) = here
        /\ m.op = "ready" => Asleep(m.thread)
        /\ m.op = "suspend" => Ready(m.thread)
    BY <1>4, <1>6
  <2> HIDE DEF local, remote
  <2>2. CASE cpu[m.thread] = c
    BY <1>1, <1>3, <2>1, <2>2
  <2>3. CASE cpu[m.thread] # c
    BY <1>1, <1>3, <2>1, <2>3
  <2> QED BY <2>2, <2>3
<1> QED BY <1>5, <1>6

(* The thread that has its CPU and is in no call is ready, and at home on  *)
(* the CPU.                                                                *)
LEMMA FreeThread ==
  ASSUME NEW app \in Apps, Disciplined(app), IInvOf(app), NEW c \in Cpus, NEW x, x = running[c],
         Has(c, x), call[x] = NoCall
  PROVE  /\ x \in Threads /\ x \in Contexts /\ x \notin Cpus /\ Acts(c, x) /\ c \notin crit /\ Ready(x)
         /\ cpu[x] = c /\ ~InTransit(x)
<1>1. x \in Threads /\ NoCall.pc = "none" /\ Threads \cap Cpus = {} /\ TransitInv /\ FlagsInv
  BY SetsAssumption DEF IInvOf, Data, Shape, NoCall
<1>2. /\ x \in Contexts /\ Acts(c, x) /\ cpu[x] = c /\ c \notin crit /\ Ready(x)
  BY <1>1, Acting
<1>3. ~InTransit(x)
  <2> SUFFICES ASSUME InTransit(x) PROVE FALSE
    OBVIOUS
  <2>1. Asleep(x)
    BY <1>1, BusyStays DEF Underway
  <2> QED BY <1>1, <1>2, <2>1, FlagsExclude
<1> QED BY <1>1, <1>2, <1>3

(* A thread begins a call of the application. *)
LEMMA BeginKeeps ==
  ASSUME NEW app \in Apps, Disciplined(app), IInvOf(app), NEW c \in Cpus, NEW l \in script, Begin(c, l)
  PROVE  IInvOf(app)'
<1>1. PICK x : x = running[c]
  OBVIOUS
<1>2. /\ Has(c, x) /\ call[x] = NoCall /\ l.by = x /\ script' \subseteq script
      /\ SetCall(x, Route(c, x, l))
      /\ UNCHANGED <<state, cpu, move_lock, prio, queue, bitmap, num, running, stack, need_sched, irq_switch, crit,
                     mailbox, release, tmp, walk>>
  BY <1>1 DEF Begin, moveVars, rqVars, daemonVars
<1>3. /\ x \in Threads /\ x \in Contexts /\ x \notin Cpus /\ Acts(c, x) /\ c \notin crit /\ Ready(x)
      /\ cpu[x] = c /\ ~InTransit(x)
  BY <1>1, <1>2, FreeThread
<1>4. l \in app /\ script' \subseteq app /\ HomeInv(app) /\ cpu \in [Threads -> Cpus] /\ OtherShape'
  BY <1>2 DEF IInvOf, Data, Shape, OtherShape
<1>5. /\ l.thread \in Threads /\ l.op \in Ops \ {"movein"} /\ l.arg \in Prios \cup Cpus \cup {None}
      /\ l.op = "chg_prio" => l.arg \in Prios
      /\ l.op = "moveto" => l.arg \in Cpus /\ l.thread \in MoversOf(app)
      /\ l.thread \in MoversOf(app) => x = l.thread /\ LocalCall(l)
      /\ x \in MoversOf(app) => x = l.thread
  BY <1>2, <1>4, AppCalls
<1>6. LocalCall(l) <=> cpu[l.thread] = c
  <2>1. CASE l.thread \in MoversOf(app)
    BY <1>3, <1>5, <2>1
  <2>2. CASE l.thread \notin MoversOf(app)
    <3>1. x \notin MoversOf(app)
      BY <1>5, <2>2
    <3>2. cpu[x] = InitCpu[x] /\ cpu[l.thread] = InitCpu[l.thread]
      BY <1>3, <1>4, <1>5, <2>2, <3>1 DEF HomeInv
    <3> QED BY <1>2, <1>3, <3>2 DEF LocalCall
  <2> QED BY <2>1, <2>2
<1>7. CASE l.op = "moveto"
  <2>1. l.thread = x /\ l.arg \in Cpus /\ x \in MoversOf(app)
    BY <1>5, <1>7
  <2>2. Route(c, x, l) = IF cpu[x] = l.arg THEN Returned(x) ELSE CallAt("enter", "moveto", x, l.arg, None)
    BY <1>7, <2>1 DEF Route
  <2>3. PICK k \in CallRecords : k = Route(c, x, l)
    <3>1. CallAt("enter", "moveto", x, l.arg, None) \in CallRecords
      BY <1>3, <2>1 DEF CallAt, CallRecords, Ops
    <3> QED BY <1>3, <2>2, <3>1, ReturnFits
  <2>4. Fits(app, x, k) /\ Tested(x, k) /\ k.op # "movein"
    <3>1. CASE k = Returned(x)
      BY <1>3, <3>1, ReturnFits
    <3>2. CASE k = CallAt("enter", "moveto", x, l.arg, None)
      <4>1. k.pc = "enter" /\ k.op = "moveto" /\ k.thread = x /\ k.arg = l.arg
        BY <3>2 DEF CallAt
      <4>2. "READY" \in state'[x]
        BY <1>2, <1>3 DEF Ready
      <4> QED BY <1>3, <2>1, <4>1, <4>2 DEF Fits, Tested, ThreadCall
    <3> QED BY <2>2, <2>3, <3>1, <3>2
  <2>5. call' = [call EXCEPT ![x] = k]
    BY <1>2, <2>3 DEF SetCall
  <2> QED BY <1>2, <1>3, <1>4, <2>4, <2>5, MailKept, StartKeeps
<1>8. CASE l.op # "moveto"
  <2>0. l.op \in {"ready", "suspend", "chg_prio", "kill"}
    BY <1>5, <1>8 DEF Ops
  <2>1. PICK k \in CallRecords :
           /\ k = Route(c, x, l)
           /\ \/ k = Returned(x)
              \/ k.op = l.op /\ k.thread = l.thread /\ k.arg = l.arg /\ k.pc \in {"commit", "send"}
           /\ k.pc = "commit" => /\ cpu[k.thread] = (IF x \in Cpus THEN x ELSE cpu[x])
                                 /\ k.op = "ready" => Asleep(k.thread)
                                 /\ k.op = "suspend" => Ready(k.thread)
           /\ k.pc = "send" => k.to = cpu[l.thread] /\ cpu[l.thread] # c /\ k.to \in Cpus
    BY <1>3, <1>4, <1>5, <2>0, Routes
  <2>2. Fits(app, x, k) /\ Tested(x, k) /\ k.op # "movein"
    <3>1. CASE k = Returned(x)
      BY <1>3, <3>1, ReturnFits
    <3>2. CASE k # Returned(x) /\ k.pc = "commit"
      <4>1. k.op = l.op /\ k.thread = l.thread /\ k.arg = l.arg
        BY <2>1, <3>2
      <4>2. OwnOp(app, x, k)
        BY <1>2, <1>3, <1>4, <1>5, <1>6, <2>0, <2>1, <3>2, <4>1 DEF OwnOp
      <4>3. Fits(app, x, k)
        BY <1>3, <2>0, <3>2, <4>1, <4>2 DEF Fits, ThreadCall
      <4>4. Tested(x, k)
        BY <1>2, <2>0, <2>1, <3>2, <4>1 DEF Tested, Ready, Asleep
      <4> QED BY <2>0, <4>1, <4>3, <4>4
    <3>3. CASE k # Returned(x) /\ k.pc = "send"
      <4>1. k.op = l.op /\ k.thread = l.thread /\ k.arg = l.arg /\ k.to \in Cpus /\ cpu[l.thread] # c
        BY <2>1, <3>3
      <4>2. RemoteOp(app, k)
        BY <1>4, <1>5, <1>6, <2>0, <4>1 DEF RemoteOp
      <4>3. Fits(app, x, k)
        BY <1>3, <2>0, <3>3, <4>1, <4>2 DEF Fits, ThreadCall
      <4>4. Tested(x, k)
        BY <3>3 DEF Tested
      <4> QED BY <2>0, <4>1, <4>3, <4>4
    <3> QED BY <2>1, <3>1, <3>2, <3>3
  <2>3. call' = [call EXCEPT ![x] = k]
    BY <1>2, <2>1 DEF SetCall
  <2> QED BY <1>2, <1>3, <1>4, <2>2, <2>3, MailKept, StartKeeps
<1> QED BY <1>7, <1>8

(* An interrupt handler that is to carry out operation m. *)
LEMMA HandlerStarts ==
  ASSUME NEW app \in Apps, Disciplined(app), IInvOf(app), NEW c \in Cpus, c \notin crit, NEW m, RemoteOp(app, m),
         m.arg \in Prios \cup Cpus \cup {None}, call' = [call EXCEPT ![c] = Route(c, c, m)], Posts(app), Unsent,
         UNCHANGED <<state, cpu, move_lock, prio, queue, bitmap, num, running, stack, need_sched, irq_switch, crit>>,
         OtherShape', script' \subseteq app
  PROVE  IInvOf(app)'
<1>1. c \in Contexts /\ c \notin Threads /\ Acts(c, c) /\ cpu \in [Threads -> Cpus]
  BY SetsAssumption DEF Contexts, Acts, IInvOf, Data, Shape
<1>2. m.thread \in Threads /\ m.op \in {"ready", "suspend", "chg_prio", "kill"}
  BY RemoteTarget
<1>3. PICK k \in CallRecords :
           /\ k = Route(c, c, m)
           /\ \/ k = Returned(c)
              \/ k.op = m.op /\ k.thread = m.thread /\ k.arg = m.arg /\ k.pc \in {"commit", "send"}
           /\ k.pc = "commit" => /\ cpu[k.thread] = (IF c \in Cpus THEN c ELSE cpu[c])
                                 /\ k.op = "ready" => Asleep(k.thread)
                                 /\ k.op = "suspend" => Ready(k.thread)
           /\ k.pc = "send" => k.to = cpu[m.thread] /\ cpu[m.thread] # c /\ k.to \in Cpus
  BY <1>1, <1>2, Routes
<1>4. Fits(app, c, k) /\ Tested(c, k) /\ k.op # "movein"
  <2>1. CASE k = Returned(c)
    BY <1>1, <2>1, ReturnFits
  <2>2. CASE k # Returned(c)
    <3>1. k.op = m.op /\ k.thread = m.thread /\ k.arg = m.arg /\ k.pc \in {"commit", "send"}
      BY <1>3, <2>2
    <3>2. RemoteOp(app, k)
      BY <3>1 DEF RemoteOp
    <3>3. Fits(app, c, k)
      BY <1>1, <1>3, <3>1, <3>2 DEF Fits, HandlerCall
    <3>4. Tested(c, k)
      BY <1>2, <1>3, <3>1 DEF Tested, Ready, Asleep
    <3> QED BY <1>2, <3>1, <3>3, <3>4
  <2> QED BY <2>1, <2>2
<1>5. call' = [call EXCEPT ![c] = k]
  BY <1>3
<1> QED BY <1>1, <1>4, <1>5, StartKeeps

(* An interrupt handler begins a call of the application. *)
LEMMA InterruptKeeps ==
  ASSUME NEW app \in Apps, Disciplined(app), IInvOf(app), NEW c \in Cpus, NEW l \in script, Interrupt(c, l)
  PROVE  IInvOf(app)'
<1>1. /\ c \notin crit /\ l.by = c /\ script' \subseteq script
      /\ call' = [call EXCEPT ![c] = Route(c, c, l)]
      /\ UNCHANGED <<state, cpu, move_lock, prio, queue, bitmap, num, running, stack, need_sched, irq_switch, crit,
                     mailbox, release, tmp, walk>>
  BY DEF Interrupt, IrqOpen, SetCall, moveVars, rqVars, daemonVars
<1>2. l \in app /\ script' \subseteq app /\ OtherShape' /\ c \notin Threads
  BY <1>1, SetsAssumption DEF IInvOf, OtherShape
<1>3. RemoteOp(app, l) /\ l.arg \in Prios \cup Cpus \cup {None}
  <2>1. l.thread \in Threads /\ l.op \in Ops \ {"movein"} /\ l.arg \in Prios \cup Cpus \cup {None}
        /\ (l.op = "chg_prio" => l.arg \in Prios) /\ (l.op = "moveto" => l.thread \in MoversOf(app))
        /\ (l.thread \in MoversOf(app) => l.by = l.thread)
    BY <1>2, AppCalls
  <2>2. l.op \in {"ready", "suspend", "chg_prio", "kill"}
    BY <1>1, <1>2, <2>1 DEF Ops
  <2>3. ~LocalCall(l)
    BY <1>1, <1>2 DEF LocalCall
  <2> QED BY <1>2, <2>1, <2>2, <2>3 DEF RemoteOp
<1> QED BY <1>1, <1>2, <1>3, MailKept, HandlerStarts

(* acoral_ipi_cmd_handler takes a command out of its mailbox. *)
LEMMA IpiCmdKeeps ==
  ASSUME NEW app \in Apps, Disciplined(app), IInvOf(app), NEW c \in Cpus, IpiCmd(c)
  PROVE  IInvOf(app)'
<1>1. /\ c \notin crit /\ call[c] = NoCall /\ mailbox[c] # None
      /\ call' = [call EXCEPT ![c] = Route(c, c, mailbox[c])]
      /\ mailbox' = [mailbox EXCEPT ![c] = None]
      /\ UNCHANGED <<state, cpu, move_lock, prio, queue, bitmap, num, running, stack, need_sched, irq_switch, crit,
                     release, tmp, walk, script>>
  BY DEF IpiCmd, IrqOpen, SetCall, moveVars, rqVars, daemonVars
<1>2. /\ script' \subseteq app /\ OtherShape' /\ c \in Contexts /\ c \notin Threads /\ Threads \subseteq Contexts
      /\ mailbox \in [Cpus -> Commands \cup {None}] /\ call \in [Contexts -> CallRecords]
      /\ TransitInv /\ Acts(c, c) /\ Mail(app, mailbox[c])
  BY <1>1, SetsAssumption DEF IInvOf, OtherShape, CallShape, Contexts, Acts, CallInv
<1>3. /\ mailbox' \in [Cpus -> Commands \cup {None}] /\ mailbox'[c] = None
      /\ \A d \in Cpus : d # c => mailbox'[d] = mailbox[d]
  BY <1>1, <1>2
<1>4. Posts(app)
  <2>1. ASSUME NEW d \in Cpus PROVE Mail(app, mailbox'[d])
    <3>1. CASE d = c
      BY <1>3, <3>1 DEF Mail
    <3>2. CASE d # c
      BY <1>3, <3>2 DEF IInvOf, CallInv
    <3> QED BY <3>1, <3>2
  <2> QED BY <1>3, <2>1 DEF Posts
<1>5. Unsent /\ \A t \in Threads : ~Mailed(c, t)'
  BY <1>3 DEF Unsent, Mailed
<1>6. PICK m \in Commands : m = mailbox[c]
  BY <1>1, <1>2
<1>7. m.arg \in Prios \cup Cpus \cup {None}
  BY DEF Commands
<1>8. CASE RemoteOp(app, m)
  BY <1>1, <1>2, <1>4, <1>5, <1>6, <1>7, <1>8, HandlerStarts
<1>9. CASE m.op = "movein" /\ m.thread \in MoversOf(app)
  <2>1. PICK t \in Threads : t = m.thread /\ t \in MoversOf(app)
    BY <1>9, MoverThreads
  <2>2. PICK k \in CallRecords : k = Route(c, c, m) /\ k = CallAt("spin", "movein", t, m.arg, None)
    <3>1. Route(c, c, m) = CallAt("spin", "movein", t, m.arg, None)
      BY <1>9, <2>1 DEF Route
    <3>2. CallAt("spin", "movein", t, m.arg, None) \in CallRecords
      BY <1>7 DEF CallAt, CallRecords, Ops
    <3> QED BY <3>1, <3>2
  <2>3. k.pc = "spin" /\ k.op = "movein" /\ k.thread = t
    BY <2>2 DEF CallAt
  <2>4. /\ call' = [call EXCEPT ![c] = k] /\ call'[c] = k
        /\ \A y \in Contexts : y # c => call'[y] = call[y]
    BY <1>1, <1>2, <1>6, <2>2
  <2>5. Fits(app, c, k) /\ Tested(c, k)
    BY <1>2, <2>1, <2>3 DEF Fits, Tested, HandlerCall
  <2>6. TransitInv'
    <3>1. Mailed(c, t)
      BY <1>1, <1>6, <1>9, <2>1 DEF Mailed
    <3>2. Underway(t) /\ call[t] = NoCall /\ \A d \in Cpus : Mailed(d, t) => c = d
      BY <1>2, <3>1 DEF TransitInv
    <3>3. \A y \in Contexts : ~Carries(y, t)
      BY <1>2, <3>1 DEF TransitInv
    <3>4. \A y \in Contexts, u \in Threads : Carries(y, u)' => (y = c /\ u = t) \/ (y # c /\ Carries(y, u))
      BY <2>3, <2>4 DEF Carries
    <3>5. \A u \in Threads : Underway(u) => Underway(u)'
      BY <1>1 DEF Underway, Asleep
    <3>6. \A u \in Threads : call'[u] = call[u]
      BY <1>2, <2>4
    <3>7. \A d \in Cpus, u \in Threads : Mailed(d, u)' => Mailed(d, u) /\ d # c
      BY <1>5 DEF Unsent
    <3>8. ASSUME NEW u \in Threads, NEW y \in Contexts, Carries(y, u)'
          PROVE /\ Underway(u)' /\ (y = u \/ call'[u] = NoCall)
                /\ \A z \in Contexts : Carries(z, u)' => y = z
                /\ \A d \in Cpus : ~Mailed(d, u)'
      <4>1. CASE u = t
        <5>1. y = c /\ \A z \in Contexts : Carries(z, u)' => z = c
          BY <3>3, <3>4, <3>8, <4>1
        <5>2. \A d \in Cpus : ~Mailed(d, u)'
          BY <3>2, <3>7, <4>1
        <5> QED BY <3>2, <3>5, <3>6, <4>1, <5>1, <5>2
      <4>2. CASE u # t
        <5>1. Carries(y, u)
          BY <3>4, <3>8, <4>2
        <5>2. /\ Underway(u) /\ (y = u \/ call[u] = NoCall)
              /\ \A z \in Contexts : Carries(z, u) => y = z
              /\ \A d \in Cpus : ~Mailed(d, u)
          BY <1>2, <5>1 DEF TransitInv
        <5>3. \A z \in Contexts : Carries(z, u)' => y = z
          BY <3>4, <4>2, <5>2
        <5> QED BY <3>5, <3>6, <3>7, <5>2, <5>3
      <4> QED BY <4>1, <4>2
    <3>9. ASSUME NEW u \in Threads, NEW d \in Cpus, Mailed(d, u)'
          PROVE Underway(u)' /\ call'[u] = NoCall /\ \A e \in Cpus : Mailed(e, u)' => d = e
      <4>1. Mailed(d, u)
        BY <3>7, <3>9
      <4>2. Underway(u) /\ call[u] = NoCall /\ \A e \in Cpus : Mailed(e, u) => d = e
        BY <1>2, <4>1 DEF TransitInv
      <4> QED BY <3>5, <3>6, <3>7, <4>2
    <3> QED BY <3>8, <3>9 DEF TransitInv
  <2> QED BY <1>1, <1>2, <1>4, <2>4, <2>5, <2>6, StartKeeps
<1> QED BY <1>1, <1>2, <1>6, <1>8, <1>9 DEF Mail

(* The daemon goes to sleep. *)
LEMMA DaemSuspendKeeps ==
  ASSUME NEW app \in Apps, Disciplined(app), IInvOf(app), NEW c \in Cpus, DaemSuspend(c)
  PROVE  IInvOf(app)'
<1> DEFINE m == Command("suspend", Daem, None)
<1>1. /\ Has(c, Daem) /\ running[c] = Daem /\ call[Daem] = NoCall /\ walk' = "start"
      /\ call' = [call EXCEPT ![Daem] = Route(c, Daem, m)]
      /\ UNCHANGED <<state, cpu, move_lock, prio, queue, bitmap, num, running, stack, need_sched, irq_switch, crit,
                     mailbox, release, tmp, script>>
  BY DEF DaemSuspend, SetCall, moveVars, rqVars, daemonVars
<1>2. /\ Daem \in Threads /\ Daem \in Contexts /\ Daem \notin Cpus /\ Acts(c, Daem) /\ c \notin crit /\ Ready(Daem)
      /\ cpu[Daem] = c /\ ~InTransit(Daem)
  BY <1>1, FreeThread
<1>3. script' \subseteq app /\ OtherShape' /\ cpu \in [Threads -> Cpus]
  BY <1>1 DEF IInvOf, OtherShape, Data, Shape
<1>4. m.op = "suspend" /\ m.thread = Daem /\ m.arg = None
  BY DEF Command
<1> HIDE DEF m
<1>5. PICK k \in CallRecords : k = Route(c, Daem, m) /\ k.pc = "commit" /\ k.op = "suspend" /\ k.thread = Daem
  <2>1. Route(c, Daem, m) = CallAt("commit", "suspend", Daem, None, None)
    BY <1>2, <1>4 DEF Route, Ready
  <2>2. CallAt("commit", "suspend", Daem, None, None) \in CallRecords
    BY <1>2 DEF CallAt, CallRecords, Ops
  <2> QED BY <2>1, <2>2 DEF CallAt
<1>6. Fits(app, Daem, k) /\ Tested(Daem, k)
  BY <1>1, <1>2, <1>5 DEF Fits, Tested, ThreadCall, OwnOp, Ready
<1>7. call' = [call EXCEPT ![Daem] = k] /\ k.op # "movein"
  BY <1>1, <1>5
<1> QED BY <1>1, <1>2, <1>3, <1>6, <1>7, MailKept, StartKeeps

-----------------------------------------------------------------------------
(* Steps that leave the calls alone *)

(* Such a step keeps the invariant, if migrating threads stay locked while *)
(* they run.                                                               *)
LEMMA QuietKeeps ==
  ASSUME NEW app \in Apps, Disciplined(app), IInvOf(app), UNCHANGED <<call, mailbox, cpu, script>>, Data', SameFlags,
         OtherShape', CritInv', \A t \in Threads : InTransit(t) => Underway(t)'
  PROVE  IInvOf(app)'
<1>0. CallInv(app) /\ CommitInv /\ TransitInv
  BY DEF IInvOf
<1>1. CallShape' /\ script' \subseteq app /\ HomeInv(app)'
  BY DEF IInvOf, CallShape, HomeInv
<1>2. CallInv(app)'
  BY <1>0 DEF CallInv, SameFlags
<1>3. CommitInv'
  <2>1. ASSUME NEW y \in Contexts, call[y].pc = "commit"
        PROVE  /\ cpu[call[y].thread] = Home(y)'
               /\ call[y].op \in {"ready", "movein"} => "SUSPEND" \in state'[call[y].thread]
               /\ call[y].op = "suspend" => "READY" \in state'[call[y].thread]
    <3>1. call[y].thread \in Threads
      BY <2>1, CommitBy
    <3>2. /\ cpu[call[y].thread] = Home(y)
          /\ call[y].op \in {"ready", "movein"} => Asleep(call[y].thread)
          /\ call[y].op = "suspend" => Ready(call[y].thread)
      BY <1>0, <2>1 DEF CommitInv
    <3> QED BY <3>1, <3>2 DEF Home, SameFlags, Ready, Asleep
  <2> QED BY <2>1 DEF CommitInv, Ready, Asleep
<1>4. TransitInv'
  <2>1. \A t \in Threads : (\A y \in Contexts : Carries(y, t)' <=> Carries(y, t)) /\ \A d \in Cpus : Mailed(d, t)' <=> Mailed(d, t)
    BY DEF Carries, Mailed
  <2>2. ASSUME NEW t \in Threads, NEW y \in Contexts, Carries(y, t)'
        PROVE /\ Underway(t)' /\ (y = t \/ call'[t] = NoCall)
              /\ \A z \in Contexts : Carries(z, t)' => y = z
              /\ \A d \in Cpus : ~Mailed(d, t)'
    <3>1. Carries(y, t) /\ InTransit(t)
      BY <2>1, <2>2 DEF InTransit
    <3> QED BY <1>0, <2>1, <3>1 DEF TransitInv
  <2>3. ASSUME NEW t \in Threads, NEW d \in Cpus, Mailed(d, t)'
        PROVE Underway(t)' /\ call'[t] = NoCall /\ \A e \in Cpus : Mailed(e, t)' => d = e
    <3>1. Mailed(d, t) /\ InTransit(t)
      BY <2>1, <2>3 DEF InTransit
    <3> QED BY <1>0, <2>1, <3>1 DEF TransitInv
  <2> QED BY <2>2, <2>3 DEF TransitInv
<1> QED BY <1>1, <1>2, <1>3, <1>4 DEF IInvOf

(* Steps that also leave threads, queues and CPUs alone. *)
LEMMA IdlingKeeps ==
  ASSUME NEW app \in Apps, Disciplined(app), IInvOf(app),
         UNCHANGED <<state, cpu, move_lock, prio, queue, bitmap, num, running, need_sched, irq_switch, crit,
                     mailbox, call, script>>,
         OtherShape'
  PROVE  IInvOf(app)'
<1>0. Data /\ TransitInv /\ CritInv /\ move_lock' \subseteq Threads
  BY DEF IInvOf, Data, Shape
<1>1. Data' /\ SameFlags
  BY <1>0, DataStutters
<1>2. CritInv'
  BY <1>0 DEF CritInv
<1>3. ASSUME NEW t \in Threads, InTransit(t) PROVE Underway(t)'
  <2>1. Underway(t)
    BY <1>0, <1>3, BusyStays
  <2> QED BY <2>1 DEF Underway, Asleep
<1> QED BY <1>1, <1>2, <1>3, QuietKeeps

(* The daemon begins its walk. *)
LEMMA DaemStartKeeps ==
  ASSUME NEW app \in Apps, Disciplined(app), IInvOf(app), NEW c \in Cpus, DaemStart(c)
  PROVE  IInvOf(app)'
<1>1. /\ tmp' = (IF release = << >> THEN None ELSE Head(release)) /\ walk' = "walk"
      /\ UNCHANGED <<state, cpu, move_lock, prio, queue, bitmap, num, running, need_sched, irq_switch, crit,
                     mailbox, call, script, release, stack>>
  BY DEF DaemStart, moveVars, rqVars
<1>2. OtherShape /\ release \in Seq(Threads)
  BY DEF IInvOf, OtherShape
<1>3. tmp' \in Threads \cup {None}
  BY <1>1, <1>2, HeadMember
<1>4. OtherShape'
  BY <1>1, <1>2, <1>3 DEF OtherShape
<1> QED BY <1>1, <1>4, IdlingKeeps

(* The daemon's walk stays among the threads. *)
LEMMA NextInType ==
  ASSUME NEW q \in Seq(Threads), NEW t
  PROVE  NextIn(q, t) \in Threads \cup {None}
<1> DEFINE at == {i \in 1 .. Len(q) : q[i] = t}
<1>0. Len(q) \in Nat /\ \A i \in 1 .. Len(q) : q[i] \in Threads
  BY LenProperties, ElementOfSeq
<1>1. CASE at = {} \/ Min(at) = Len(q)
  BY <1>1 DEF NextIn
<1>2. CASE ~(at = {} \/ Min(at) = Len(q))
  <2>1. at \subseteq Nat /\ at # {}
    BY <1>0, <1>2
  <2>2. Min(at) \in at
    BY <2>1, MinOfNats
  <2> DEFINE i == Min(at)
  <2>3. i \in 1 .. Len(q) /\ i # Len(q)
    BY <1>2, <2>2
  <2>4. NextIn(q, t) = q[i + 1]
    BY <1>2 DEF NextIn
  <2> HIDE DEF i
  <2>5. i + 1 \in 1 .. Len(q)
    BY <1>0, <2>3
  <2> QED BY <1>0, <2>4, <2>5
<1> QED BY <1>1, <1>2

(* The daemon frees a thread that has left its CPU, or puts it off. *)
LEMMA DaemNodeKeeps ==
  ASSUME NEW app \in Apps, Disciplined(app), IInvOf(app), NEW c \in Cpus, DaemNode(c)
  PROVE  IInvOf(app)'
<1>1. /\ tmp # None /\ tmp' = NextIn(release, tmp)
      /\ \/ /\ state[tmp] = {"RELEASE"} /\ state' = [state EXCEPT ![tmp] = {"FREE"}]
            /\ release' = RemoveFirst(release, tmp)
         \/ state' = state /\ release' = Append(RemoveFirst(release, tmp), tmp)
      /\ UNCHANGED <<cpu, move_lock, prio, queue, bitmap, num, running, need_sched, irq_switch, crit,
                     mailbox, call, script, walk, stack>>
  BY DEF DaemNode, moveVars, rqVars
<1>2. /\ OtherShape /\ release \in Seq(Threads) /\ Data /\ CritInv /\ TransitInv /\ Shape /\ FlagsInv /\ RunInv
      /\ state \in [Threads -> SUBSET Flags]
  BY DEF IInvOf, OtherShape, Data, Shape
<1>3. PICK t \in Threads : t = tmp
  BY <1>1, <1>2 DEF OtherShape
<1>4. RemoveFirst(release, t) \in Seq(Threads)
  <2>1. CASE t \notin ToSet(release)
    BY <1>2, <2>1, RemoveFirstAt
  <2>2. CASE t \in ToSet(release)
    <3>1. PICK at \in 1 .. Len(release) : RemoveFirst(release, t) = RemoveAt(release, at)
      BY <1>2, <2>2, RemoveFirstAt
    <3> QED BY <1>2, <3>1, RemoveAtSeq
  <2> QED BY <2>1, <2>2
<1>5. OtherShape'
  <2>1. Append(RemoveFirst(release, t), t) \in Seq(Threads)
    BY <1>4, AppendProperties
  <2>2. release' \in Seq(Threads)
    BY <1>1, <1>3, <1>4, <2>1
  <2>3. tmp' \in Threads \cup {None}
    BY <1>1, <1>2, NextInType
  <2> QED BY <1>1, <1>2, <2>2, <2>3 DEF OtherShape
<1>6. CASE state' = state
  <2>1. UNCHANGED <<state, cpu, move_lock, prio, queue, bitmap, num, running, need_sched, irq_switch, crit,
                     mailbox, call, script>>
    BY <1>1, <1>6
  <2> QED BY <1>5, <2>1, IdlingKeeps
<1>7. CASE state[t] = {"RELEASE"} /\ state' = [state EXCEPT ![t] = {"FREE"}]
  <2>1. /\ state'[t] = {"FREE"} /\ state' \in [Threads -> SUBSET Flags]
        /\ \A u \in Threads : u # t => state'[u] = state[u]
    BY <1>2, <1>7 DEF Flags
  <2>2. ~Ready(t) /\ ~Asleep(t) /\ ~Ready(t)' /\ ~Asleep(t)'
    BY <1>7, <2>1 DEF Ready, Asleep
  <2>3. SameFlags
    BY <2>1, <2>2 DEF SameFlags, Ready, Asleep
  <2>4. \A d \in Cpus : running[d] # t
    BY <1>2, <1>7, <2>2 DEF RunInv
  <2>5. FlagsInv'
    BY <1>2, <2>1 DEF FlagsInv, Dead, Ready, Asleep
  <2>6. Shape' /\ Outside(t)
    BY <1>1, <1>2, <2>1 DEF Shape, Outside
  <2>7. Data'
    BY <1>2, <2>2, <2>4, <2>5, <2>6, OutsideKeeps
  <2>8. ASSUME NEW u \in Threads, InTransit(u) PROVE Underway(u)'
    <3>1. Underway(u)
      BY <1>2, <2>8, BusyStays
    <3>2. u # t
      BY <2>2, <3>1 DEF Underway
    <3> QED BY <1>1, <2>1, <3>1, <3>2 DEF Underway, Asleep
  <2>9. CritInv'
    BY <1>1, <1>2 DEF CritInv
  <2> QED BY <1>1, <1>5, <2>3, <2>7, <2>8, <2>9, QuietKeeps
<1> QED BY <1>1, <1>3, <1>6, <1>7

(* portRESTORE_CONTEXT. *)
LEMMA RestoreContextKeeps ==
  ASSUME NEW app \in Apps, Disciplined(app), IInvOf(app), NEW c \in Cpus, RestoreContext(c)
  PROVE  IInvOf(app)'
<1>1. /\ stack' = [stack EXCEPT ![c] = running[c]]
      /\ UNCHANGED <<state, cpu, move_lock, prio, queue, bitmap, num, running, need_sched, irq_switch, crit,
                     mailbox, call, script, release, tmp, walk>>
  BY DEF RestoreContext, moveVars, rqVars, daemonVars
<1>2. OtherShape /\ running \in [Cpus -> Threads]
  BY DEF IInvOf, Data, Shape
<1>3. stack' \in [Cpus -> Threads]
  BY <1>1, <1>2 DEF OtherShape
<1>4. OtherShape'
  BY <1>1, <1>2, <1>3 DEF OtherShape
<1> QED BY <1>1, <1>4, IdlingKeeps

(* A migrating thread that its CPU leaves loses its lock, another one      *)
(* keeps it.                                                               *)
LEMMA SwitchPasses ==
  ASSUME NEW app \in Apps, IInvOf(app), NEW c \in Cpus, SwitchContext(c),
         UNCHANGED <<cpu, prio, queue, bitmap, num>>, NEW t \in Threads, InTransit(t)
  PROVE  Underway(t)'
<1>0. Data /\ TransitInv
  BY DEF IInvOf
<1>1. Underway(t)
  BY <1>0, BusyStays
<1>2. /\ SameFlags
      /\ (Asleep(t) /\ running'[cpu[t]] = t) =>
              /\ running[cpu[t]] = t
              /\ "MOVE" \in state[t] => "MOVE" \in state'[t]
              /\ t \in move_lock => t \in move_lock'
  BY <1>0, SwitchKeeps
<1> QED BY <1>1, <1>2 DEF Underway, SameFlags

(* acoral_sched. *)
LEMMA ScheduleKeeps ==
  ASSUME NEW app \in Apps, Disciplined(app), IInvOf(app), NEW c \in Cpus, Schedule(c)
  PROVE  IInvOf(app)'
<1>1. /\ c \notin crit /\ SwitchContext(c)
      /\ UNCHANGED <<cpu, prio, queue, bitmap, num, stack, irq_switch, crit, mailbox, call, release, tmp, walk, script>>
  BY DEF Schedule, IrqOpen, rqVars, daemonVars
<1>2. Data /\ CritInv /\ OtherShape /\ crit \subseteq Cpus
  BY DEF IInvOf, OtherShape
<1>3. Data' /\ SameFlags /\ \A d \in Cpus : d # c => running'[d] = running[d]
  BY <1>1, <1>2, SwitchKeeps
<1>4. CritInv'
  <2> SUFFICES ASSUME NEW d \in crit
      PROVE \/ call[d].pc \in {"send", "daem"}
            \/ call[d] = NoCall /\ call[running'[d]].pc \in {"spin", "send", "daem"}
    BY <1>1 DEF CritInv
  <2>1. running'[d] = running[d]
    BY <1>1, <1>2, <1>3
  <2> QED BY <1>2, <2>1 DEF CritInv
<1>5. \A t \in Threads : InTransit(t) => Underway(t)'
  BY <1>1, SwitchPasses
<1>6. OtherShape'
  BY <1>1, <1>2 DEF OtherShape
<1> QED BY <1>1, <1>3, <1>4, <1>5, <1>6, QuietKeeps

(* acoral_intr_exit. *)
LEMMA IntrExitKeeps ==
  ASSUME NEW app \in Apps, Disciplined(app), IInvOf(app), NEW c \in Cpus, IntrExit(c)
  PROVE  IInvOf(app)'
<1>1. /\ call[c] = ExitCall /\ call' = [call EXCEPT ![c] = NoCall]
      /\ irq_switch' \subseteq irq_switch \cup {c}
      /\ \/ SwitchContext(c)
         \/ UNCHANGED <<need_sched, running, state, move_lock>>
      /\ UNCHANGED <<cpu, prio, queue, bitmap, num, stack, crit, mailbox, release, tmp, walk, script>>
  BY DEF IntrExit, SetCall, rqVars, daemonVars
<1>2. /\ Data /\ CritInv /\ OtherShape /\ crit \subseteq Cpus /\ TransitInv /\ CallInv(app) /\ CommitInv
      /\ call \in [Contexts -> CallRecords] /\ c \in Contexts /\ c \notin Threads /\ Threads \subseteq Contexts
      /\ Cpus \subseteq Contexts /\ running \in [Cpus -> Threads] /\ Acts(c, c) /\ move_lock \subseteq Threads
      /\ HomeInv(app)
  BY SetsAssumption DEF IInvOf, OtherShape, CallShape, Contexts, Data, Shape, Acts
<1>3. c \notin crit
  BY <1>1, <1>2 DEF CritInv, ExitCall, NoCall
<1>4. Data' /\ SameFlags /\ \A d \in Cpus : d # c => running'[d] = running[d]
  <2>1. CASE SwitchContext(c)
    BY <1>1, <1>2, <2>1, SwitchKeeps
  <2>2. CASE UNCHANGED <<need_sched, running, state, move_lock>>
    BY <1>1, <1>2, <2>2, DataStutters
  <2> QED BY <1>1, <2>1, <2>2
<1>5. \A t \in Threads : InTransit(t) => Underway(t)'
  <2>1. CASE SwitchContext(c)
    BY <1>1, <2>1, SwitchPasses
  <2>2. CASE UNCHANGED <<need_sched, running, state, move_lock>>
    <3>1. ASSUME NEW t \in Threads, InTransit(t) PROVE Underway(t)'
      <4>1. Underway(t)
        BY <1>2, <3>1, BusyStays
      <4> QED BY <1>1, <2>2, <4>1 DEF Underway, Asleep
    <3> QED BY <3>1
  <2> QED BY <1>1, <2>1, <2>2
<1>6. NoCall \in CallRecords /\ NoCall.op = "none" /\ NoCall.pc = "none"
  BY DEF NoCall, CallRecords
<1>7. CritInv'
  <2> SUFFICES ASSUME NEW d \in crit
      PROVE \/ call'[d].pc \in {"send", "daem"}
            \/ call'[d] = NoCall /\ call'[running'[d]].pc \in {"spin", "send", "daem"}
    BY <1>1 DEF CritInv
  <2>1. d # c /\ d \in Cpus /\ running'[d] = running[d] /\ running[d] # c /\ running[d] \in Contexts /\ d \in Contexts
    BY <1>2, <1>3, <1>4
  <2>2. call'[d] = call[d] /\ call'[running[d]] = call[running[d]]
    BY <1>1, <1>2, <2>1
  <2> QED BY <1>2, <2>1, <2>2 DEF CritInv
<1>8. Fits(app, c, NoCall) /\ Tested(c, NoCall)
  BY <1>2, <1>6 DEF Fits, Tested, HandlerCall
<1>9. Kept(c)
  BY <1>1, <1>2, <1>4, KeptSame
<1>10. Passing(c, NoCall)
  BY <1>2, <1>5, <1>6 DEF Passing
<1>11. OtherShape' /\ script' \subseteq app /\ HomeInv(app)'
  BY <1>1, <1>2 DEF OtherShape, IInvOf, HomeInv
<1> QED BY <1>1, <1>2, <1>4, <1>6, <1>7, <1>8, <1>9, <1>10, <1>11, MailKept, ControlKeeps

-----------------------------------------------------------------------------
(* Every step keeps the invariant *)

(* Every step of a call. *)
LEMMA CallStepKeeps ==
  ASSUME NEW app \in Apps, Disciplined(app), IInvOf(app), NEW c \in Cpus, NEW x, x = c \/ x = running[c], CallStep(c, x)
  PROVE  IInvOf(app)'
  BY SendKeeps, CommitReadyKeeps, CommitSuspendKeeps, CommitPrioKeeps, MoveEnterKeeps, MoveToKeeps, MoveInKeeps,
     CommitKillKeeps, WakeDaemKeeps DEF CallStep

(* Every step of the system. *)
LEMMA StepKeeps ==
  ASSUME NEW app \in Apps, Disciplined(app), IInvOf(app), [Next]_vars
  PROVE  IInvOf(app)'
<1>1. ASSUME NEW c \in Cpus, ThreadStep(c) PROVE IInvOf(app)'
  <2>1. PICK x : x = running[c]
    OBVIOUS
  <2>2. CallStep(c, running[c]) => CallStep(c, x)
    BY <2>1
  <2> QED BY <1>1, <2>1, <2>2, CallStepKeeps, ScheduleKeeps, SendFillKeeps, SendSignalKeeps, DaemStartKeeps,
             DaemNodeKeeps, DaemSuspendKeeps DEF ThreadStep
<1>2. ASSUME NEW c \in Cpus, HandlerStep(c) PROVE IInvOf(app)'
  BY <1>2, CallStepKeeps, IntrExitKeeps, RestoreContextKeeps DEF HandlerStep
<1>3. ASSUME UNCHANGED vars PROVE IInvOf(app)'
  <2>1. OtherShape'
    BY <1>3 DEF vars, IInvOf, OtherShape
  <2>2. UNCHANGED <<state, cpu, move_lock, prio, queue, bitmap, num, running, need_sched, irq_switch, crit,
                     mailbox, call, script>>
    BY <1>3 DEF vars
  <2> QED BY <2>1, <2>2, IdlingKeeps
<1>4. ASSUME NEW c \in Cpus, Compute(c) PROVE IInvOf(app)'
  BY <1>3, <1>4 DEF Compute
<1> QED BY <1>1, <1>2, <1>3, <1>4, IpiCmdKeeps, BeginKeeps, InterruptKeeps DEF Next

(* The sequence made of a finite set of threads holds each of them once.   *)
LEMMA SeqOfSet ==
  ASSUME NEW S, S \subseteq Threads
  PROVE  /\ SetToSeq(S) \in Seq(Threads) /\ IsInjective(SetToSeq(S))
         /\ ToSet(SetToSeq(S)) = S
<1> DEFINE n == Cardinality(S)
           q == SetToSeq(S)
<1>1. IsFiniteSet(S)
  BY SetsAssumption, FS_Subset
<1>2. n \in Nat /\ ExistsBijection(1 .. n, S)
  BY <1>1, FS_CardinalityType
<1>3. PICK f : f \in Bijection(1 .. n, S)
  BY <1>2 DEF ExistsBijection
<1>4. f \in [1 .. n -> S] /\ IsInjective(f)
  BY <1>3 DEF Bijection, Injection, IsInjective
<1>5. q \in [1 .. n -> S] /\ IsInjective(q)
  BY <1>4 DEF SetToSeq
<1> HIDE DEF q
<1>6. q \in Seq(Threads)
  BY <1>2, <1>5
<1>7. q \in Injection(1 .. n, S)
  BY <1>5 DEF Injection, IsInjective
<1>8. IsFiniteSet(1 .. n) /\ Cardinality(1 .. n) = n
  BY <1>2, FS_Interval
<1>9. q \in Surjection(1 .. n, S)
  BY <1>1, <1>7, <1>8, FS_Injection
<1>10. ToSet(q) = S
  BY <1>5, <1>9 DEF Surjection, ToSet
<1> QED BY <1>5, <1>6, <1>10 DEF q

(* At the start each CPU has its threads in its queues.                    *)
LEMMA InitLists ==
  ASSUME Init
  PROVE  queue \in Queues /\ Lists /\ \A t \in Threads : Ready(t)
<1> DEFINE At(c, p) == {t \in Threads : InitCpu[t] = c /\ InitPrio[t] = p}
<1>0. /\ cpu = InitCpu /\ prio = InitPrio
      /\ queue = [c \in Cpus |-> [p \in Prios |-> SetToSeq(At(c, p))]]
      /\ bitmap = [c \in Cpus |-> {InitPrio[t] : t \in {u \in Threads : InitCpu[u] = c}}]
      /\ num = [c \in Cpus |-> Cardinality({t \in Threads : InitCpu[t] = c})]
      /\ InitCpu \in [Threads -> Cpus] /\ InitPrio \in [Threads -> Prios]
  BY ThreadAssumption DEF Init
<1>1. \A t \in Threads : Ready(t)
  BY DEF Init, Ready
<1>2. ReadySet = Threads
  BY <1>1 DEF ReadySet
<1>3. ASSUME NEW c \in Cpus, NEW p \in Prios
      PROVE  /\ queue[c][p] \in Seq(Threads) /\ IsInjective(queue[c][p])
             /\ \A t : t \in ToSet(queue[c][p]) <=> t \in Threads /\ cpu[t] = c /\ prio[t] = p
  <2>1. queue[c][p] = SetToSeq(At(c, p)) /\ At(c, p) \subseteq Threads
    BY <1>0
  <2>2. /\ queue[c][p] \in Seq(Threads) /\ IsInjective(queue[c][p])
        /\ ToSet(queue[c][p]) = At(c, p)
    BY <2>1, SeqOfSet
  <2> QED BY <1>0, <2>2
<1>4. queue \in Queues
  <2>1. \A c \in Cpus : queue[c] \in [Prios -> Seq(Threads)]
    <3> SUFFICES ASSUME NEW c \in Cpus PROVE queue[c] \in [Prios -> Seq(Threads)]
      OBVIOUS
    <3>1. queue[c] = [p \in Prios |-> queue[c][p]]
      BY <1>0
    <3> QED BY <1>3, <3>1
  <2>2. queue = [c \in Cpus |-> queue[c]]
    BY <1>0
  <2> QED BY <2>1, <2>2 DEF Queues
<1>5. ASSUME NEW c \in Cpus PROVE AgreeAt(queue, bitmap, num, ReadySet, cpu, prio, c)
  <2>1. bitmap[c] = {InitPrio[t] : t \in {u \in Threads : InitCpu[u] = c}}
    BY <1>0
  <2>2. bitmap[c] \subseteq Prios /\ \A p \in Prios : p \in bitmap[c] <=> \E t \in Threads : cpu[t] = c /\ prio[t] = p
    BY <1>0, <2>1
  <2>3. num[c] = Cardinality({t \in Threads : cpu[t] = c})
    BY <1>0
  <2> QED BY <1>2, <1>3, <2>2, <2>3 DEF AgreeAt
<1>6. Lists
  BY <1>4, <1>5, AgreeIs DEF Lists
<1> QED BY <1>1, <1>4, <1>6

(* The first state satisfies the invariant. *)
LEMMA InitKeeps ==
  ASSUME Init
  PROVE  script \in Apps /\ IInvOf(script)
<1>1. queue \in Queues /\ Lists /\ \A t \in Threads : Ready(t)
  BY InitLists
<1>2. /\ cpu = InitCpu /\ prio = InitPrio /\ stack = running
      /\ running = [c \in Cpus |-> Selected(c)]
      /\ need_sched = {} /\ irq_switch = {} /\ crit = {} /\ move_lock = {}
      /\ mailbox = [c \in Cpus |-> None]
      /\ call = [x \in Contexts |-> NoCall]
      /\ release = << >> /\ tmp = None /\ walk = "start" /\ script \in Apps
      /\ state = [t \in Threads |-> IF running[cpu[t]] = t THEN {"READY", "RUNNING"} ELSE {"READY"}]
      /\ InitCpu \in [Threads -> Cpus] /\ InitPrio \in [Threads -> Prios]
  BY ThreadAssumption DEF Init, Contexts
<1>3. IdleInv
  BY <1>1, <1>2, ThreadAssumption DEF IdleInv
<1>4. \A c \in Cpus : Selected(c) \in Threads /\ Ready(Selected(c)) /\ cpu[Selected(c)] = c
  BY <1>1, <1>2, <1>3, SelectedFrom
<1>5. running \in [Cpus -> Threads] /\ \A c \in Cpus : running[c] = Selected(c)
  BY <1>2, <1>4
<1>6. state \in [Threads -> SUBSET Flags] /\ \A t \in Threads : state[t] = {"READY", "RUNNING"} \/ state[t] = {"READY"}
  BY <1>2 DEF Flags
<1>7. FlagsInv
  BY <1>6 DEF FlagsInv, Ready, Asleep
<1>8. RunInv /\ UrgentInv
  BY <1>4, <1>5 DEF RunInv, UrgentInv
<1>9. Shape
  <2>1. bitmap \in [Cpus -> SUBSET Prios]
    <3>1. bitmap = [c \in Cpus |-> {InitPrio[t] : t \in {u \in Threads : InitCpu[u] = c}}]
      BY DEF Init
    <3> QED BY <1>2, <3>1
  <2>2. num \in [Cpus -> Int]
    <3>1. num = [c \in Cpus |-> Cardinality({t \in Threads : InitCpu[t] = c})]
      BY DEF Init
    <3>2. ASSUME NEW c \in Cpus PROVE Cardinality({t \in Threads : InitCpu[t] = c}) \in Int
      <4>1. IsFiniteSet({t \in Threads : InitCpu[t] = c})
        BY SetsAssumption, FS_Subset
      <4> QED BY <4>1, FS_CardinalityType
    <3> QED BY <3>1, <3>2
  <2> QED BY <1>1, <1>2, <1>5, <1>6, <2>1, <2>2 DEF Shape
<1>10. CallShape /\ OtherShape
  BY <1>2, <1>5 DEF CallShape, OtherShape, NoCall, CallRecords
<1>11. \A x \in Contexts : call[x] = NoCall
  BY <1>2
<1>12. CallInv(script) /\ HomeInv(script)
  BY <1>2, <1>11 DEF CallInv, ThreadCall, HandlerCall, Mail, NoCall, HomeInv, Contexts
<1>13. CommitInv /\ CritInv /\ TransitInv
  BY <1>2, <1>11 DEF CommitInv, CritInv, TransitInv, Carries, Mailed, NoCall
<1> QED BY <1>1, <1>2, <1>3, <1>7, <1>8, <1>9, <1>10, <1>12, <1>13 DEF IInvOf, Data

(* sched.c, thread.c, ipi.c, smp.c: the invariant holds for every          *)
(* disciplined application.                                                *)
THEOREM Invariance ==
  ASSUME \A app \in Apps : Disciplined(app)
  PROVE  Spec => []IInv
<1>1. Init => IInv
  BY InitKeeps DEF IInv
<1>2. IInv /\ [Next]_vars => IInv'
  BY StepKeeps DEF IInv
<1> QED BY <1>1, <1>2, PTL DEF Spec

-----------------------------------------------------------------------------
(* Stacks *)

(* A CPU that serves an interrupt is on the stack of its running thread; a *)
(* CPU is on the stack of one of its own threads, unless that one has      *)
(* migrated; and the daemon's CPU is on the stack of no released thread.   *)
StackInv ==
  /\ \A c \in Cpus : call[c] # NoCall => stack[c] = running[c]
  /\ \A c \in Cpus : stack[c] \in Movers \/ cpu[stack[c]] = c
  /\ \A t \in Threads : "FREE" \in state[t] => stack[InitCpu[Daem]] # t

(* No thread is released. *)
NoneFreed == \A t \in Threads : "FREE" \in state'[t] => "FREE" \in state[t]

(* A CPU's handler begins only on the stack of the running thread. *)
Served ==
  \A c \in Cpus : call'[c] # NoCall =>
     running'[c] = running[c] /\ (call[c] # NoCall \/ stack[c] = running[c])

(* Steps that leave the stacks alone. *)
LEMMA StacksLeftAlone ==
  ASSUME OtherShape, StackInv, stack' = stack, NoneFreed, Served,
         \A t \in Threads : cpu'[t] = cpu[t] \/ t \in Movers
  PROVE  StackInv'
<1>1. \A c \in Cpus : stack[c] \in Threads
  BY DEF OtherShape
<1> QED BY <1>1 DEF StackInv, NoneFreed, Served

(* Every step of a call leaves the stacks and the running threads alone.   *)
LEMMA CallFrame ==
  ASSUME NEW app \in Apps, Disciplined(app), IInvOf(app), NEW c \in Cpus, NEW x, x = c \/ x = running[c], CallStep(c, x)
  PROVE  /\ Has(c, x) /\ stack' = stack /\ running' = running /\ NoneFreed
         /\ \E k : call' = [call EXCEPT ![x] = k]
         /\ \A t \in Threads : cpu'[t] = cpu[t] \/ t \in Movers
<1>0. state \in [Threads -> SUBSET Flags] /\ cpu \in [Threads -> Cpus] /\ CallInv(app)
  BY DEF IInvOf, Data, Shape
<1>1. ASSUME NEW t, NEW f, state' = [state EXCEPT ![t] = f], "FREE" \in f => "FREE" \in state[t] PROVE NoneFreed
  BY <1>0, <1>1 DEF NoneFreed
<1>2. ASSUME state' = state PROVE NoneFreed
  BY <1>2 DEF NoneFreed
<1>3. CASE Send(c, x)
  BY <1>2, <1>3 DEF Send, Return, SetCall
<1>4. CASE CommitReady(c, x)
  <2>1. NoneFreed
    BY <1>1, <1>4 DEF CommitReady, RdyQueueAdd, AddFlags
  <2> QED BY <1>4, <2>1 DEF CommitReady, Return, SetCall
<1>5. CASE CommitSuspend(c, x)
  <2>1. NoneFreed
    BY <1>1, <1>5 DEF CommitSuspend, DelFlags
  <2> QED BY <1>5, <2>1 DEF CommitSuspend, moveVars, Return, SetCall
<1>6. CASE CommitPrio(c, x)
  <2>1. NoneFreed
    BY <1>1, <1>2, <1>6 DEF CommitPrio, AddFlags, DelFlags
  <2> QED BY <1>6, <2>1 DEF CommitPrio, moveVars, Return, SetCall
<1>7. CASE MoveEnter(c, x)
  BY <1>2, <1>7 DEF MoveEnter, moveVars, SetCall
<1>8. CASE MoveTo(c, x)
  <2>1. NoneFreed
    BY <1>1, <1>2, <1>8 DEF MoveTo, DelFlags
  <2>2. \E k : call' = [call EXCEPT ![x] = k]
    BY <1>8 DEF MoveTo, SetCall
  <2> QED BY <1>8, <2>1, <2>2 DEF MoveTo
<1>9. CASE MoveIn(c, x)
  <2>1. x \in Contexts /\ Contexts = Threads \cup Cpus
    BY <1>9, Acting DEF MoveIn, Contexts
  <2>2. call[x].thread \in MoversOf(app)
    <3>1. call[x].pc = "spin" /\ call[x].op = "movein"
      BY <1>9 DEF MoveIn
    <3>2. CASE x \in Threads
      BY <1>0, <3>1, <3>2 DEF CallInv, ThreadCall, NoCall
    <3>3. CASE x \in Cpus
      BY <1>0, <3>1, <3>3 DEF CallInv, HandlerCall, NoCall, ExitCall
    <3> QED BY <2>1, <3>2, <3>3
  <2>3. call[x].thread \in Movers
    BY <2>2 DEF MoversOf, Movers
  <2>4. cpu' = [cpu EXCEPT ![call[x].thread] = c]
    BY <1>9 DEF MoveIn
  <2>5. \A t \in Threads : cpu'[t] = cpu[t] \/ t \in Movers
    BY <1>0, <2>3, <2>4
  <2>6. \E k : call' = [call EXCEPT ![x] = k]
    BY <1>9 DEF MoveIn, Return, SetCall
  <2>7. Has(c, x) /\ stack' = stack /\ running' = running /\ state' = state
    BY <1>9 DEF MoveIn
  <2> QED BY <1>2, <2>5, <2>6, <2>7
<1>10. CASE CommitKill(c, x)
  <2>1. NoneFreed
    BY <1>1, <1>10 DEF CommitKill
  <2> QED BY <1>10, <2>1 DEF CommitKill, moveVars, SetCall
<1>11. CASE WakeDaem(c, x)
  <2>1. NoneFreed
    BY <1>1, <1>2, <1>11 DEF WakeDaem, RdyQueueAdd, AddFlags
  <2>2. \E k : call' = [call EXCEPT ![x] = k]
    BY <1>11 DEF WakeDaem, Return, SetCall
  <2> QED BY <1>11, <2>1, <2>2 DEF WakeDaem, moveVars
<1> QED BY <1>3, <1>4, <1>5, <1>6, <1>7, <1>8, <1>9, <1>10, <1>11 DEF CallStep

(* Every step of the system keeps the stacks in order. *)
LEMMA StackKeeps ==
  ASSUME NEW app \in Apps, Disciplined(app), IInvOf(app), StackInv, [Next]_vars
  PROVE  StackInv'
<1>0. /\ OtherShape /\ RunInv /\ FlagsInv /\ HomeInv(app) /\ CallInv(app)
      /\ state \in [Threads -> SUBSET Flags] /\ running \in [Cpus -> Threads] /\ stack \in [Cpus -> Threads]
      /\ call \in [Contexts -> CallRecords] /\ Threads \cap Cpus = {} /\ Cpus \subseteq Contexts
      /\ Daem \in Threads
  BY SetsAssumption, ThreadAssumption DEF IInvOf, Data, Shape, OtherShape, CallShape, Contexts
<1>1. cpu[Daem] = InitCpu[Daem] /\ InitCpu[Daem] \in Cpus
  BY <1>0, MoverThreads, ThreadAssumption DEF HomeInv
<1>2. ASSUME NEW x, NEW k, call' = [call EXCEPT ![x] = k], x \in Threads, running' = running PROVE Served
  BY <1>0, <1>2 DEF Served, StackInv
<1>3. ASSUME NEW c \in Cpus, NEW x, x = c \/ x = running[c], CallStep(c, x) PROVE StackInv'
  <2>1. /\ Has(c, x) /\ stack' = stack /\ running' = running /\ NoneFreed
        /\ \A t \in Threads : cpu'[t] = cpu[t] \/ t \in Movers
    BY <1>3, CallFrame
  <2>2. PICK k : call' = [call EXCEPT ![x] = k]
    BY <1>3, CallFrame
  <2>3. x = c => call[c] # NoCall
    BY <1>0, <2>1 DEF Has
  <2>4. Served
    BY <1>0, <1>3, <2>1, <2>2, <2>3 DEF Served
  <2> QED BY <1>0, <2>1, <2>4, StacksLeftAlone
<1>4. ASSUME NEW c \in Cpus, SwitchContext(c), stack' = stack, cpu' = cpu, call[c] = NoCall \/ call[c] = ExitCall,
             call' = [call EXCEPT ![c] = NoCall]
      PROVE  StackInv'
  <2>1. \A d \in Cpus : d # c => running'[d] = running[d]
    BY <1>0, <1>4 DEF SwitchContext
  <2>2. Served
    BY <1>0, <1>4, <2>1 DEF Served
  <2>3. NoneFreed
    <3> SUFFICES ASSUME NEW t \in Threads, "FREE" \in state'[t] PROVE "FREE" \in state[t]
      BY DEF NoneFreed
    <3> DEFINE prev == running[c]
               next == Selected(c)
               left == IF state[prev] = {"EXIT"} THEN {"RELEASE"} ELSE state[prev] \ {"RUNNING", "MOVE"}
    <3>1. state' = [state EXCEPT ![prev] = left, ![next] = @ \cup {"RUNNING"}] \/ state' = state
      BY <1>4 DEF SwitchContext
    <3>2. prev \in Threads /\ ("FREE" \in left => "FREE" \in state[prev])
      BY <1>0
    <3> HIDE DEF prev, next, left
    <3> QED BY <1>0, <3>1, <3>2
  <2> QED BY <1>0, <1>4, <2>2, <2>3, StacksLeftAlone
<1>5. ASSUME NEW c \in Cpus, ThreadStep(c) PROVE StackInv'
  <2>1. CASE CallStep(c, running[c])
    <3>1. PICK x : x = running[c]
      OBVIOUS
    <3>2. CallStep(c, x)
      BY <2>1, <3>1
    <3> QED BY <1>3, <3>1, <3>2
  <2>2. CASE Schedule(c)
    <3>1. call[c] = NoCall /\ SwitchContext(c) /\ UNCHANGED <<stack, cpu, call>>
      BY <2>2 DEF Schedule, IrqOpen
    <3>2. call' = [call EXCEPT ![c] = NoCall]
      BY <1>0, <3>1
    <3> QED BY <1>4, <3>1, <3>2
  <2>3. CASE SendFill(c) \/ SendSignal(c) \/ DaemSuspend(c)
    <3>1. /\ UNCHANGED <<state, cpu, running, stack>>
          /\ \E x \in Threads : \E k : call' = [call EXCEPT ![x] = k]
      BY <1>0, <2>3 DEF SendFill, SendSignal, DaemSuspend, moveVars, Return, SetCall
    <3>2. Served /\ NoneFreed
      BY <1>2, <3>1 DEF NoneFreed
    <3> QED BY <1>0, <3>1, <3>2, StacksLeftAlone
  <2>4. CASE DaemStart(c)
    <3>1. UNCHANGED <<state, cpu, running, stack, call>>
      BY <2>4 DEF DaemStart, moveVars
    <3>2. Served /\ NoneFreed
      BY <3>1 DEF NoneFreed, Served
    <3> QED BY <1>0, <3>1, <3>2, StacksLeftAlone
  <2>5. CASE DaemNode(c)
    <3>1. /\ running[c] = Daem /\ stack[c] = Daem /\ UNCHANGED <<cpu, running, stack, call>>
          /\ \/ state' = [state EXCEPT ![tmp] = {"FREE"}] /\ state[tmp] = {"RELEASE"}
             \/ state' = state
      BY <1>0, <2>5 DEF DaemNode, Has, moveVars
    <3>2. InitCpu[Daem] = c
      BY <1>0, <1>1, <3>1 DEF RunInv
    <3>3. state[Daem] # {"RELEASE"}
      BY <1>0, <3>1 DEF RunInv, Ready, Asleep
    <3>4. \A t \in Threads : "FREE" \in state'[t] => "FREE" \in state[t] \/ t # Daem
      BY <1>0, <3>1, <3>3
    <3> QED BY <1>0, <3>1, <3>2, <3>4 DEF StackInv
  <2> QED BY <1>5, <2>1, <2>2, <2>3, <2>4, <2>5 DEF ThreadStep
<1>6. ASSUME NEW c \in Cpus, HandlerStep(c) PROVE StackInv'
  <2>1. CASE CallStep(c, c)
    BY <1>3, <2>1
  <2>2. CASE IntrExit(c)
    <3>1. /\ call[c] = ExitCall /\ call' = [call EXCEPT ![c] = NoCall] /\ UNCHANGED <<stack, cpu>>
          /\ SwitchContext(c) \/ UNCHANGED <<running, state>>
      BY <2>2 DEF IntrExit, SetCall
    <3>2. CASE SwitchContext(c)
      BY <1>4, <3>1, <3>2
    <3>3. CASE UNCHANGED <<running, state>>
      <4>1. Served /\ NoneFreed
        BY <1>0, <3>1, <3>3 DEF NoneFreed, Served
      <4> QED BY <1>0, <3>1, <4>1, StacksLeftAlone
    <3> QED BY <3>1, <3>2, <3>3
  <2>3. CASE RestoreContext(c)
    <3>1. /\ stack' = [stack EXCEPT ![c] = running[c]] /\ UNCHANGED <<cpu, running, state, call>>
      BY <2>3 DEF RestoreContext, moveVars
    <3>2. cpu[running[c]] = c
      BY <1>0 DEF RunInv
    <3>3. "FREE" \notin state[running[c]]
      BY <1>0 DEF RunInv, FlagsInv, Dead, Ready, Asleep
    <3>4. stack'[c] = running[c] /\ \A d \in Cpus : d # c => stack'[d] = stack[d]
      BY <1>0, <3>1
    <3> QED BY <1>1, <3>1, <3>2, <3>3, <3>4 DEF StackInv
  <2> QED BY <1>6, <2>1, <2>2, <2>3 DEF HandlerStep
<1>7. ASSUME NEW c \in Cpus, NEW l, Begin(c, l) PROVE StackInv'
  <2>1. /\ UNCHANGED <<state, cpu, running, stack>>
        /\ \E x \in Threads : \E k : call' = [call EXCEPT ![x] = k]
    BY <1>0, <1>7 DEF Begin, moveVars, SetCall
  <2>2. Served /\ NoneFreed
    BY <1>2, <2>1 DEF NoneFreed
  <2> QED BY <1>0, <2>1, <2>2, StacksLeftAlone
<1>8. ASSUME NEW c \in Cpus, NEW k, call' = [call EXCEPT ![c] = k], IrqOpen(c), UNCHANGED <<state, cpu, running, stack>>
      PROVE  StackInv'
  <2>1. Served /\ NoneFreed
    BY <1>0, <1>8 DEF NoneFreed, Served, IrqOpen
  <2> QED BY <1>0, <1>8, <2>1, StacksLeftAlone
<1>9. ASSUME NEW c \in Cpus, NEW l, Interrupt(c, l) PROVE StackInv'
  BY <1>8, <1>9 DEF Interrupt, moveVars, SetCall
<1>10. ASSUME NEW c \in Cpus, IpiCmd(c) PROVE StackInv'
  BY <1>8, <1>10 DEF IpiCmd, moveVars, SetCall
<1>11. CASE UNCHANGED vars
  BY <1>11 DEF vars, StackInv
<1>12. ASSUME NEW c \in Cpus, Compute(c) PROVE StackInv'
  BY <1>11, <1>12 DEF Compute
<1> QED BY <1>5, <1>6, <1>7, <1>9, <1>10, <1>11, <1>12 DEF Next

(* No thread is released in the beginning, and every CPU is on the stack   *)
(* of the thread it runs.                                                  *)
LEMMA StackInit ==
  ASSUME Init
  PROVE  StackInv
<1>1. RunInv /\ IInvOf(script) /\ script \in Apps
  BY InitKeeps DEF IInvOf, Data
<1>2. stack = running /\ \A t \in Threads : "FREE" \notin state[t]
  BY DEF Init
<1> QED BY <1>1, <1>2 DEF StackInv, RunInv

(* The stacks are in order for every disciplined application. *)
THEOREM StacksInvariance ==
  ASSUME \A app \in Apps : Disciplined(app)
  PROVE  Spec => [](IInv /\ StackInv)
<1>1. Init => IInv /\ StackInv
  BY InitKeeps, StackInit DEF IInv
<1>2. IInv /\ StackInv /\ [Next]_vars => IInv' /\ StackInv'
  BY StepKeeps, StackKeeps DEF IInv
<1> QED BY <1>1, <1>2, PTL DEF Spec

(* What the invariant says of the ready queues. *)
LEMMA QueuesFromIInv ==
  ASSUME IInv
  PROVE  QueuesAgree
<1>1. PICK app \in Apps : IInvOf(app)
  BY DEF IInv
<1>2. /\ Data /\ CallShape /\ OtherShape /\ Shape /\ Lists /\ queue \in Queues /\ script \subseteq app
  BY <1>1 DEF IInvOf, Data, Shape
<1>3. TypeOK
  BY <1>2 DEF TypeOK, CallShape, OtherShape, Shape, Queues, Commands, Contexts
<1>4. \A c \in Cpus : AgreeAt(queue, bitmap, num, ReadySet, cpu, prio, c)
  BY <1>2, AgreeIs DEF Lists
<1>5. ASSUME NEW t \in Threads, NEW c \in Cpus, NEW p \in Prios
      PROVE  Occurrences(t, c, p) = IF "READY" \in state[t] /\ cpu[t] = c /\ prio[t] = p THEN 1 ELSE 0
  <2> DEFINE q == queue[c][p]
             I == {i \in 1 .. Len(q) : q[i] = t}
  <2>1. q \in Seq(Threads)
    BY <1>2 DEF Queues
  <2>a. AgreeAt(queue, bitmap, num, ReadySet, cpu, prio, c)
    BY <1>4
  <2>2. IsInjective(q) /\ (t \in ToSet(q) <=> t \in ReadySet /\ cpu[t] = c /\ prio[t] = p)
    BY <2>a DEF AgreeAt
  <2> HIDE DEF q
  <2>3. /\ \A i, j \in 1 .. Len(q) : q[i] = q[j] => i = j
        /\ t \in ToSet(q) <=> \E i \in 1 .. Len(q) : q[i] = t
    BY <2>1, <2>2, ToSetOfSeq
  <2>4. Occurrences(t, c, p) = Cardinality(I)
    BY DEF Occurrences, q
  <2>5. CASE t \in ToSet(q)
    <3>1. PICK i \in 1 .. Len(q) : q[i] = t
      BY <2>3, <2>5
    <3>2. I = {i}
      BY <2>3, <3>1
    <3>3. Cardinality(I) = 1
      BY <3>2, FS_Singleton
    <3> QED BY <2>2, <2>4, <2>5, <3>3 DEF ReadySet, Ready
  <2>6. CASE t \notin ToSet(q)
    <3>1. I = {}
      BY <2>3, <2>6
    <3>2. Cardinality(I) = 0
      BY <3>1, FS_EmptySet
    <3> QED BY <2>2, <2>4, <2>6, <3>2 DEF ReadySet, Ready
  <2> QED BY <2>5, <2>6
<1>6. \A c \in Cpus : bitmap[c] = {p \in Prios : queue[c][p] # << >>}
  BY <1>2 DEF Lists, Agree
<1>7. \A c \in Cpus : num[c] = Cardinality({t \in Threads : "READY" \in state[t] /\ cpu[t] = c})
  <2>1. ASSUME NEW c \in Cpus PROVE {t \in ReadySet : cpu[t] = c} = {t \in Threads : "READY" \in state[t] /\ cpu[t] = c}
    BY DEF ReadySet, Ready
  <2> QED BY <1>2, <2>1 DEF Lists, Agree
<1> QED BY <1>3, <1>5, <1>6, <1>7 DEF QueuesAgree

(* What the invariants say of running and released threads. *)
LEMMA OthersFromIInv ==
  ASSUME \A app \in Apps : Disciplined(app), IInv, StackInv
  PROVE  RunsMostUrgent /\ OneCpuEach /\ ReleasedIsGone
<1>1. PICK app \in Apps : IInvOf(app)
  BY DEF IInv
<1>2. RunInv /\ UrgentInv /\ FlagsInv /\ HomeInv(app)
  BY <1>1 DEF IInvOf, Data
<1>3. RunsMostUrgent
  BY <1>2 DEF RunsMostUrgent, UrgentInv
<1>4. OneCpuEach
  <2> SUFFICES ASSUME NEW c \in Cpus, NEW d \in Cpus, c # d
      PROVE  /\ running[c] # running[d]
             /\ stack[c] = stack[d] =>
                  stack[c] \in Movers /\ (stack[c] # running[c] \/ stack[d] # running[d])
    BY DEF OneCpuEach
  <2>1. running[c] # running[d]
    BY <1>2, RunsOnce
  <2>2. stack[c] = stack[d] => stack[c] \in Movers
    BY DEF StackInv
  <2> QED BY <2>1, <2>2
<1>5. ReleasedIsGone
  <2> SUFFICES ASSUME NEW t \in Threads, "FREE" \in state[t]
      PROVE  /\ \A c \in Cpus : running[c] # t /\ \A p \in Prios : Occurrences(t, c, p) = 0
             /\ stack[cpu[Daem]] # t
    BY DEF ReleasedIsGone
  <2>1. state[t] = {"FREE"}
    BY <1>2 DEF FlagsInv, Dead
  <2>2. \A c \in Cpus : running[c] # t
    BY <1>2, <2>1 DEF RunInv, Ready, Asleep
  <2>3. QueuesAgree
    BY QueuesFromIInv
  <2>4. \A c \in Cpus, p \in Prios : Occurrences(t, c, p) = 0
    BY <2>1, <2>3 DEF QueuesAgree
  <2>5. cpu[Daem] = InitCpu[Daem]
    BY <1>2, MoverThreads, ThreadAssumption DEF HomeInv
  <2> QED BY <2>2, <2>4, <2>5 DEF StackInv
<1> QED BY <1>3, <1>4, <1>5

(* sched.c, thread.c: as long as the application is disciplined, the ready *)
(* queues hold exactly the ready threads, on every interleaving of threads,*)
(* handlers and commands of all CPUs.                                      *)
THEOREM QueuesStayAgreed ==
  ASSUME \A app \in Apps : Disciplined(app)
  PROVE  Spec => []QueuesAgree
<1>1. IInv => QueuesAgree
  BY QueuesFromIInv
<1> QED BY <1>1, Invariance, PTL

(* sched.c: a CPU that owes no switch runs its most urgent thread. *)
THEOREM MostUrgentRuns ==
  ASSUME \A app \in Apps : Disciplined(app)
  PROVE  Spec => []RunsMostUrgent
<1>1. IInv /\ StackInv => RunsMostUrgent
  BY OthersFromIInv
<1> QED BY <1>1, StacksInvariance, PTL

(* thread.c, sched.c, the migration's move_lock: no thread runs on two     *)
(* CPUs, and only the stack of a thread that has migrated can be shared,   *)
(* with the CPU that is on its way off it.                                 *)
THEOREM ThreadsRunOnce ==
  ASSUME \A app \in Apps : Disciplined(app)
  PROVE  Spec => []OneCpuEach
<1>1. IInv /\ StackInv => OneCpuEach
  BY OthersFromIInv
<1> QED BY <1>1, StacksInvariance, PTL

(* smp.c, daem: what is released runs nowhere and is in no queue, and the  *)
(* daemon's CPU is off its stack.                                          *)
THEOREM ReleasedStaysGone ==
  ASSUME \A app \in Apps : Disciplined(app)
  PROVE  Spec => []ReleasedIsGone
<1>1. IInv /\ StackInv => ReleasedIsGone
  BY OthersFromIInv
<1> QED BY <1>1, StacksInvariance, PTL
=============================================================================
