------------------------------ MODULE ResPool ------------------------------
(* The resource pools of kernel/src/res_pool.c: control blocks that own    *)
(* pools, pools that own an array of resources (thread and ipc blocks), a  *)
(* free list of resources inside each pool and a list of unused pools.     *)
(*                                                                         *)
(* A resource begins with one word.  While it is in use the word is its    *)
(* id: index, type and pool, and for a thread the CPU on which it was last *)
(* made ready.  While it is free the word is its index in the upper half   *)
(* and, in the same storage, the index of the next free resource in the    *)
(* lower half.                                                             *)
(*                                                                         *)
(* acoral_release_pool and acoral_collect_pool have no caller.             *)
EXTENDS Integers, Sequences, FiniteSets

CONSTANTS Threads,
          Cpus,
          Ctrls,     \* the acoral_pool_ctrl_t
          NoThread,  \* NULL, and an unlocked lock
          NoCtrl,    \* NULL
          MaxPools,  \* ACORAL_MAX_POOLS
          MaxCalls,  \* bound: calls one thread makes
          Levels,    \* bound: block sizes of acoral_malloc are 2^0 .. 2^Levels
          Rubbish,   \* bound: the words that memory behind a pool may hold
          Apps       \* applications: records with fields
                     \*   cpu, prio  of each thread (a smaller prio is more urgent)
                     \*   role       "get", "release" or "masked": what it calls,
                     \*              "masked" being a release in a critical section
                     \*   ctrl       the control block each thread works with
                     \*   bits       the CPUs its threads are made ready on
                     \*   ctrls      [type, size, want, max] of each control block:
                     \*              want is num_per_pool, max is max_pools

(* ACORAL_MAX_POOLS is 40.  With an odd number acoral_get_free_pool would  *)
(* read through a NULL base_adr when it hands out the last pool.           *)
ASSUME MaxPoolsAssumption == MaxPools \in 1 .. 2^10 /\ MaxPools % 2 = 0
ASSUME PoolNullsAssumption == NoThread \notin Threads /\ NoCtrl \notin Ctrls
ASSUME PoolCallsAssumption == MaxCalls \in Nat
ASSUME RubbishAssumption == Rubbish # {} /\ \A w \in Rubbish : w \in Nat /\ w \div 2^16 < 2^16
(* A pool's request fits the largest block and an index fits its ten bits. *)
ASSUME LevelsAssumption == Levels \in Nat /\ \A k \in 0 .. Levels : 2^k \in 1 .. 2^10
ASSUME PoolAppsAssumption ==
  \A a \in Apps :
    /\ a.cpu \in [Threads -> Cpus] /\ a.ctrl \in [Threads -> Ctrls] /\ a.bits \subseteq {0, 1}
    /\ \A c \in Ctrls : LET k == a.ctrls[c]
                         IN /\ k.type \in 1 .. 15 /\ {k.size, k.want, k.max} \subseteq Nat \ {0}
                            /\ k.size * k.want <= 2^Levels

VARIABLES app,
          pools,     \* acoral_pools
          free_pool, \* acoral_free_res_pool
          heap,      \* the blocks acoral_malloc has returned, as arrays of words
          ctrls,     \* num_per_pool, num, total_pools, free_pools, lock and
                     \* whether acoral_pool_ctrl_init has run
          crit,      \* [Cpus -> thread in a critical section]
          pc,        \* [Threads -> where it is in its call]
          reg,       \* [Threads -> local variables pool and res]
          live,      \* resources handed out and not yet given back
          calls

vars == <<app, pools, free_pool, heap, ctrls, crit, pc, reg, live, calls>>

Cpu == app.cpu
PoolIds == 0 .. MaxPools - 1

-----------------------------------------------------------------------------
(* Pointers and words *)

Null == [to |-> "null", n |-> 0]
PoolPtr(p) == [to |-> "pool", n |-> p]
BlockPtr(b) == [to |-> "block", n |-> b]

(* The pointer stored at ptr, which acoral_get_free_pool reads: the first  *)
(* field of a pool is its base_adr; the first word of a block is no        *)
(* pointer, and NULL points to nothing.                                    *)
Deref(ptr) == IF ptr.to = "pool" THEN pools[ptr.n].base_adr
              ELSE [to |-> "wild", n |-> 0]

FreeWord(index, next) == index * 2^16 + next
NextId(word) == word % 2^16

(* Mutant: the index is left where the free word has it. *)
ResIdUnshifted(word, pool_id) == ((word \div 2^16) % 2^10) * 2^16 + pool_id

(* The id made from a free word by acoral_get_res, and what                *)
(* acoral_get_pool_by_id and acoral_get_res_by_id take from an id.         *)
ResId(word, pool_id) == ((word \div 2^16) % 2^10) * 2^14 + pool_id
PoolIndex(id) == id % 2^10
ResIndex(id) == (id \div 2^14) % 2^10
ResType(id) == (id \div 2^10) % 2^4

acoral_get_res_by_id(id) == <<pools[PoolIndex(id)].base_adr, ResIndex(id)>>
WordAt(res) == heap[res[1].n][res[2]]

(* acoral_malloc_size: the smallest block size that is large enough. *)
MallocSize(bytes) ==
  LET fits == {k \in 0 .. Levels : 2^k >= bytes}
  IN 2^(CHOOSE k \in fits : \A j \in fits : k <= j)

-----------------------------------------------------------------------------
(* acoral_pools_init: the unused pools are chained through base_adr.  The  *)
(* loop leaves the id of the last pool at 0.                               *)
PoolsInit ==
  [p \in PoolIds |->
     [base_adr |-> IF p = MaxPools - 1 THEN Null ELSE PoolPtr(p + 1),
      id |-> IF p = MaxPools - 1 THEN 0 ELSE p,
      res_free |-> 0, num |-> 0, free_num |-> 0, ctrl |-> NoCtrl]]

Init ==
  /\ app \in Apps
  /\ pools = PoolsInit
  /\ free_pool = PoolPtr(0)
  /\ heap = << >>
  /\ ctrls = [c \in Ctrls |-> [num_per_pool |-> app.ctrls[c].want, num |-> 0, total_pools |-> << >>,
                               free_pools |-> << >>, lock |-> NoThread, ready |-> FALSE]]
  /\ crit = [c \in Cpus |-> NoThread]
  /\ pc = [t \in Threads |-> "rest"]
  /\ reg = [t \in Threads |-> [pool |-> 0, res |-> <<Null, 0>>]]
  /\ live = {}
  /\ calls = [t \in Threads |-> 0]

(* acoral_pool_res_init: every resource of the block is free, in order. *)
PoolResInit(num) ==
  [i \in 0 .. num - 1 |-> FreeWord(i, IF i = num - 1 THEN 0 ELSE i + 1)]

(* acoral_create_pool once it has the unused pool p, for a control block k *)
(* with record cb; got tells whether acoral_malloc succeeds.  If it does   *)
(* not, p stays marked with the type and is in no list any more.           *)
NewPool(p, k, cb, got) ==
  LET marked == [pools[p] EXCEPT !.id = app.ctrls[k].type * 2^10 + @,
                                 !.num = cb.num_per_pool]
  IN IF got THEN [marked EXCEPT !.base_adr = BlockPtr(Len(heap) + 1), !.res_free = 0,
                                !.free_num = cb.num_per_pool, !.ctrl = k]
     ELSE [marked EXCEPT !.base_adr = Null]
NewHeap(cb, got) == IF got THEN Append(heap, PoolResInit(cb.num_per_pool)) ELSE heap
NewCtrl(p, cb, got) ==
  IF got THEN [cb EXCEPT !.total_pools = Append(@, p), !.free_pools = Append(@, p), !.num = @ + 1]
  ELSE cb

(* acoral_pool_ctrl_init, by the first CPU before any other thread exists: *)
(* as many resources as the block has room for, and a first pool.          *)
CtrlInit(k) ==
  LET wanted == app.ctrls[k].size * app.ctrls[k].want
      cb == [ctrls[k] EXCEPT !.ready = TRUE,
                             !.num_per_pool = MallocSize(wanted) \div app.ctrls[k].size]
      p == free_pool.n
  IN /\ ~ctrls[k].ready
     /\ free_pool.to = "pool"
     /\ \E got \in BOOLEAN :
          /\ free_pool' = Deref(pools[p].base_adr)
          /\ pools' = [pools EXCEPT ![p] = NewPool(p, k, cb, got)]
          /\ heap' = NewHeap(cb, got)
          /\ ctrls' = [ctrls EXCEPT ![k] = NewCtrl(p, cb, got)]
     /\ UNCHANGED <<app, crit, pc, reg, live, calls>>

-----------------------------------------------------------------------------
(* Threads.  A critical section masks the interrupts of its CPU, so nobody *)
(* else runs there; outside of one, the most urgent thread in a call runs. *)
InCritical(t) == crit[Cpu[t]] = t
CanRun(t) ==
  \/ InCritical(t)
  \/ /\ crit[Cpu[t]] = NoThread
     /\ \A u \in Threads : (Cpu[u] = Cpu[t] /\ app.prio[u] < app.prio[t]) => pc[u] = "rest"
EnterCritical(t) == crit' = [crit EXCEPT ![Cpu[t]] = t]
ExitCritical(t) == crit' = [crit EXCEPT ![Cpu[t]] = NoThread]

At(t, place) == pc[t] = place /\ CanRun(t)
GoTo(t, place) == pc' = [pc EXCEPT ![t] = place]
CtrlOf(t) == app.ctrl[t]

MayCall(t) ==
  /\ At(t, "rest")
  /\ calls[t] < MaxCalls
  /\ \A k \in Ctrls : ctrls[k].ready
  /\ calls' = [calls EXCEPT ![t] = @ + 1]

(* acoral_get_res *)
Get(t) ==
  /\ app.role[t] = "get"
  /\ MayCall(t)
  /\ EnterCritical(t)
  /\ GoTo(t, "get")
  /\ UNCHANGED <<app, pools, free_pool, heap, ctrls, reg, live>>

(* acoral_spin_lock(&pool_ctrl->lock): while it is taken the caller spins. *)
Lock(t, k, from, to) ==
  /\ At(t, from)
  /\ ctrls[k].lock = NoThread
  /\ ctrls' = [ctrls EXCEPT ![k].lock = t]
  /\ GoTo(t, to)
  /\ UNCHANGED <<app, pools, free_pool, heap, crit, reg, live, calls>>
GetLock(t) == Lock(t, CtrlOf(t), "get", "locked")

(* Mutant: the failure path forgets the lock. *)
UnlockedNot(cb) == cb

(* Return NULL: unlock and leave the critical section. *)
Unlocked(cb) == [cb EXCEPT !.lock = NoThread]
GetFails(t, cb) ==
  /\ ctrls' = [ctrls EXCEPT ![CtrlOf(t)] = Unlocked(cb)]
  /\ ExitCritical(t)
  /\ GoTo(t, "rest")

(* acoral_create_pool up to reading acoral_free_res_pool. *)
NeedPool(t) ==
  /\ At(t, "locked")
  /\ ctrls[CtrlOf(t)].free_pools = << >>
NoMorePools(t) ==
  /\ NeedPool(t)
  /\ \/ ctrls[CtrlOf(t)].num >= app.ctrls[CtrlOf(t)].max
     \/ free_pool = Null
  /\ GetFails(t, ctrls[CtrlOf(t)])
  /\ UNCHANGED <<app, pools, free_pool, heap, reg, live, calls>>
ReadFreePool(t) ==
  /\ NeedPool(t)
  /\ ctrls[CtrlOf(t)].num < app.ctrls[CtrlOf(t)].max
  /\ free_pool.to = "pool"
  /\ reg' = [reg EXCEPT ![t].pool = free_pool.n]
  /\ GoTo(t, "pop")
  /\ UNCHANGED <<app, pools, free_pool, heap, ctrls, crit, live, calls>>

(* Mutant: the list of unused pools is not advanced. *)
PopFreePoolStays(t) ==
  /\ At(t, "pop")
  /\ GoTo(t, "create")
  /\ UNCHANGED <<app, pools, free_pool, heap, ctrls, crit, reg, live, calls>>

(* acoral_get_free_pool under the lock of the pool it has read: what       *)
(* base_adr points to is dereferenced once more.                           *)
PopFreePool(t) ==
  /\ At(t, "pop")
  /\ free_pool' = Deref(pools[reg[t].pool].base_adr)
  /\ GoTo(t, "create")
  /\ UNCHANGED <<app, pools, heap, ctrls, crit, reg, live, calls>>

CreatePool(t) ==
  LET k == CtrlOf(t) cb == ctrls[k] p == reg[t].pool
  IN /\ At(t, "create")
     /\ \E got \in BOOLEAN :
          /\ pools' = [pools EXCEPT ![p] = NewPool(p, k, cb, got)]
          /\ heap' = NewHeap(cb, got)
          /\ IF got THEN /\ ctrls' = [ctrls EXCEPT ![k] = NewCtrl(p, cb, got)]
                         /\ GoTo(t, "locked")
                         /\ UNCHANGED crit
             ELSE GetFails(t, NewCtrl(p, cb, got))
     /\ UNCHANGED <<app, free_pool, reg, live, calls>>

(* The rest of acoral_get_res: the first free resource of the first pool   *)
(* that has one, and the pool leaves free_pools with its last.  TypeOK     *)
(* says that free_num never goes below zero, where it would wrap.          *)
Taken(pool, word) ==
  [pool EXCEPT !.res_free = NextId(word), !.free_num = @ - 1]
StillFree(free_pools, free_num) == IF free_num = 0 THEN Tail(free_pools) ELSE free_pools
Take(t) ==
  LET k == CtrlOf(t)
      p == Head(ctrls[k].free_pools)
      b == pools[p].base_adr.n
      i == pools[p].res_free
      word == heap[b][i]
      pool == Taken(pools[p], word)
  IN /\ At(t, "locked")
     /\ ctrls[k].free_pools # << >>
     /\ pools' = [pools EXCEPT ![p] = pool]
     /\ heap' = [heap EXCEPT ![b][i] = ResId(word, pools[p].id)]
     /\ ctrls' = [ctrls EXCEPT ![k].free_pools = StillFree(@, pool.free_num), ![k].lock = NoThread]
     /\ live' = live \cup {<<BlockPtr(b), i>>}
     /\ ExitCritical(t)
     /\ GoTo(t, "rest")
     /\ UNCHANGED <<app, free_pool, reg, calls>>

-----------------------------------------------------------------------------
(* acoral_sched_rdyqueue_add, whenever a thread becomes ready: it writes   *)
(* its CPU above the index in the id of the thread block.                  *)
Releasing == {"release", "releasing"}
ACORAL_RES_THREAD == 1
Marked(word, bit) == (word % 2^24) + bit * 2^24
Mark(res, bit) ==
  /\ res \in live
  /\ ResType(WordAt(res)) = ACORAL_RES_THREAD
  /\ \A u \in Threads : pc[u] \in Releasing => reg[u].res # res
  /\ heap' = [heap EXCEPT ![res[1].n][res[2]] = Marked(WordAt(res), bit)]
  /\ UNCHANGED <<app, pools, free_pool, ctrls, crit, pc, reg, live, calls>>

-----------------------------------------------------------------------------
(* acoral_release_res of a resource that its user holds: its pool is found *)
(* from the id before the lock is taken.  The daemon calls it outside a    *)
(* critical section, a failed thread creation inside one.                  *)
Release(t, res) ==
  /\ app.role[t] \in {"release", "masked"}
  /\ res \in live
  /\ ResType(WordAt(res)) = app.ctrls[CtrlOf(t)].type
  /\ \A u \in Threads : pc[u] \in Releasing => reg[u].res # res
  /\ MayCall(t)
  /\ reg' = [reg EXCEPT ![t] = [pool |-> PoolIndex(WordAt(res)), res |-> res]]
  /\ IF app.role[t] = "masked" THEN EnterCritical(t) ELSE UNCHANGED crit
  /\ GoTo(t, "release")
  /\ UNCHANGED <<app, pools, free_pool, heap, ctrls, live>>

ReleaseLock(t) == Lock(t, pools[reg[t].pool].ctrl, "release", "releasing")

(* Mutant: the next index is not set. *)
ReleasedUnlinked(index, old) == FreeWord(index, 0)

(* The lower half of a word is the next free index; the rest is kept. *)
SetNext(word, next) == (word \div 2^16) * 2^16 + next
Released(index, old) == SetNext(FreeWord(index, 0), old \div 2^16)
Requeued(free_pools, p) ==
  IF \E i \in DOMAIN free_pools : free_pools[i] = p THEN free_pools ELSE Append(free_pools, p)

(* tmp->id, read after the word of res has been written.  tmp is the old   *)
(* res_free: res itself, a free resource, or if none was free what the     *)
(* last link left there, a resource in use or memory behind the pool.      *)
OldWords(p, res) ==
  LET f == pools[p].res_free
  IN IF f = res[2] THEN {FreeWord(res[2], 0)}
     ELSE IF f < pools[p].num THEN {WordAt(<<res[1], f>>)} ELSE Rubbish

(* The range check returns with the lock held. *)
ReleaseBody(t) ==
  LET res == reg[t].res
      p == reg[t].pool
      k == pools[p].ctrl
  IN /\ At(t, "releasing")
     /\ IF pools[p].base_adr = res[1] /\ res[2] < pools[p].num
        THEN /\ pools' = [pools EXCEPT ![p].res_free = res[2], ![p].free_num = @ + 1]
             /\ \E old \in OldWords(p, res) :
                  heap' = [heap EXCEPT ![res[1].n][res[2]] = Released(res[2], old)]
             /\ ctrls' = [ctrls EXCEPT ![k].free_pools = Requeued(@, p), ![k].lock = NoThread]
        ELSE UNCHANGED <<pools, heap, ctrls>>
     /\ live' = live \ {res}
     /\ IF InCritical(t) THEN ExitCritical(t) ELSE UNCHANGED crit
     /\ GoTo(t, "rest")
     /\ UNCHANGED <<app, free_pool, reg, calls>>

GetStep(t) ==
  GetLock(t) \/ NoMorePools(t) \/ ReadFreePool(t) \/ PopFreePool(t) \/ CreatePool(t) \/ Take(t)
ReleaseStep(t) == ReleaseLock(t) \/ ReleaseBody(t)

Next ==
  \/ \E k \in Ctrls : CtrlInit(k)
  \/ \E t \in Threads : Get(t) \/ GetStep(t) \/ ReleaseStep(t)
  \/ \E res \in live : (\E bit \in app.bits : Mark(res, bit)) \/ \E t \in Threads : Release(t, res)

(* A CPU executes the thread it runs; who has begun a call takes its next  *)
(* step if that is possible for long enough.                               *)
Fairness == \A t \in Threads : WF_vars(GetStep(t)) /\ WF_vars(ReleaseStep(t))
Spec == Init /\ [][Next]_vars /\ Fairness

-----------------------------------------------------------------------------
Places == {"rest", "get", "locked", "pop", "create", "release", "releasing"}
Pointers == [to : {"null", "pool", "block"}, n : Nat]

(* Types: counters, list members and pointers stay in their ranges, so a   *)
(* pool never has more free resources than resources and acoral_get_res    *)
(* never counts below zero (pool->free_num--).  res_free is in its pool    *)
(* while a resource is free; it may lie behind the pool when none is.      *)
TypeOK ==
  /\ app \in Apps
  /\ \A p \in PoolIds :
       /\ pools[p].base_adr \in Pointers /\ pools[p].ctrl \in Ctrls \cup {NoCtrl}
       /\ pools[p].free_num \in 0 .. pools[p].num
       /\ pools[p].res_free \in Nat /\ pools[p].res_free < 2^16
       /\ pools[p].free_num > 0 => pools[p].res_free < pools[p].num
  /\ free_pool \in Pointers
  /\ \A k \in Ctrls :
       /\ ctrls[k].free_pools \in Seq(PoolIds) /\ ctrls[k].total_pools \in Seq(PoolIds)
       /\ ctrls[k].num = Len(ctrls[k].total_pools) /\ ctrls[k].num <= app.ctrls[k].max
       /\ ctrls[k].lock \in Threads \cup {NoThread}
  /\ crit \in [Cpus -> Threads \cup {NoThread}]
  /\ pc \in [Threads -> Places]
  /\ calls \in [Threads -> 0 .. MaxCalls]

Members(seq) == {seq[i] : i \in DOMAIN seq}
Created == {p \in PoolIds : pools[p].base_adr.to = "block"}

(* The n-th resource of the free list of pool p, as acoral_get_res will    *)
(* meet it: res_free, then next_id again and again.                        *)
FreeAt(p) ==
  LET walk[n \in 1 .. pools[p].free_num] ==
        IF n = 1 THEN pools[p].res_free ELSE NextId(heap[pools[p].base_adr.n][walk[n - 1]])
  IN walk

(* However gets and releases interleave, the next free_num resources on    *)
(* the free list of a pool are exactly its resources that nobody holds,    *)
(* each once: none is handed out twice, none is lost, although the list's  *)
(* last link is rubbish: acoral_release_res reads it from a resource in    *)
(* use, whose CPU bit may make it an index behind the pool, or from what   *)
(* lies there.  What keeps the list sound is that free_num stops           *)
(* acoral_get_res before it follows that link.                             *)
(* And free_pools of a control block holds, once each, exactly those of    *)
(* its pools that have a free resource: acoral_get_res creates a pool only *)
(* if every resource is in use, and never looks into an exhausted pool.    *)
FreeListsExact ==
  /\ TypeOK
  /\ \A p \in Created :
       LET held == {i \in 0 .. pools[p].num - 1 : <<pools[p].base_adr, i>> \in live}
       IN /\ Members(FreeAt(p)) = (0 .. pools[p].num - 1) \ held
          /\ pools[p].free_num + Cardinality(held) = pools[p].num
  /\ \A k \in Ctrls :
       LET free == ctrls[k].free_pools
       IN /\ Members(free) = {p \in Members(ctrls[k].total_pools) : pools[p].free_num > 0}
          /\ Cardinality(Members(free)) = Len(free)

(* The id in a resource in use leads back to it (acoral_get_res_by_id) and *)
(* tells its type, so ids of resources in use differ and                   *)
(* acoral_release_res never takes its error returns, which keep the lock.  *)
IdFindsResource ==
  \A res \in live : /\ acoral_get_res_by_id(WordAt(res)) = res
                    /\ \E k \in Ctrls : /\ PoolIndex(WordAt(res)) \in Members(ctrls[k].total_pools)
                                        /\ ResType(WordAt(res)) = app.ctrls[k].type

(* In application a, who can create a pool while another thread is at it   *)
(* works with the same control block, whose lock keeps them apart, or runs *)
(* on the same CPU, where the critical section does: acoral_get_free_pool  *)
(* reads acoral_free_res_pool before it takes any lock of its own.         *)
CreatorsExclude(a) ==
  \A t, u \in Threads : (a.role[t] = "get" /\ a.role[u] = "get")
                           => a.cpu[t] = a.cpu[u] \/ a.ctrl[t] = a.ctrl[u]

(* acoral_free_res_pool is NULL or a pool that no control block owns and   *)
(* nobody is creating, except for the moment in which its reader has not   *)
(* moved it on yet; so no pool gets two owners.                            *)
FreePoolIsFree ==
  /\ free_pool.to \in {"null", "pool"}
  /\ free_pool.to = "pool" =>
       /\ pools[free_pool.n].ctrl = NoCtrl
       /\ \A k \in Ctrls : free_pool.n \notin Members(ctrls[k].total_pools)
       /\ \A t \in Threads : pc[t] = "create" => reg[t].pool # free_pool.n
  /\ \A t, u \in Threads : (pc[t] \in {"pop", "create"} /\ pc[u] \in {"pop", "create"} /\ t # u)
                             => reg[t].pool # reg[u].pool

(* Nobody who releases outside a critical section shares a CPU with a more *)
(* urgent user of the same control block.                                  *)
Unpreempted ==
  \A t, u \in Threads :
    (app.role[t] = "release" /\ Cpu[u] = Cpu[t] /\ app.ctrl[u] = app.ctrl[t])
      => app.prio[u] >= app.prio[t]

(* Every acoral_get_res and acoral_release_res that begins ends, on its    *)
(* failure paths too, provided no releasing thread can be preempted by a   *)
(* user of the same pools.                                                 *)
CallsEnd == \A t \in Threads : (Unpreempted /\ pc[t] # "rest") ~> (pc[t] = "rest")

(* acoral_release_res ends, as the daemon's loop needs to finish a round   *)
(* and suspend itself.                                                     *)
ReleasesEnd == \A t \in Threads : (pc[t] \in Releasing) ~> (pc[t] = "rest")

(* What acoral_release_res would need to read only its own pool when it    *)
(* takes the id behind the old res_free.                                   *)
ResFreeInPool == \A p \in Created : pools[p].res_free < pools[p].num

(* What ACORAL_MAX_POOLS promises: creating a pool fails for want of an    *)
(* unused one only if all of them are in use.                              *)
EveryPoolUsable == free_pool = Null => \A p \in PoolIds : pools[p].num > 0
=============================================================================
