# aCoral kernel: TLA+ models, checks and proofs

aCoral is a small multi-core real-time kernel in C (`kernel/`), with a board
layer for ARM Cortex-A (`libcpu/`, `bsp/`) and components on top
(`components/`). This directory holds TLA+ models of the kernel's core, the
TLC runs that check them on small instances, and TLAPS proofs of the most
important properties. All paths below are relative to the repository.

## 1. The system

| component | state | operations | correct means |
|---|---|---|---|
| ring buffer (`ringbuffer.c`) | `head_index`, `tail_index`, `p_buffer` | init, clear, put, get, put_more, get_more | a bounded queue that drops its oldest byte when full; results tell the truth |
| semaphore (`ipc.c`) | `count` (16 bit), `wait_queue`, `lock` | init, pend, pends, trypend, post, posts | no resource handed out twice, no waiter forgotten |
| mutex (`ipc.c`) | `count`, `data` (owner), `wait_queue`, `lock` | init, pend, trypend, post | one holder; a release wakes somebody |
| mpcp, dpcp (`ipc.c`) | per CPU and type: system priority, stack of resources in use, wait queue; per resource its ceiling and user | pend, post, migration there and back | one user per resource without its semaphore ever being waited for; priorities restored; every pend ends |
| tick queue and delays (`queue.c`, `timer.c`) | `time_delay_queue` with differences as values, `ticks` | delay, clock tick | sleep exactly as long as asked for, always wake |
| ready queues and switch (`sched.c`) | per CPU: lists by priority, bitmap, `num`, `running_thread`, `need_sched` | rdyqueue add/del, select, switch | lists, bitmap, counter and flags agree; the most urgent ready thread runs |
| thread operations (`thread.c`) | `state`, `prio`, `cpu`, `move_lock`, `ipc` | ready, suspend, change_prio, moveto, movein, kill, delay, create | a thread is in one place, on one CPU |
| inter-processor commands (`ipi.c`) | one-slot mailbox per CPU with a spin lock | send, handler | every command is carried out |
| daemon (`smp.c`) | `acoral_release_queue` | prerelease, walk, release | what has ended is released, and nothing else |
| resource pools (`res_pool.c`) | pools, free lists, ids | get, return | an id names at most one object |
| memory (`mem.c`) | buddy bitmaps, chains of words, marks, `free_num`; headers of variable-size blocks, `freep_p`, a mutex | malloc, free | blocks disjoint, refusal only if nothing fits |
| policies (`policy.c`, `comm_thrd.c`, `period_thrd.c`, `timed_thrd.c`) | policy table, `period_time_queue`, private data | create, end of a job, restart at the end of the period | each thread is released once per period, without drift, at its route's beginning |
| tcp client (`bsp/zynq7020/applications/lwip_tcp_client.c`) | a ring buffer without lock, `is_connected_to_server` | callbacks of lwip on CPU 1, read on CPU 0 | what is received is read, in order, or its loss is reported |
| admission control and dag (`components/tmp/lib`) | task graph | sort, admit | a topological order; admitted sets feasible |
| monitor, shell, printing, acosim, lwip, boot and board code | | | not part of the kernel's logic |

How they interact: every blocking operation is built from the thread
operations; each of those tests the thread's `state`, then enters a critical
section (interrupts masked on this CPU, scheduler lock) and changes the ready
queues of the thread's CPU, or, for a thread of another CPU, sends a command
to that CPU's mailbox and interrupts it. The clock interrupt of one CPU counts
down the delay queue and readies sleepers of both. A killed thread goes to the
release queue and the daemon frees it after its CPU has switched away.
Threads, ipc objects and drivers come from resource pools, pools from the
buddy system, stacks and private data from the variable-size allocator, whose
region is a block of the buddy system and whose lock is a kernel mutex. The
clock interrupt also counts down the period queue and restarts period threads
by setting up their stacks anew. Priority-ceiling resources change priorities,
preemption types and CPUs of their users. The tcp client runs lwip's callbacks
in a thread of one CPU and its reader in a thread of the other.

What is hard: a state tested before a critical section is used inside it; a
critical section masks only its own CPU; a readied waiter stays in the wait
queue until it runs, so a second post meets it there; senders spin for a
mailbox while holding locks that the receiving CPU may need; a migrating
thread exists between two CPUs; the daemon walks a queue that grows; the delay
queue stores differences, so each change concerns everybody behind it; a
thread suspended but not yet switched away from can be restarted, its new stack
overwritten by the switch; one bit per pair of buddies stands for two blocks of
any history; results of pend are ignored.
`PROJECT.json` lists these hazards line by line.

## 2. Modules

| module | models | composed of |
|---|---|---|
| `OverwriteFifo` | what the ring buffer promises | |
| `RingBuffer` | `ringbuffer.c` | refines `OverwriteFifo` |
| `IpcBase` | wait queue, `ipc->lock`, critical sections, readying across CPUs | used by the next two |
| `Semaphore` | counting semaphore, kill of a waiter | extends `IpcBase` |
| `Mutex` | mutex, kill of a waiter | extends `IpcBase` |
| `Delays` | what `acoral_delay_ms` promises | |
| `Delay` | tick queue, clock handler, delay, kill of a sleeper | refines `Delays` |
| `Scheduler` | ready queues, switch, thread operations, mailbox, interrupts, daemon | |
| `ResPool` | resource pools, free lists, ids, `acoral_get_res` and `acoral_release_res` on two CPUs | |
| `Heap` | what an allocator promises | |
| `MemBase` | callers of the allocators: CPUs, priorities, calls in progress | used by the next two |
| `Buddy` | the buddy system of `mem.c` | extends `MemBase` |
| `VolMem` | the variable-size allocator of `mem.c` with its mutex | extends `MemBase` |
| `Memory` | both, as `acoral_mem_sys_init` sets them up | composes `Buddy` and `VolMem`, refines `Heap` twice |
| `Periods` | what the period policy promises | |
| `Period` | policies, period and delay queue, clock handler, switch, kill | refines `Periods` |
| `Dpcp` | priority-ceiling resources on two CPUs | |
| `TcpClient` | the client's callbacks and reader inside put and get | |
| `QueueProofs` | lemmas on queues as sequences without repetitions | used by the next five |
| `MutexProofs`, `SemaphoreProofs`, `DelayProofs`, `SchedulerProofs`, `ResPoolProofs` | theorems about the module of that name | |
| `RingBufferProofs`, `TcpClientProofs` | theorems about the module of that name | |
| `MC*` | instances for TLC | |

Each module keeps the code's names for fields and operations, has one action
per step between which another CPU, an interrupt or a more urgent thread can
intervene, and one comment per action naming its function. `map` in
`PROJECT.json` gives the lines. Definitions whose comment begins with "Mutant"
are planted mistakes, used to show that each property can fail; no
specification contains them.

*RingBuffer.* `put` and `get` are single steps (one thread uses the ring);
`put_more` and `get_more` are a call and one step per loop iteration. A byte is
a member of `Bytes`. The capacity is one less than the buffer, a power of two.

*IpcBase, Semaphore, Mutex.* `app` is the application, chosen at the start
from `Apps`: which thread is on which CPU, at which priority, what it calls and
who may be killed. A thread's `pc` names its place in the C function: inside
the critical section but before `ipc->lock` ("pend", "post", ...), between the
two critical sections of a blocking call ("gap"), in the second one ("wake").
`CanRun` is strict priority scheduling on each CPU. `RdyThread` is
`acoral_rdy_thread`, disabled while a remote mailbox is full, which is the spin
of `acoral_ipi_cmd_send`. `acoral_sem_post` keeps `ipc->lock` during it,
`acoral_mutex_post` does not. `count` has its 16 bits and the availability test
its 8. `granted`, `posted` and `lostPost` are history. In `Mutex` a thread
whose pend came back with `KR_IPC_ERR_UNDEF` is still in the wait queue (`left`
is the history of those) and goes on like any other: it may try, take, hold and
release the mutex, pend again or exit. The last two link a node that is linked
already, which breaks the list (`broken`) or hangs the thread on the lock of its
own node (`PendHangs`, place "hung"); what the links are after that is left open,
so any thread may then be what `acoral_ipc_high_thread` returns. An owner does
not sleep while it holds the mutex.

*Delay.* `app` says where the threads run, how long they sleep and who may be
killed. The clock handler is split where the code lets another CPU in: the
load and the store of `head->next->value--` (not under the queue's lock), the
removal of a node and the readying of its thread. Its `tmp` and `tmp1` are
kept, and `NextOf` gives a removed node's `next` as `acoral_list_del` leaves it.

*Scheduler.* A context (a thread, or the interrupt handler of a CPU) has at most
one call in progress: `Route` is the test before the critical section, `Commit*`
the critical section, `Send` the mailbox; a thread that sends with its interrupts
open is preemptable between filling the mailbox and raising the interrupt
(`SendFill`, `SendSignal`). `stack` differs from `running` while
the switch still executes on the old thread's stack. Interrupts do not nest
(all have the same priority in the controller). `need_sched` is served before
the thread goes on (`Schedule`); an interrupt that arrives between
`HAL_INTR_RESTORE` and the end of `acoral_exit_critical` leaves the switch to
the thread, and `hal_irq_switch`, once set, is never cleared, as in the code.
The application is a set of calls `script`, chosen from `Apps`; a call marked
`once` is made once. Calls name threads that have not been killed (id reuse
needs the resource pool). `acoral_list_del` takes one node out (`DelQ`), so a
thread queued twice stays queued once, as in the code. `Disciplined` says what
an application must do without for the kernel's queues to stay in order; section
5 tells what happens to those that do not. Thread creation and the restart of period threads are
in `Period`, changes of `preempt_type` in `Dpcp`.

*ResPool.* A pointer is a record that tells what it points to (nothing, a pool,
a block of resources), so that the double dereference of
`acoral_get_free_pool` means what it does in C (`Deref`). The first word of a
resource is a number: the id's bit fields and the free list's index pair, which
share it, are taken apart arithmetically (`ResId`, `NextId`, `SetNext`).
`acoral_get_res` is split where another CPU can come in: taking the lock,
reading `acoral_free_res_pool`, moving it on, filling the new pool, taking the
resource. `acoral_release_res` reads the id before its lock; a "release" thread
(the daemon) can be preempted between lock and unlock, a "masked" one (a thread
creation that failed) cannot. `acoral_malloc` may fail at any call. Users
release only what they hold, once; `live` records that. `Mark` is the write of
`acoral_sched_rdyqueue_add` (`sched.c:146-153`): a thread in use that becomes
ready on CPU 1 has bit 24 set in the word that its id and its link share, and on
CPU 0 has it cleared. A release to an exhausted pool reads the word at the old
`res_free`; the link it makes of a word with that bit leads out of the pool, and
the next such release reads there: `Rubbish`, any word.

*MemBase, Buddy, VolMem, Memory.* Memory is a row of basic blocks, or of words.
A bitmap is the set of its bits, but the chains of words (`free_list`,
`free_cur`), the marks and `free_num` are kept as the code keeps them, and
`junk` is what the uninitialised marks hold. `buddy_malloc` is two steps (the
test of `free_num` is made before the lock), `buddy_free` two as well where it
opens interrupts before it unlocks. The number of bits of a word (`bits`) and
the wrap of `free_num` (`NumWrap`) are parameters; 32 and 2^32 in the code.
`vol_malloc` is split where its mutex lets another thread in: pend, the wakeup
that may find the mutex taken, the search, taking the block, post. `behind` is
the word after the region, which `vol_free` reads. `given` and `lent` are
history: what callers own.

*Period.* The CPU that takes the clock interrupt. `ctx` is where a thread's
saved stack resumes, `live` where the CPU is in the running thread; a switch
saves `live` over whatever `ctx` was, and a tick may fall before a due switch.
A creation with the period policy is two steps, as in the code: the first
period's end is queued in a critical section of its own, and only then is the
thread made ready (`creates` is who stands between the two). `punctual` says what
an application finishes before the period ends: its "jobs" with their sleeps, its
"creations" of threads that would preempt their creator. Jobs otherwise take
any time. The tick is one step: the handler runs with interrupts masked, and the
threads of this module are on its CPU (`Delay` has its parts).

*Dpcp.* A critical section is one step that ends with the switch it asks for;
the gap between queueing a waiter and suspending it is another step. A thread
uses one resource per job, and may sleep while it does. A migration has its
parts: leaving the ready queue with the own `move_lock` taken (`Jump`), waiting
for the other CPU's mailbox (`JumpSend`), the switch that gives the lock up
(`JumpSwitch`), the handler over there (`IpiCmd`) and its wait for the lock
(`MoveIn`). The resources' own semaphores cannot make anybody wait:
`acoral_sem_pend` is called inside a critical section, so a thread that finds
the semaphore taken is suspended, queued and taken out of that queue again before
the switch, and nobody readies it ("stuck"); and if the resource is on top of the
stack, `acoral_list_add` spins on the lock of a node that it has locked itself
("hung"). So the ceilings are the only protection.

*TcpClient.* Every load and store of an index is a step, and where the compiler
may keep a loaded value or load it again both happen. `ordered = FALSE` lets the
reader see a byte later than the index behind it, which ARM allows without the
barriers the code does not have. lwip is external: it connects, delivers
packets and reports the remote close. A packet is a chain of pbufs: the callback
puts the `p->len` bytes of the first one and tells lwip of as many, then frees
the chain, so the rest is gone (`dropped`). If a put reported an overflow it
returns `ERR_MEM` all the same, and lwip, which takes that for a refusal, delivers
the packet again, from a pbuf that is free by now (`ReceiveRefused`: any packet).
The first pbuf is assumed to fit the callback's own buffer (`CopySize`, 512 in
the code); the code does not test that, and what a longer one overwrites is not
modelled.

## 3. Runs

All finish within two minutes. Deadlock is checked, except where every thread
stops after its last call (`ResPool`, `Memory`, `BuddyOverlap`, `Dpcp`,
`TcpClient`).

| run | shows |
|---|---|
| `RingBuffer` | the ring refines `OverwriteFifo`; put_more reports exactly whether a byte was lost |
| `TcpClient` | with both threads inside put and get, on one CPU or two, no byte put is lost unless a put has reported it, and where stores keep their order the reader gets the stream |
| `Semaphore` | no resource handed out twice, none withheld (`Conservation`), and no post without its waiter unless a waiter was killed (`PostFindsWaiter`) on two CPUs with kills; on one CPU with a poster less urgent than the waiters they are served; posts brings back everybody in pends |
| `Mutex` | exclusion and agreement of count, owner and holder on two CPUs with kills and exits; as long as its links are whole, the wait queue holds every waiter once and beside them exactly the threads whose pend failed; on one CPU waiters get the mutex |
| `Delay` | threads of the clock's CPU sleep exactly as asked (refinement of `Delays`) and wake, differences stay non-negative; and they are never lost, whatever another CPU and kills do to the queue during the handler |
| `Scheduler` | ready lists, bitmap, counter and flags agree, and each CPU runs its most urgent thread, under ready, suspend, kill and migration across CPUs, clock wakeups and changes of priority, with a globally preemptive thread; no thread runs on two CPUs, and only the stack of a migrating thread is ever shared, with the CPU that is switching away from it; migrations arrive; the daemon releases exited threads of its CPU, releases nothing that runs or is ready, is off the stack of what it releases, and ends its walk unless two threads stay that it cannot release |
| `ResPool` | resources are neither handed out twice nor lost, pools with free resources are exactly those in `free_pools` (`FreeListsExact`), ids lead back to their resources, no pool has two owners, and calls end on all failure paths; in one application threads of CPU 1 have their bit in their ids |
| `Memory` | both allocators hand out disjoint blocks (refinement of `Heap`), the headers cover the region and say what is free, vol_malloc refuses only what does not fit, and calls return; the applications are those in which the buddy system is right (see section 5): blocks of one size freed in short histories, or nothing freed |
| `Period` | both tick queues agree with the threads, no failed creation or kill leaves anything behind but the node of a thread killed while ready, each period thread is released once per period without drift and from the start of its route (where jobs and creations end before the period), every thread that waits is restarted |
| `Dpcp` | with two users per local resource, or global resources whose users do not sleep, nobody whom the ceilings admit finds a resource in use, stack, system priority and wait queue agree, and where at most one thread migrates every pend ends |
| `BuddyOverlap`, `RingBufferGetMore` | violations, see section 5 |

*Bounds.* Ring: a buffer of 4 bytes, two byte values, requests of up to
5 bytes: both indices wrap, full and empty are reached, and
the proofs remove the bound. Semaphore and mutex: three threads (two waiters
and a poster are the least for a wakeup to reach the wrong one), two CPUs,
three calls each (`MaxCalls`): wait, be woken, compete again. Delay: three
sleepers, so that a node can be inserted before, between and behind others,
delays of up to 3 ticks, the clock modulo 4 so that it wraps. Scheduler: two
CPUs, two idle threads, the daemon and four application threads, one of them less
urgent than the daemon, in eight applications of up to seven calls; calls
are repeated without bound except the remote ones of `Moved` and `Remote`, made
once each (repeating a remote migration is a deadlock of section 5, and an
endless stream of commands would starve the thread they interrupt). `TwoKilled`
leaves two threads that the daemon cannot release. ResPool: six
pools, of which the code can use three, two control blocks, pools of 1, 2 and
5 resources (block sizes are powers of two), three calls per thread: pools run
out of resources, control blocks of pools, and the kernel of unused pools.
Memory: up to 13 basic blocks on 2 to 4 levels, so that there is a remainder on
every level, words of 2 to 6 bits so that a bitmap has several; up to seven
calls: allocate all, free all, allocate again; a region of 8 words holds up to
three blocks, the least for a merge on both sides. Period: periods of 2 and 3
ticks, so that all phases occur, sleeps of up to 3, no bound on the number of
jobs. Dpcp: three threads (a user, a more urgent user, one in between), two
resources, at most two jobs each: pend, wait, get, come again; three of the eight
applications have one thread that migrates, two have two. TcpClient: a ring
of four bytes, packets of one byte, of more than the ring holds and of two pbufs,
packets until five bytes are stored (`MaxBytes`): each index goes round the ring at least once.
`once`, `MaxCalls`, `calls`, `jobs` and `MaxBytes` are the only bounds on
behaviour.

*Fairness.* Semaphore and mutex: a thread that may run inside a call goes on
(weak), and a pending command is taken when interrupts are open (weak); calls
and kills are never forced. Delay: the clock ticks and commands are taken even
if critical sections keep closing the interrupt (strong: the controller keeps a
masked interrupt pending), handlers and the started suspension end (weak).
Scheduler: handlers proceed (weak), commands are taken (strong, as above), and
the interrupted thread gets on (strong: interrupts do not saturate a CPU).
ResPool and Memory: a thread that may run inside a call goes on (weak). Period:
the clock ticks although critical sections mask it (strong, as above), a due
switch happens and a creation goes on (weak); no job is forced to end. Dpcp: the
clock interrupts, calls and handlers go on, and jobs end (weak; a resource whose user never ends is of course never
given back). TcpClient: none, nothing is promised to happen.

## 4. Proofs

*RingBufferProofs*, for every power-of-two size and every request size:
`TypeCorrect` (indices inside the buffer), `PutMoreTruthful`,
`RingImplementsFifo`, the refinement of `OverwriteFifo`, and `GetMoreCounts`,
which bounds how far get_more is from its promise (section 5): the result is one
too many exactly if the loop ran into the empty ring. The inductive
invariant is `TypeOK` with `LoopInv`, which relates a loop's counter, the bytes
moved so far and the result so far; without it nothing is known of a result
when the loop ends. The refinement rests on lemmas on how the masked indices
move and on the sequence `Contents` they delimit: put appends and at most drops
the head, get takes the head. Assumptions: the size is a power of two, there is
at least one byte value.

*MutexProofs*, for any threads, CPUs, priorities, kills and number of calls:
`OwnerAlwaysAgrees`, `MutexExcludes` and `QueueOnlyWaiters`. Exclusion alone is
not inductive: a fresh pend tests `count`, a woken one tests `data`.
`OwnerAgrees` says that both agree with the holder; `Asleep` says that only a
thread in its gap is suspended, so a kill never hits the owner; none of this
speaks of the queue, so exclusion holds of broken links too. `IInv` is
`OwnerAgrees` with the types it needs. The wait queue needs `QueueInv`: as long
as it is whole nobody stands in it twice, and those in it are the threads that
wait and those whose pend has failed (`left`), so that the one removal of a
thread that gets the mutex or is killed takes it out for good. A thread that has
failed and pends again or exits ends that, which is the hypothesis `~broken` in
the statement; the code really loses the list there (section 5).

*QueueProofs* holds what these proofs need of queues: inserting and removing a
thread, the members and the absence of repetitions afterwards, heads, minima of
sets of numbers.

*SemaphoreProofs*, for any CPUs, priorities, kills and number of calls:
`SemConserves` and `PostsFindWaiters`, both for fewer than 127 threads
(`ThreadCountAssumption`; the code's `CFG_MAX_THREAD` is 60)
and under `[]Supported`: at most 129 resources lie free, as many as the 8-bit
test of `count` can tell, and `posts` is not used on a semaphore that threads
wait for in `pend`. Both hypotheses are about the code: without them the
properties fail (section 5). What `count` says and what was granted differ while
a post is under way, because the poster gives its resource to a waiter that has
not run. `Counting` bounds count from both sides by the resources *promised*: to
a waiter chosen by a post, to a thread named in a mailbox, to a waiter that is
awake. It is an inequality, as the same waiter may be promised two resources.
`IInv` joins to it the types, the places threads can be in (`PlacesInv`), and
that exactly the waiting threads are in the wait queue, once (`QueueInv`).

*DelayProofs*, for any number of threads and CPUs, any delays and any width of
the clock: `ClockSleepersStayQueued` and `DeltasStaySorted` without further
hypothesis, and `DelaysImplemented`, the refinement of `Delays`, for delays of at
least one tick (`PositiveDelays`; a delay of 0 breaks it, section 5). The
invariant has one part for all applications (`QueueInv`, `ClockInv`: the critical
section between queueing and suspending keeps the clock handler out) and one,
`CalmInv`, for those on the clock's CPU alone without kills: what the handler's
pointers `tmp` and `tmp1` mean at each place. The refinement maps a sleeper to
the sum of the differences up to its node. What that recursive function computes
is found by its least counterexample instead of induction: `SumExists` and
`SumUnique` show that the sums are the only function with their recurrence, and
from there each operation shifts the sums as the promise says.

*SchedulerProofs*, for any number of CPUs, threads and priorities, any preemption
types and every set of calls that is `Disciplined`: `QueuesStayAgreed`,
`MostUrgentRuns`, `ThreadsRunOnce`, `ReleasedStaysGone`. The hypothesis is what
the code requires of its callers without saying so. `thread.c` tests a thread's
state before its critical section and changes the queues inside it: the kernel's
own threads are left alone, a thread that one of its own CPU readies (or suspends)
is readied (suspended) or killed by nobody else, and a thread that migrates is
handled only by itself and handles only itself. All applications of the run but
one (`Moved`) are disciplined, which TLC evaluates (`DisciplineAssumption` in
`MCScheduler`), so the hypothesis holds of them; section 5 has counterexamples
for undisciplined ones. None of the four properties is inductive. `IInv` says:
- `Data`: flags, lists, bitmap and counter agree; every CPU runs a ready thread
  of its own or owes a switch; its idle thread is ready (so that there is always
  something to select); and without a debt it runs what it would select;
- `CallInv`, `HomeInv`: which calls and commands can be in progress, given the
  application, and that only migrating threads change CPU;
- `CommitInv`: in a critical section the state tested before still holds. This is
  where discipline enters (lemma `Alone`: while one context changes a thread's
  flags no other one is in a critical section that relies on them);
- `TransitInv`: a migrating thread is asleep, in exactly one call or mailbox, and
  its `move_lock` is held until its old CPU has left it, which is why the target
  cannot start it early;
- `CritInv`: who can be inside a critical section that does not end in one step.

The stacks need a second invariant on top of it, `StackInv`: a CPU that serves an
interrupt is on the stack of its running thread, every CPU is on the stack of one
of its own threads or of one that has migrated away from it, and the daemon's CPU
is on no released thread's. `acoral_switch_context` gives `move_lock` up before it
is off the stack (`sched.c:226`), so `ThreadsRunOnce` allows exactly the overlap
of a migrating thread with the CPU that is switching away from it.

Assumptions on the constants: finitely many threads and priorities, priorities
are numbers, each CPU has its idle thread, which is not the daemon. Threads may
share priorities.

*TcpClientProofs*, for every power-of-two ring, any packets and reads, one CPU or
two, ordered stores or not: `RingLosesNothing`. Until a put has reported a loss the
two threads share no index that both write. `IndicesCount` carries a test over to
the store it guards (a slot found free stays free, a byte found stays there,
whatever the other thread does in between); `SlotsHoldStream` says what the slots
hold, including the byte written but not yet published.

*ResPoolProofs*, for any number of threads, CPUs, control blocks and pools, any
resource sizes and any sequence of calls: `FreeListsAlwaysExact`,
`IdsAlwaysFindResources`, `FreePoolAlwaysFree`. The hypothesis `CreatorsExclude`
says that two threads that create pools share a CPU or a control block; it holds
of every application of the run and fails of `Race`, which TLC evaluates
(`ExclusionAssumption` in `MCResPool`); there `FreePoolIsFree` fails
(`res_pool.c:228` in section 5). The free list is a chain of links inside words
that mean something else while the resource is in use, so nothing is inductive
that does not say what every word is. `IInv` says:
- `PoolsInv`: for each pool with an owner there is a sequence of indices without
  repetitions (`ListOk`, `ChainOk`) that begins at `res_free`, that the links
  follow for `free_num` steps, and that misses exactly the resources in use; the
  word of a resource in use is its id, with or without the CPU bit if it is a
  thread, that of a free one its index and a link of 16 bits. `res_free` is known
  to be in the pool only while `free_num` is positive, and of the last link of the
  chain nothing is known: it may lead to a resource in use or behind the pool,
  and `free_num` keeps gets from it;
- `OwnInv`, `LiveInv`: owners, `total_pools` and blocks correspond, no two pools
  share a block, and every resource in use lies in a pool that has an owner;
- `CtrlInv`: `free_pools` is the pools of the block with a free resource, once each;
- `ChainInv`: from `acoral_free_res_pool` on the pools are as `acoral_pools_init`
  left them. It only points to even ones, which is why an even number of pools is
  assumed (`MaxPoolsAssumption`);
- `CallInv`, `ReleaseOnce`: which locks and critical sections a call holds at each
  place, that a pool being created is still unused and lies before
  `acoral_free_res_pool`, that a resource being released is in use and released
  by one thread only. With `CreatorsExclude` this makes creators exclusive (lemma
  `OneCreator`). `BootInv`: no call begins before the control blocks are set up.

It rests on lemmas about the three bit fields of a word and on one lemma each for
setting up, taking from and putting back to a free list. Assumptions on the
constants: types fit four bits, sizes and numbers are positive, a pool's request
fits the largest block, no block has more than 1024 words, as many as an
index can tell, and what lies behind a pool is words of 32 bits.

Only model-checked: liveness (`WaiterServed`, `SleepersWake`, `MigrationArrives`,
`KilledIsReleased`, `CallsEnd` and the others; the prover has no ENABLED);
`BroadcastServes`; the migration of one thread by another (`Moved`); and all of
`Memory` (walks over headers and chains of blocks are recursive functions of
unbounded depth, `Heap` is refined by histories), `Period` and `Dpcp`.

## 5. Where code and documentation disagree

Checked by a run:

| run | source | what happens |
|---|---|---|
| `RingBufferGetMore` | `kernel/src/ringbuffer.c:137` | get_more counts the get that found the ring empty (and takes a byte for size 0), where `kernel/include/ringbuffer.h:82` promises the number of items really taken |
| `BuddyOverlap` | `kernel/src/mem.c:307` | with single blocks 0 and 1 in use and 0 freed, a request for two blocks is given 0 and 1: the mark of block 0 says that the pair is free |

Met while modelling and found by TLC with the instance named here, but not kept
as runs (a name in the third column is a value of the module's application
constant, defined in its MC module, and the property that fails):

| source | what happens | instance |
|---|---|---|
| `ipc.c:755` | a second post before the woken waiter has run picks the same waiter; another one sleeps on while count says nobody waits | `Semaphore`, `UrgentPoster`; `NoWaiterForgotten` |
| `timer.c:131` | a thread of CPU 1 is queued, popped by CPU 0's clock handler, and only then suspended: nobody wakes it | `Delay`, `OnlyShared`; `SleepersQueued` |
| `sched.c:86` | two threads that migrate themselves to each other's CPU: both handlers spin on a `move_lock` that only the interrupted switch would release | `Scheduler`, `Swap`; deadlock, and `MigrationArrives` |
| `sched.c:226` | `move_lock` is given up while the old CPU still executes on the migrating thread's stack: the new CPU may start the thread there | `Scheduler`, `OneMover`; `StacksUnshared` |
| `ipi.c:108` | between locking a mailbox and raising the interrupt the sender can be interrupted or preempted; an interrupt handler or more urgent thread of its CPU that sends to the same CPU spins for ever | `Scheduler`, e and d (or a and the clock) ready b of the other CPU; `SendsComplete` |
| `smp.c:104` | two killed threads that have not left their CPU are put behind each other for ever: the daemon never gives up its CPU, although it is to suspend itself once its walk is over (`smp.c:125`) | `Scheduler`, `TwoKilled`; `DaemonAlwaysRests` |
| `res_pool.c:177` | the daemon is preempted while it holds the thread pools' lock; the more urgent thread of its CPU that creates a thread spins on it with interrupts masked | `ResPool`, `Daemon`; `ReleasesEnd` |
| `res_pool.c:193` | the link of the last free resource is made of an id with the CPU bit of `sched.c:152`: it leads behind the pool, where the next release to the exhausted pool reads | `ResPool`, the application with `Single`; `ResFreeInPool` |
| `ipc.c:330` | a woken waiter that finds the mutex taken returns an error and stays in the wait queue, where it may hold the mutex or exit (`thread.c:69` takes out only suspended threads); if it pends again, its node is locked twice (`list.c:26`) and the CPU hangs, or the list loses threads | `Mutex`; `PendsReturn` |
| `thread.c:81` | a killed waiter leaves its share in count; a later post takes the error path of `ipc.c:757` | `Semaphore`, `~lostPost` |
| `ipc.c:616` | count is narrowed to 8 bits: with 130 resources the first pend blocks | `Semaphore`, `num = 130`; `Conservation` |
| `ipc.c:767` | a post holds `ipc->lock` while it waits for a mailbox whose CPU spins on that lock with interrupts masked | `Semaphore`, two waiters and a trypend thread on CPU 1, poster on CPU 0: deadlock |
| `thread.c:75` | killing a sleeper shortens the delays behind it | `Delay`, `Exact` with `killable = {t1}`; `OthersKeepTheirDelay` |
| `timer.c:146` | a delay of 0 makes a tick count for nobody | `Delay`, `Exact` with `ticks = {0, 1, 2}`; `EveryTickCounts` |
| `thread.c:117` | a thread and an interrupt of one CPU ready the same thread: it is queued twice | `Scheduler`, d and the clock both call ready for a; `QueuesAgree` |
| `thread.c:345` | a thread on its way to another CPU and readied on the old one ends in the wrong ready queue | `Scheduler`, d calls moveto and ready for a; `QueuesAgree` |
| `thread.c:287` | a remote migration repeated before the first is carried out hangs both CPUs | `Scheduler`, b repeats moveto of a; `SendsComplete` |
| `smp.c:125` | a thread exits between the end of the daemon's walk and its suspension: never released | `Scheduler`, a (more urgent than the daemon) exits, d and e sleep; `EveryKilledIsReleased` |
| `smp.c:117` | a thread of the other CPU is seen before it has left its CPU, or a thread is killed while it does not run: never released | `Scheduler`, `Exits` where e sleeps, or d kills a; `EveryKilledIsReleased` |
| `sched.c:196` | RELEASE is set while the CPU still executes on the stack; the daemon may free it | `Scheduler`, `Exits`; `StacksUnshared` |
| `res_pool.c:228` | `acoral_free_res_pool` is read before any lock: CPUs that create a thread pool and an ipc pool at once get the same pool | `ResPool`, `Apps <- Race`; `FreePoolIsFree` |
| `res_pool.c:234` | `base_adr` of an unused pool already is the next pool (`res_pool.h:94`), but it is dereferenced once more: every second pool is never used, 20 of the 40 of `ACORAL_MAX_POOLS`. The last pool, whose id `acoral_pools_init` does not set, is among them | `ResPool`; `EveryPoolUsable` |
| `mem.c:616` | a pend that fails (see `ipc.c:330`) is ignored: two threads search and take the same block | `Memory`, `TwoCpus`; `VolImplementsHeap` |
| `mem.c:469` | freeing an odd basic block does not add to `free_num`: memory is refused although it is free | `Memory`, `TwoBlocks` with `sizes = {0}`; `FreeNumExact` |
| `mem.c:475` | freeing a top block sets its bit but does not put its word back into the chain: after the last top block was taken none is found again | `Memory`, `TopBlocks` with `blocks = 4`; `BuddyImplementsHeap`, for what `mem.c:326` makes of it |
| `mem.c:326` | no block found although `free_num` says so: the error code is made into an address, and its mark written outside of the marks | `Memory`, `TopBlocks` with `blocks = 4`; `BuddyImplementsHeap` |
| `mem.c:518` | a merge that empties a word behind the head moves the head past words that have bits: their free blocks are lost, and a later free walks off the end of the chain (`free_list[-1]`) | `Memory`, `Singles` with `bits = 1` and five and three calls; `BuddyImplementsHeap` |
| `mem.c:526` | interrupts are opened before the lock is given up: a more urgent thread of the CPU that allocates then spins for ever | `Memory`, `Singles` with both threads on CPU 0; `CallsEnd` |
| `mem.c:706` | freeing what is free returns with the mutex held: every later call waits | `Memory`, `Twice` with two threads; `CallsEnd` without its guard |
| `mem.c:722` | the word behind the region is read as a header; if it looks free the last block grows beyond the region | `Memory`, `OneCpu` with `behind = FreeBlk(2)`; `VolExact` |
| `period_thrd.c:193` | a period that ends between a job's suspension and its switch sets up a stack that the switch overwrites: the thread resumes in `period_thread_exit` and returns from it | `Period`, `Late`; `NoneAstray` |
| `period_thrd.c:136` | a creator preempted for the first period of the thread it creates: the clock starts the thread, which ends its job, and the creator then readies it without a tick: it returns from `period_thread_exit` | `Period`, `LateCreation`; `NoneAstray` |
| `thread.c:69` | a thread killed while ready keeps its node in the period queue, which restarts a thread that has been released | `Period`, `Punctual`; `KilledIsUnqueued` |
| `thread.c:73` | killing a waiting period thread shortens the periods of those behind it | `Period`, `KillWaiting`; `ImplementsPeriods` |
| `period_thrd.c:122` | a creation that finds no stack does not free the private data | `Period`, `NoStack`; `QueuesExact` |
| `ipc.c:1125` | the flag that asks to restore a priority is bit 16 of `prio_switch`, which has 8 bits: an inherited priority is never given back | `Dpcp`, `Plain`; `PriorityRestored` |
| `ipc.c:1115` | a post between the queueing of a waiter and its suspension readies it while it is ready: the wakeup is lost | `Dpcp`, `ThreeUsers` or `GlobalNap`; `PendsEnd` |
| `ipc.c:1107` | after an inherited priority that was not given back, a thread passes the test for a resource in use: its CPU hangs in `acoral_list_add`, or it stays suspended for good | `Dpcp`, `TwoResources`; `CeilingProtects` |
| `ipc.c:1247` | a thread on its way back and one on its way to the resource cross: both CPUs hang as in `sched.c:86` | `Dpcp`, `Crossing`; `JumpsEnd`, and `PendsEnd` without its guard |
| `lwip_tcp_client.c:488` | once the ring has overflowed callback and reader both move the tail: bytes are read twice or skipped | `TcpClient`, `TwoCpus`; `OnlyOldestLost` |
| `lwip_tcp_client.c:483` | of a chain of pbufs only the first is put, and only as much is acknowledged: the rest is dropped without a word | `TcpClient`; `WholePacketsPut` |
| `ringbuffer.c:78` | without barriers the reader may see the new head before the byte | `TcpClient`, `Unordered`; `NothingReadEarly` |
| `lwip_tcp_client.c:287` | the result of one get is compared with the length of the whole read: one byte is taken out and 0 returned | `TcpClient`; `ReadReturnsTaken` |
| `lwip_tcp_client.c:474` | the remote close leaves `is_connected_to_server` set | `TcpClient`; `ConnectedMeansReceiving` |

Seen by reading, without a model: `acoral_mpcp_pend` holds a spin lock across
`acoral_sem_pend` (`ipc.c:903`), and `acoral_mpcp_post` readies the first waiter
of a system without taking it out of its queue (`ipc.c:946`); `acoral_dpcp_pend`
and `acoral_dpcp_post` return inside their critical section on a wrong CPU or
user (`ipc.c:1104`, `1194`, `1198`); `acoral_dpcp_post` takes whatever the
application has in `thread->data` for the origin's address (`ipc.c:1188`, `1241`);
a thread that pends a local resource while it uses another of the same ceiling
waits for itself (`ipc.c:1107`); lwip is called from two CPUs without a lock; the
callback copies `p->len` bytes through a buffer of 512 without a test
(`lwip_tcp_client.c:486`), and after an overflow returns `ERR_MEM` for a packet it
has freed (`lwip_tcp_client.c:498`), which lwip keeps to deliver it again.

## 6. Not modelled, and the plan

Left out for good: printing, strings, shell, monitor, simulator link, boot and
board code (formatting, I/O or vendored); admission control's floating-point
utilisation; `acoral_release_pool` and `acoral_collect_pool`, which nobody calls;
the global resources of MPCP, of which no contended use works. By far the
largest part of the repository, more than nine lines in ten, is not aCoral's
own: lwip (`bsp/*/packages/lwip_220`), the vendor's board libraries and protocol
buffers. They are used as they come and are external here; the models cover the
kernel, where the repository's own logic is.

Left out so far, and next in this order:

1. A composition of `ResPool` with the daemon and the mailbox, whose commands
   name threads by id while ids are reused.
2. The timed policy and the dag algorithms it depends on
   (`components/tmp/lib`), against reference definitions; the word-by-word
   search of `bitops.c`.
3. The local resources of MPCP (as in `Dpcp`), and nested use of resources.
4. Proofs: `SystemExact` and `CeilingProtects` of `Dpcp`, `QueuesExact` of `Period` with the
   lemmas of `DelayProofs`; the migration of one thread by another in `Scheduler`.
