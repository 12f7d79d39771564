------------------------------- MODULE Memory -------------------------------
(* The two allocators together, as acoral_mem_sys_init sets them up: the   *)
(* region of the variable-size allocator is a block of the buddy system.   *)
EXTENDS Buddy, VolMem

VARIABLE region        \* the block of vol_mem_ctrl.down_p, or Err

vars == <<memBaseVars, buddyVars, volVars, region>>

Init ==
  /\ MemBaseInit
  /\ \E r \in 0 .. app.blocks \cup {Err} : region = r /\ BuddyInit(r)
  /\ mem_state = IF region = Err THEN 0 ELSE 1
  /\ VolInit

BuddyCall(t) == (Malloc(t) \/ FreeCall(t)) /\ UNCHANGED <<volVars, region>>
VolCall(t) == (VolMalloc(t) \/ VolFree(t)) /\ UNCHANGED <<buddyVars, region>>
Step(t) == \/ BuddyStep(t) /\ UNCHANGED <<volVars, region>>
           \/ VolStep(t) /\ UNCHANGED <<buddyVars, region>>

Next == \E t \in Threads : BuddyCall(t) \/ VolCall(t) \/ Step(t)

(* A thread that may run inside a call goes on. *)
Fairness == \A t \in Threads : WF_vars(Step(t))

Spec == Init /\ [][Next]_vars /\ Fairness

-----------------------------------------------------------------------------
(* Types: block numbers, words and places are in range. *)
TypeOK ==
  /\ memLock \in Threads \cup {NoThread} /\ owner \in Threads \cup {NoThread}
  /\ \A l \in Levels : ctrl.free_cur[l] \in Words \cup {NoWord}
  /\ ctrl.free_num \in 0 .. app.blocks
  /\ freep_p \in 0 .. top_p
  /\ waiting \subseteq Threads /\ suspended \subseteq Threads

Region == IF region = Err THEN {} ELSE region .. (region + 2^app.region - 1)

BuddyHeap == INSTANCE Heap WITH space <- 0 .. (app.blocks - 1) \ Region, owned <- given
VolHeap == INSTANCE Heap WITH space <- 0 .. (top_p - 1), owned <- lent

(* buddy_malloc hands out blocks that overlap neither each other nor the   *)
(* variable-size allocator's region in applications that only allocate,    *)
(* and in applications whose blocks all have one size after the frees of   *)
(* the run (also of what is free).  With two sizes it does not: the mark   *)
(* that recus_malloc looks at no longer tells which of two blocks is free. *)
(* Nor does it where a bitmap has many words: a merge of buddy_free can    *)
(* drop a word with free blocks from the chain.                            *)
BuddyImplementsHeap == BuddyHeap!Spec

(* vol_malloc hands out ranges of its region that do not overlap.          *)
VolImplementsHeap == VolHeap!Spec

(* The blocks a walk over the headers visits. *)
Headers == {a \in 0 .. (top_p - 1) : words[a].size > 0}

(* The headers divide the region into blocks without gap or overlap, no    *)
(* two free blocks are neighbours, a search begins at a header, and every  *)
(* block that is used is owned by somebody or about to be freed.           *)
VolExact ==
  /\ TypeOK
  /\ 0 \in Headers
  /\ \A a \in Headers :
       LET next == a + words[a].size
       IN /\ next \in Headers \cup {top_p}
          /\ \A b \in Headers : ~(a < b /\ b < next)
          /\ next \in Headers => words[a].used \/ words[next].used
  /\ freep_p \in Headers \cup {top_p}
  /\ app.behind.used /\ ~app.vtwice =>
       {a \in Headers : words[a].used} =
         {b.at : b \in lent} \cup {call[t].at : t \in {u \in Threads : call[u].op = "vfree"}}
         \cup {call[t].then.at : t \in {u \in Threads : call[u].op \in {"vpend", "vwake"} /\ call[u].then.op = "vfree"}}

(* vol_malloc returns NULL only if no free block is large enough. *)
VolRefusesOnlyFull ==
  [][\A t \in Threads : call[t].op = "search" /\ call'[t].op = "vpost" =>
       ~\E a \in Headers : ~words[a].used /\ words[a].size >= call[t].need]_vars

(* Every call returns, on every path, unless a thread frees what is free.  *)
CallsEnd == \A t \in Threads : call[t] # Idle /\ ~app.vtwice ~> call[t] = Idle

-----------------------------------------------------------------------------
(* What the code does not keep, see the README; no run checks it.  The     *)
(* test of buddy_malloc counts what is free: it does not count the odd     *)
(* blocks that were freed, nor stop at 0 if two CPUs pass it at once.      *)
FreeNumExact ==
  (\A t \in Threads : call[t] = Idle) =>
    ctrl.free_num = Cardinality(((0 .. app.blocks - 1) \ Region)
                                  \ UNION {b.at .. (b.at + b.size - 1) : b \in given})
=============================================================================
