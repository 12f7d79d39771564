------------------------------- MODULE VolMem -------------------------------
(* The variable-size allocator of kernel/src/mem.c (vol_malloc, vol_free). *)
(* Its region is a row of 4-byte words; a block begins with a header word  *)
(* that holds its size and whether it is used.  Allocation is next-fit     *)
(* from freep_p, freeing merges with both neighbours.  The calls are       *)
(* serialised by a mutex (see Mutex), whose pend can fail; its result is   *)
(* not looked at.                                                          *)
EXTENDS MemBase

VARIABLES mem_state,   \* vol_mem_ctrl.mem_state: whether there is a region
          words,       \* the words of the region and those behind it
          freep_p,     \* the word where the next search begins
          owner,       \* data of vol_mem_ctrl.mutex
          waiting,     \* its wait queue
          lent         \* history: blocks the callers own, headers included

volVars == <<mem_state, words, freep_p, owner, waiting, lent>>

top_p == app.words
Cleared == [size |-> 0, used |-> FALSE]
FreeBlk(size) == [size |-> size, used |-> FALSE]
UsedBlk(size) == [size |-> size, used |-> TRUE]

(* Requests are rounded up to words, and the header is added. *)
WordsFor(bytes) == (bytes + 3) \div 4 + 1

(* vol_mem_init: one free block.  What the words behind the region hold is *)
(* up to whoever got the next blocks of the buddy system.                  *)
VolInit ==
  /\ words = [a \in 0 .. (top_p + app.behind.size) |->
                CASE a = 0 -> FreeBlk(top_p) [] a = top_p -> app.behind [] OTHER -> Cleared]
  /\ freep_p = 0
  /\ owner = NoThread
  /\ waiting = {}
  /\ lent = {}

-----------------------------------------------------------------------------
(* vol_malloc and vol_free up to acoral_mutex_pend.  Without a region they *)
(* return at once.  A thread frees what it or another one was given, or,   *)
(* where the application makes that mistake, an address that is not used.  *)
VolMalloc(t) ==
  /\ \E bytes \in app.bytes :
       Begin(t, IF mem_state = 0 THEN Idle
                ELSE [op |-> "vpend", then |-> [op |-> "search", need |-> WordsFor(bytes)]])
  /\ UNCHANGED <<app, suspended, volVars>>

VolFree(t) ==
  /\ \/ \E b \in lent : /\ Begin(t, [op |-> "vpend", then |-> [op |-> "vfree", at |-> b.at]])
                        /\ lent' = lent \ {b}
     \/ \E a \in 0 .. (top_p - 1) : /\ app.vtwice /\ ~words[a].used
                                    /\ Begin(t, [op |-> "vpend", then |-> [op |-> "vfree", at |-> a]])
                                    /\ UNCHANGED lent
  /\ UNCHANGED <<app, suspended, mem_state, words, freep_p, owner, waiting>>

(* acoral_mutex_pend: the mutex is free, or the thread suspends itself.    *)
VolPend(t) ==
  /\ At(t, "vpend")
  /\ \/ /\ owner = NoThread
        /\ owner' = t
        /\ GoOn(t, call[t].then)
        /\ UNCHANGED <<suspended, waiting>>
     \/ /\ owner # NoThread
        /\ suspended' = suspended \cup {t}
        /\ waiting' = waiting \cup {t}
        /\ GoOn(t, [call[t] EXCEPT !.op = "vwake"])
        /\ UNCHANGED owner
  /\ UNCHANGED <<app, calls, mem_state, words, freep_p, lent>>

(* The readied waiter takes the mutex.  If somebody was faster pend fails, *)
(* the thread stays in the wait queue, and the allocator goes on.          *)
VolWake(t) ==
  /\ At(t, "vwake")
  /\ GoOn(t, call[t].then)
  /\ IF owner = NoThread
     THEN owner' = t /\ waiting' = waiting \ {t}
     ELSE UNCHANGED <<owner, waiting>>
  /\ UNCHANGED <<app, calls, suspended, mem_state, words, freep_p, lent>>

(* Mutant: the waiter is not readied. *)
VolPostSilent(t) ==
  /\ At(t, "vpost")
  /\ owner' = IF owner = t THEN NoThread ELSE owner
  /\ GoOn(t, Idle)
  /\ UNCHANGED <<app, calls, suspended, mem_state, words, freep_p, waiting, lent>>

(* acoral_mutex_post: only by the owner; readies the most urgent waiter.   *)
VolPost(t) ==
  /\ At(t, "vpost")
  /\ IF owner = t
     THEN /\ owner' = NoThread
          /\ suspended' = suspended \ {u \in waiting : \A v \in waiting : app.prio[u] <= app.prio[v]}
     ELSE UNCHANGED <<owner, suspended>>
  /\ GoOn(t, Idle)
  /\ UNCHANGED <<app, calls, mem_state, words, freep_p, waiting, lent>>

-----------------------------------------------------------------------------
NoFit == -1
BadSize == -2

(* A search loop of vol_r_malloc: the first free block of at least need    *)
(* words in [from, to).  A header of size 0 ends the search.               *)
Fit(from, to, need) ==
  LET F[a \in Nat] ==
        IF a >= to THEN NoFit
        ELSE IF words[a].size = 0 THEN BadSize
        ELSE IF words[a].used \/ words[a].size < need THEN F[a + words[a].size]
        ELSE a
  IN F[from]

(* Mutant: the search does not go round. *)
SearchOnce(need) == Fit(freep_p, top_p, need)

(* vol_r_malloc: from freep_p to the top, then from the bottom to freep_p. *)
Search(need) ==
  LET high == Fit(freep_p, top_p, need)
  IN IF high = NoFit THEN Fit(0, freep_p, need) ELSE high

VolSearch(t) ==
  /\ At(t, "search")
  /\ LET need == call[t].need
         at == Search(need)
     IN GoOn(t, IF at < 0 THEN [op |-> "vpost"]
                ELSE [op |-> "take", at |-> at, need |-> need, b_size |-> words[at].size])
  /\ UNCHANGED <<app, calls, suspended, volVars>>

(* The block found is cut to size; the rest becomes a free block. *)
VolTake(t) ==
  /\ At(t, "take")
  /\ LET at == call[t].at
         need == call[t].need
         rest == call[t].b_size - need
         used == [words EXCEPT ![at] = UsedBlk(need)]
     IN /\ words' = IF rest > 0 THEN [used EXCEPT ![at + need] = FreeBlk(rest)] ELSE used
        /\ freep_p' = at + need
        /\ lent' = lent \cup {[at |-> at, size |-> need, by |-> t]}
  /\ GoOn(t, [op |-> "vpost"])
  /\ UNCHANGED <<app, calls, suspended, mem_state, owner, waiting>>

-----------------------------------------------------------------------------
(* The walk of vol_free to the block that ends at p, or -1. *)
Previous(w, p) ==
  LET F[a \in Nat] ==
        IF w[a].size = 0 THEN -1 ELSE IF a + w[a].size >= p THEN a ELSE F[a + w[a].size]
  IN F[0]

(* Mutant: a used successor is swallowed as well. *)
MergeNextAlways(w, p) ==
  LET next == p + w[p].size
  IN [w EXCEPT ![next] = Cleared, ![p] = FreeBlk(@.size + w[next].size)]

(* The block at p becomes free and swallows a free successor ... *)
MergeNext(w, p) ==
  LET next == p + w[p].size
  IN IF w[next].used THEN [w EXCEPT ![p] = FreeBlk(@.size)]
     ELSE [w EXCEPT ![next] = Cleared, ![p] = FreeBlk(@.size + w[next].size)]

(* Mutant: freep_p stays in the middle of the merged block. *)
MergePreviousBehind(w, p) ==
  LET prev == Previous(w, p)
  IN IF p = 0 \/ prev < 0 \/ w[prev].used THEN [words |-> w, freep_p |-> p]
     ELSE [words |-> [w EXCEPT ![p] = Cleared, ![prev] = FreeBlk(@.size + w[p].size)], freep_p |-> p]

(* ... and a free predecessor swallows it. *)
MergePrevious(w, p) ==
  LET prev == Previous(w, p)
  IN IF p = 0 \/ prev < 0 \/ w[prev].used THEN [words |-> w, freep_p |-> p]
     ELSE [words |-> [w EXCEPT ![p] = Cleared, ![prev] = FreeBlk(@.size + w[p].size)], freep_p |-> prev]

(* vol_free under the mutex.  An address that is no used block ends the    *)
(* call with the mutex held; a successor of size 0 ends it with nothing    *)
(* done.                                                                   *)
VolFreeBlock(t) ==
  /\ At(t, "vfree")
  /\ LET p == call[t].at
         next == p + words[p].size
         freed == MergePrevious(MergeNext(words, p), p)
     IN \/ /\ ~words[p].used
           /\ GoOn(t, Idle)
           /\ UNCHANGED <<words, freep_p>>
        \/ /\ words[p].used /\ words[next] = Cleared
           /\ GoOn(t, [op |-> "vpost"])
           /\ UNCHANGED <<words, freep_p>>
        \/ /\ words[p].used /\ words[next] # Cleared
           /\ words' = freed.words
           /\ freep_p' = freed.freep_p
           /\ GoOn(t, [op |-> "vpost"])
  /\ UNCHANGED <<app, calls, suspended, mem_state, owner, waiting, lent>>

VolStep(t) ==
  VolPend(t) \/ VolWake(t) \/ VolPost(t) \/ VolSearch(t) \/ VolTake(t) \/ VolFreeBlock(t)

=============================================================================
