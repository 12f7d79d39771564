------------------------------- MODULE Buddy -------------------------------
(* The buddy system of kernel/src/mem.c.  Memory is a row of basic blocks  *)
(* 0 .. blocks-1; a block of level l is 2^l of them.  Below the top level  *)
(* a bitmap has one bit per pair of neighbours, set when exactly one of    *)
(* the two is free; at the top level one bit per block.  Words of a bitmap *)
(* that have a bit set are chained from free_cur through free_list.  The   *)
(* mark of a pair of basic blocks is the level its even block was          *)
(* allocated at, or -1.                                                    *)
EXTENDS MemBase, FiniteSetsExt

CONSTANT NumWrap       \* free_num is unsigned and wraps here, at 2^32 in the code

VARIABLES ctrl,        \* acoral_mem_ctrl and acoral_mem_blocks
          memLock,     \* acoral_mem_ctrl->lock: its holder
          given,       \* history: blocks the callers own
          last         \* history: the block each thread has freed last

buddyVars == <<ctrl, memLock, given, last>>

ASSUME BuddyAssumption == NumWrap \in Nat \ {0}

Levels == 0 .. (app.levels - 1)
Top == app.levels - 1
WordBits == app.bits      \* bits of a bitmap word, 32 in the code
Words == 0 .. (app.blocks \div WordBits)
Free == -1        \* the mark of an even block that is not allocated
NoWord == -1      \* the end of a chain of words
Err == -254       \* KR_MEM_ERR_UNDEF

(* The bit of basic block num in the bitmap of a level. *)
BitOf(num, l) == IF l = Top THEN num \div 2^l ELSE num \div 2^(l + 1)
WordOf(bit) == bit \div WordBits
BitsIn(bits, w) == {b \in bits : WordOf(b) = w}

(* acoral_ffs: the lowest bit of a word; the highest one for an empty word. *)
Ffs(bits, w) ==
  IF BitsIn(bits, w) = {} THEN WordBits - 1 ELSE Min(BitsIn(bits, w)) - w * WordBits

-----------------------------------------------------------------------------
(* buddy_init: whole top blocks first, then one block per level that the   *)
(* remainder has a bit for.  Only the marks of these are set, the others   *)
(* hold whatever was in memory.                                            *)
InitialCtrl(junk) ==
  LET n == app.blocks
      rest == n % 2^Top
      fullWords == n \div (2^Top * WordBits)
      Has(l) == (rest \div 2^l) % 2 = 1
      Start(l) == (n \div 2^(l + 1)) * 2^(l + 1)
  IN [bitmap |-> [l \in Levels |-> IF l = Top THEN 0 .. (n \div 2^Top - 1)
                                   ELSE IF Has(l) THEN {BitOf(Start(l), l)} ELSE {}],
      free_list |-> [l \in Levels |-> [w \in Words |->
                       IF l = Top /\ w < fullWords /\ (w + 1 < fullWords \/ n % (2^Top * WordBits) # 0)
                       THEN w + 1 ELSE NoWord]],
      free_cur |-> [l \in Levels |-> IF l = Top THEN IF n > 0 THEN 0 ELSE NoWord
                                     ELSE IF Has(l) THEN WordOf(BitOf(Start(l), l)) ELSE NoWord],
      free_num |-> n,
      mark |-> [p \in 0 .. (n \div 2) |->
                  IF \E l \in Levels \ {Top} : Has(l) /\ Start(l) \div 2 = p THEN Free ELSE junk]]

-----------------------------------------------------------------------------
(* Mutant: the mark of the even block is not looked at. *)
TakeAtEven(c, l) ==
  LET cur == c.free_cur[l]
      bit == cur * WordBits + Ffs(c.bitmap[l], cur)
      bits == c.bitmap[l] \ {bit}
  IN [c |-> [c EXCEPT !.bitmap[l] = bits,
                      !.free_cur[l] = IF BitsIn(bits, cur) = {} THEN c.free_list[l][cur] ELSE @],
      num |-> IF l = Top THEN IF bit * 2^l + 2^l > app.blocks THEN Err ELSE bit * 2^l
              ELSE bit * 2^(l + 1)]

(* recus_malloc takes a free block of the lowest level l that has one ...  *)
TakeAt(c, l) ==
  LET cur == c.free_cur[l]
      bit == cur * WordBits + Ffs(c.bitmap[l], cur)
      bits == c.bitmap[l] \ {bit}
      even == bit * 2^(l + 1)
  IN [c |-> [c EXCEPT !.bitmap[l] = bits,
                      !.free_cur[l] = IF BitsIn(bits, cur) = {} THEN c.free_list[l][cur] ELSE @],
      num |-> IF l = Top THEN IF bit * 2^l + 2^l > app.blocks THEN Err ELSE bit * 2^l
              ELSE IF c.mark[even \div 2] >= 0 THEN even + 2^l ELSE even]

(* ... and on the way back splits it, leaving one half free per level.     *)
Split(c, num, low, high) ==
  LET Halved(l) == low <= l /\ l < high
      w(l) == WordOf(BitOf(num, l))
  IN [c EXCEPT !.bitmap = [l \in Levels |-> IF Halved(l) THEN @[l] \cup {BitOf(num, l)} ELSE @[l]],
               !.free_list = [l \in Levels |-> IF Halved(l) THEN [@[l] EXCEPT ![w(l)] = NoWord] ELSE @[l]],
               !.free_cur = [l \in Levels |-> IF Halved(l) THEN w(l) ELSE @[l]]]

recus_malloc(c, level) ==
  LET usable == {l \in Levels : l >= level /\ c.free_cur[l] >= 0}
      high == Min(usable)
      took == TakeAt(c, high)
  IN IF usable = {} THEN [c |-> c, num |-> Err]
     ELSE IF took.num = Err THEN took
     ELSE [c |-> Split(took.c, took.num, level, high), num |-> took.num]

(* What buddy_r_malloc does under its lock.  The mark is written for an    *)
(* even block number.                                                      *)
buddy_r_malloc(c, level) ==
  LET got == recus_malloc(c, level)
      num == got.num
      taken == [got.c EXCEPT !.free_num = (@ - 2^level) % NumWrap]
  IN [c |-> IF num # Err /\ num % 2 = 0 THEN [taken EXCEPT !.mark[num \div 2] = level] ELSE taken,
      num |-> num]

Refused(c, level) == 2^level > c.free_num \/ level >= app.levels

(* acoral_mem_sys_init: vol_mem_init takes its region (of app.region's     *)
(* level) from the fresh buddy system with buddy_malloc, before any thread *)
(* runs.  Then the applications start.                                     *)
BuddyInit(region) ==
  /\ \E junk \in app.junk :
       LET fresh == InitialCtrl(junk)
           got == buddy_r_malloc(fresh, app.region)
       IN IF Refused(fresh, app.region)
          THEN ctrl = fresh /\ region = Err
          ELSE ctrl = got.c /\ region = got.num
  /\ memLock = NoThread
  /\ given = {}
  /\ last = [t \in Threads |-> Err]

(* buddy_malloc up to buddy_r_malloc: free_num is read without the lock.   *)
(* A request that is too large gets NULL.                                  *)
Malloc(t) ==
  /\ \E level \in app.sizes :
       Begin(t, IF Refused(ctrl, level) THEN Idle
                ELSE [op |-> "malloc", level |-> level])
  /\ UNCHANGED <<app, suspended, buddyVars>>

(* buddy_r_malloc.  If there was no block the error code is made into an   *)
(* address all the same (and, being even, into a mark: what that           *)
(* overwrites is not modelled).                                            *)
RMalloc(t) ==
  /\ At(t, "malloc") /\ memLock = NoThread
  /\ \E level \in {call[t].level} : \E got \in {buddy_r_malloc(ctrl, level)} :
        /\ ctrl' = got.c
        /\ given' = given \cup {[at |-> got.num, size |-> 2^level, by |-> t]}
  /\ GoOn(t, Idle)
  /\ UNCHANGED <<app, calls, suspended, memLock, last>>

-----------------------------------------------------------------------------
(* The word search of buddy_free before an insertion: the last word of the *)
(* chain before cur.                                                       *)
Before(c, l, cur) ==
  LET next == c.free_list[l]
      F[w \in Words] == IF next[w] # NoWord /\ next[w] < cur THEN F[next[w]] ELSE w
  IN F[c.free_cur[l]]

(* One of two neighbours becomes free: its bit is set and its word put     *)
(* into the chain.                                                         *)
Insert(c, l, bit) ==
  LET cur == WordOf(bit)
      set == [c EXCEPT !.bitmap[l] = @ \cup {bit}]
      at == Before(c, l, cur)
  IN IF c.free_cur[l] < 0 \/ cur < c.free_cur[l]
     THEN [set EXCEPT !.free_list[l][cur] = c.free_cur[l], !.free_cur[l] = cur]
     ELSE IF cur = c.free_cur[l] THEN set
     ELSE [set EXCEPT !.free_list[l] = [[@ EXCEPT ![cur] = c.free_list[l][at]] EXCEPT ![at] = cur]]

(* The search before a removal, and the removal: the head of the chain     *)
(* moves when the word it ends at has no bit left.                         *)
Remove(c, l, bit) ==
  LET cur == WordOf(bit)
      bits == c.bitmap[l] \ {bit}
      next == c.free_list[l]
      Stop[w \in Words] == IF w = cur THEN w ELSE IF next[next[w]] = cur THEN next[w] ELSE Stop[next[w]]
  IN [c EXCEPT !.bitmap[l] = bits,
               !.free_cur[l] = IF BitsIn(bits, Stop[@]) = {} THEN next[cur] ELSE @]

(* The loop of buddy_free: the block merges with its free neighbour level  *)
(* by level, up to the first level where the neighbour is in use.          *)
MergeUp(c, num, level) ==
  LET busy == {l \in Levels : l >= level /\ BitOf(num, l) \notin c.bitmap[l]}
      stop == IF busy = {} THEN app.levels ELSE Min(busy)
      F[l \in level .. app.levels] ==      \* the control block before level l is dealt with
        IF l = level THEN c ELSE Remove(F[l - 1], l - 1, BitOf(num, l - 1))
  IN IF stop = app.levels THEN F[stop] ELSE Insert(F[stop], stop, BitOf(num, stop))

(* The checks of buddy_free: the level of the block, or Err.               *)
LevelOf(c, num) ==
  LET mark == c.mark[num \div 2]
      half == num \div 2 \in c.bitmap[0]
  IN IF num % 2 = 0 THEN IF mark < 0 THEN Err ELSE mark
     ELSE IF mark > 0 \/ (mark = 0 /\ half) \/ (mark < 0 /\ ~half) THEN Err ELSE 0

(* Only the free of an even block adds to free_num. *)
Unmark(c, num, level) ==
  IF num % 2 = 1 THEN c
  ELSE [c EXCEPT !.free_num = (@ + 2^level) % NumWrap, !.mark[num \div 2] = Free]

(* buddy_free of a block the thread owns, or, where the application makes  *)
(* that mistake, of the one it has freed last.                             *)
FreeCall(t) ==
  /\ \/ \E b \in given : /\ app.frees
                         /\ Begin(t, [op |-> "free", num |-> b.at])
                         /\ given' = given \ {b}
                         /\ last' = [last EXCEPT ![t] = b.at]
     \/ /\ app.twice /\ last[t] # Err
        /\ \A b \in given : b.at # last[t]
        /\ Begin(t, [op |-> "free", num |-> last[t]])
        /\ UNCHANGED <<given, last>>
  /\ UNCHANGED <<app, suspended, ctrl, memLock>>

(* A free that fails a check, or of a top block, gives up the lock before  *)
(* the critical section ends.                                              *)
FreeBlock(t) ==
  /\ At(t, "free") /\ memLock = NoThread
  /\ LET num == call[t].num IN
     \E level \in {LevelOf(ctrl, num)} :
     \E c \in {IF level = Err THEN ctrl ELSE Unmark(ctrl, num, level)} :
        \/ /\ level = Err
           /\ GoOn(t, Idle)
           /\ UNCHANGED <<ctrl, memLock>>
        \/ /\ level = Top
           /\ ctrl' = [c EXCEPT !.bitmap[level] = @ \cup {BitOf(num, level)}]
           /\ GoOn(t, Idle)
           /\ UNCHANGED memLock
        \/ /\ level \notin {Err, Top}
           /\ ctrl' = MergeUp(c, num, level)
           /\ memLock' = t
           /\ GoOn(t, [op |-> "unlock"])
  /\ UNCHANGED <<app, calls, suspended, given, last>>

(* Otherwise interrupts are open again before the lock is given up. *)
FreeUnlock(t) ==
  /\ At(t, "unlock")
  /\ memLock' = NoThread
  /\ GoOn(t, Idle)
  /\ UNCHANGED <<app, calls, suspended, ctrl, given, last>>

BuddyStep(t) == RMalloc(t) \/ FreeBlock(t) \/ FreeUnlock(t)

=============================================================================
