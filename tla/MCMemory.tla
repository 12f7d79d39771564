------------------------------ MODULE MCMemory ------------------------------
(* Applications of the allocators. *)
EXTENDS Memory, TLC

CONSTANTS t1, t2, t3

Only(n) == t1 :> n @@ t2 :> 0 @@ t3 :> 0
OddWord == UsedBlk(0)          \* the word behind the region looks like a used block

Base == [cpu |-> t1 :> 0 @@ t2 :> 1 @@ t3 :> 1, prio |-> t1 :> 1 @@ t2 :> 2 @@ t3 :> 3,
         calls |-> Only(7), blocks |-> 2, levels |-> 2, bits |-> 4, region |-> 1,
         sizes |-> {}, frees |-> FALSE, twice |-> FALSE, vtwice |-> FALSE, junk |-> {0},
         words |-> 8, bytes |-> {}, behind |-> OddWord]

(* Two CPUs allocate and free single blocks of memory that is never short. *)
Singles == [Base EXCEPT !.calls = t1 :> 3 @@ t2 :> 3 @@ t3 :> 0, !.blocks = 11, !.levels = 3, !.bits = 2,
                        !.sizes = {0}, !.frees = TRUE, !.junk = {-1, 0}]

(* One thread allocates pairs until memory is gone, and frees them, also twice. *)
TwoBlocks == [Base EXCEPT !.calls = Only(7), !.blocks = 7, !.levels = 4, !.region = 0,
                      !.sizes = {1}, !.frees = TRUE, !.twice = TRUE, !.junk = {-1, 0}]

(* Start-up: all sizes, nothing freed, several words per bitmap. *)
Boot == [Base EXCEPT !.blocks = 13, !.levels = 3, !.bits = 2, !.region = 1, !.sizes = {0, 1, 2, 3}]

(* Top blocks, of which one is always left. *)
TopBlocks == [Base EXCEPT !.calls = Only(4), !.blocks = 12, !.levels = 2, !.bits = 6, !.sizes = {1}, !.frees = TRUE]

(* No heap at all. *)
NoHeap == [Base EXCEPT !.blocks = 0, !.sizes = {0}, !.bytes = {4}]

(* Three threads of one CPU share the variable-size allocator. *)
OneCpu == [Base EXCEPT !.cpu = t1 :> 0 @@ t2 :> 0 @@ t3 :> 0, !.calls = t1 :> 1 @@ t2 :> 2 @@ t3 :> 3, !.bytes = {1, 8}]

(* One thread frees what is free; the word behind the region is 0. *)
Twice == [Base EXCEPT !.calls = Only(6), !.bytes = {4, 5}, !.vtwice = TRUE, !.behind = Cleared]

Sound == {Singles, TwoBlocks, Boot, TopBlocks, NoHeap, OneCpu, Twice}

(* Blocks of two sizes are freed and allocated. *)
Mixed == {[Base EXCEPT !.blocks = 6, !.levels = 3, !.sizes = {0, 1}, !.frees = TRUE]}

(* Two CPUs share the variable-size allocator. *)
TwoCpus == {[Base EXCEPT !.calls = t1 :> 3 @@ t2 :> 1 @@ t3 :> 0, !.bytes = {4}]}
=============================================================================
