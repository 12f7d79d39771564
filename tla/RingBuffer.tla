----------------------------- MODULE RingBuffer -----------------------------
(* kernel/src/ringbuffer.c and kernel/include/ringbuffer.h: a byte ring    *)
(* over a caller-supplied buffer whose size is a power of two.  One slot   *)
(* stays unused so that head = tail means empty; a put on a full ring      *)
(* overwrites the oldest byte.  This module is the ring as one thread uses *)
(* it: single operations are atomic, the loops of put_more and get_more    *)
(* take one iteration per step.                                            *)
EXTENDS Naturals, Sequences

CONSTANTS Bytes,       \* acoral_u8 values
          BufferSize,  \* buffer_size given to cat_ringbuffer_init
          MaxMore      \* bound: largest size passed to put_more and get_more

(* cat_ringbuffer_init asserts a power of two (that is what lets "& mask"  *)
(* stand for "mod size"); the check of a minimum size is commented out.    *)
ASSUME BufferSizeAssumption ==
  /\ BufferSize \in Nat \ {0}
  /\ \E k \in 0 .. BufferSize : BufferSize = 2^k
ASSUME BytesAssumption == Bytes # {}
ASSUME MaxMoreAssumption == MaxMore \in Nat

VARIABLES p_buffer,    \* [0 .. BufferSize-1 -> Bytes], the caller's memory
          tail_index,  \* oldest byte
          head_index,  \* next free slot
          ret,         \* result of the latest cat_ringbuffer_put or _get
          p_data,      \* the byte the latest successful get stored
          call         \* the loop in progress, or the latest one finished

vars == <<p_buffer, tail_index, head_index, ret, p_data, call>>
ringVars == <<p_buffer, tail_index, head_index>>

Indices == 0 .. BufferSize - 1
Results == {"OK", "ERROR"}    \* CAT_EOK, CAT_ERROR

(* The local variables of a loop: size is the argument, cnt the loop       *)
(* counter, err the accumulated result; moved, which only the properties   *)
(* read, is by how many bytes the call has made the ring grow or shrink.   *)
Calls == [op : {"none", "put_more", "get_more"}, phase : {"loop", "done"},
          size : 0 .. MaxMore, cnt : 0 .. MaxMore + 1, err : Results,
          moved : 0 .. MaxMore + 1]
NoCall == [op |-> "none", phase |-> "done", size |-> 0, cnt |-> 0,
           err |-> "OK", moved |-> 0]

-----------------------------------------------------------------------------
Idle == call.phase = "done"

(* Mutant: the index is not wrapped at the end of the buffer but one early. *)
MoveForwardEarly(index) == IF index + 2 >= BufferSize THEN 0 ELSE index + 1

(* RINGBUFFER_INDEX_MOVE_FOWARD *)
MoveForward(index) == (index + 1) % BufferSize

(* Unsigned subtraction followed by "& ring_mask". *)
Count == (head_index + BufferSize - tail_index) % BufferSize

is_full == Count = BufferSize - 1
is_empty == head_index = tail_index

Init ==
  /\ p_buffer \in [Indices -> Bytes]
  /\ tail_index = 0
  /\ head_index = 0
  /\ ret = "OK"
  /\ p_data \in Bytes
  /\ call = NoCall

ClearIndices ==
  /\ tail_index' = 0
  /\ head_index' = 0

(* The body of cat_ringbuffer_put. *)
DoPut(d) ==
  /\ tail_index' = IF is_full THEN MoveForward(tail_index) ELSE tail_index
  /\ p_buffer' = [p_buffer EXCEPT ![head_index] = d]
  /\ head_index' = MoveForward(head_index)
  /\ ret' = IF is_full THEN "ERROR" ELSE "OK"
  /\ UNCHANGED p_data

(* The body of cat_ringbuffer_get. *)
DoGet ==
  /\ \/ /\ ~is_empty
        /\ p_data' = p_buffer[tail_index]
        /\ tail_index' = MoveForward(tail_index)
        /\ ret' = "OK"
     \/ /\ is_empty
        /\ ret' = "ERROR"
        /\ UNCHANGED <<tail_index, p_data>>
  /\ UNCHANGED <<p_buffer, head_index>>

-----------------------------------------------------------------------------
cat_ringbuffer_clear ==
  /\ Idle
  /\ ClearIndices
  /\ UNCHANGED <<p_buffer, ret, p_data, call>>

cat_ringbuffer_put ==
  /\ Idle
  /\ \E d \in Bytes : DoPut(d)
  /\ UNCHANGED call

cat_ringbuffer_get ==
  /\ Idle
  /\ DoGet
  /\ UNCHANGED call

put_more_call ==
  /\ Idle
  /\ \E n \in 0 .. MaxMore :
       call' = [op |-> "put_more", phase |-> IF n > 0 THEN "loop" ELSE "done", size |-> n, cnt |-> 0,
                err |-> "OK", moved |-> 0]
  /\ UNCHANGED <<ringVars, ret, p_data>>

(* Mutant: only the last byte's result is reported. *)
PutMoreLastResult ==
  /\ ~Idle /\ call.op = "put_more"
  /\ \E d \in Bytes : DoPut(d)
  /\ call' = [call EXCEPT !.cnt = @ + 1,
                          !.phase = IF call.cnt + 1 < call.size THEN "loop" ELSE "done",
                          !.err = "OK",
                          !.moved = @ + (Count' - Count)]

(* One iteration of the for loop; the sum of the results is only compared  *)
(* with zero, so one overwriting put makes the whole call report an error. *)
put_more_loop ==
  /\ ~Idle /\ call.op = "put_more"
  /\ \E d \in Bytes : DoPut(d)
  /\ call' = [op |-> "put_more", phase |-> IF call.cnt + 1 < call.size THEN "loop" ELSE "done",
              size |-> call.size, cnt |-> call.cnt + 1,
              err |-> IF ret' = "ERROR" THEN "ERROR" ELSE call.err,
              moved |-> call.moved + (Count' - Count)]

get_more_call ==
  /\ Idle
  /\ \E n \in 0 .. MaxMore :
       call' = [op |-> "get_more", phase |-> IF ~is_empty THEN "loop" ELSE "done", size |-> n, cnt |-> 0,
                err |-> "ERROR", moved |-> 0]
  /\ UNCHANGED <<ringVars, ret, p_data>>

(* One iteration of the do-while loop: the get that finds the ring empty   *)
(* still increments cnt.                                                   *)
get_more_loop ==
  /\ ~Idle /\ call.op = "get_more"
  /\ DoGet
  /\ call' = [op |-> "get_more", phase |-> IF call.cnt + 1 < call.size /\ ret' = "OK" THEN "loop" ELSE "done",
              size |-> call.size, cnt |-> call.cnt + 1, err |-> ret',
              moved |-> call.moved + (Count - Count')]

Next ==
  \/ cat_ringbuffer_clear
  \/ cat_ringbuffer_put
  \/ cat_ringbuffer_get
  \/ put_more_call
  \/ put_more_loop
  \/ get_more_call
  \/ get_more_loop

(* A thread inside one of the loops keeps running it. *)
Spec == Init /\ [][Next]_vars /\ WF_vars(put_more_loop) /\ WF_vars(get_more_loop)

-----------------------------------------------------------------------------
TypeOK ==
  /\ p_buffer \in [Indices -> Bytes]
  /\ tail_index \in Indices
  /\ head_index \in Indices
  /\ ret \in Results
  /\ p_data \in Bytes
  /\ call \in Calls

(* The bytes held, oldest first: what cat_ringbuffer_print_all walks. *)
Held(buffer, tail, n) == [i \in 1 .. n |-> buffer[(tail + i - 1) % BufferSize]]
Contents == Held(p_buffer, tail_index, Count)

(* The ring implements a queue of BufferSize - 1 bytes that drops its      *)
(* oldest byte when it is full (ringbuffer.c, "if full, overwrite the      *)
(* earliest").                                                             *)
Fifo == INSTANCE OverwriteFifo WITH Capacity <- BufferSize - 1,
                                    fifo <- Contents, data <- p_data
ImplementsFifo == Fifo!FifoSpec

(* put_more reports success exactly when every byte it stored was added to *)
(* what the ring already held: any byte pushed out on the way shows in its *)
(* result, and nothing else does.                                          *)
PutMoreReportsLoss ==
  (call.op = "put_more" /\ Idle) => (call.err = "OK" <=> call.moved = call.size)

(* What ringbuffer.h:82 promises of get_more's result: the number of bytes *)
(* really taken out of the ring.                                           *)
GetMoreReturnsTaken ==
  (call.op = "get_more" /\ Idle) => call.cnt = call.moved

(* How far the code is from that promise (ringbuffer.c:137): the result is *)
(* one more when the loop has run into the empty ring, and a call for no   *)
(* byte takes one.                                                         *)
GetMoreResult ==
  (call.op = "get_more" /\ Idle) =>
     /\ call.cnt = call.moved + (IF call.cnt > 0 /\ call.err = "ERROR" THEN 1 ELSE 0)
     /\ call.cnt <= call.size \/ call.cnt = 1

=============================================================================
