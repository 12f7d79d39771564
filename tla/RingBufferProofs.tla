-------------------------- MODULE RingBufferProofs --------------------------
(* For every buffer size and every byte set: the ring stays well formed,   *)
(* put_more's result is truthful, and the ring implements the queue of     *)
(* OverwriteFifo.                                                          *)
EXTENDS RingBuffer, SequenceTheorems, TLAPS

(* Advancing an index by one stays inside the buffer and wraps only at its *)
(* last slot.                                                              *)
LEMMA MoveForwardValue ==
  ASSUME NEW i \in Indices
  PROVE  /\ MoveForward(i) = IF i = BufferSize - 1 THEN 0 ELSE i + 1
         /\ MoveForward(i) \in Indices
  BY BufferSizeAssumption DEF MoveForward, Indices

(* The masked difference of two indices without the mask. *)
LEMMA Difference ==
  ASSUME NEW h \in Indices, NEW t \in Indices
  PROVE  /\ (h + BufferSize - t) % BufferSize =
              IF h >= t THEN h - t ELSE h + BufferSize - t
         /\ (h + BufferSize - t) % BufferSize \in 0 .. BufferSize - 1
  BY BufferSizeAssumption DEF Indices

(* A put adds one byte or, on a full ring, keeps the number of bytes. *)
LEMMA PutCount ==
  ASSUME TypeOK, NEW d \in Bytes, DoPut(d)
  PROVE  /\ tail_index' \in Indices /\ head_index' \in Indices
         /\ p_buffer' \in [Indices -> Bytes] /\ ret' \in Results
         /\ Count \in 0 .. BufferSize - 1
         /\ Count' = IF is_full THEN Count ELSE Count + 1
         /\ ret' = IF is_full THEN "ERROR" ELSE "OK"
<1>1. tail_index \in Indices /\ head_index \in Indices /\ 0 \in Indices
  BY BufferSizeAssumption DEF TypeOK, Indices
<1>2. /\ MoveForward(tail_index) = IF tail_index = BufferSize - 1 THEN 0 ELSE tail_index + 1
      /\ MoveForward(tail_index) \in Indices
      /\ MoveForward(head_index) = IF head_index = BufferSize - 1 THEN 0 ELSE head_index + 1
      /\ MoveForward(head_index) \in Indices
  BY <1>1, MoveForwardValue
<1>3. tail_index' \in Indices /\ head_index' \in Indices
  BY <1>1, <1>2 DEF DoPut
<1>4. Count' = IF is_full THEN Count ELSE Count + 1
  <2>1. Count = IF head_index >= tail_index THEN head_index - tail_index
                ELSE head_index + BufferSize - tail_index
    BY <1>1, Difference DEF Count
  <2>2. Count' = IF head_index' >= tail_index' THEN head_index' - tail_index'
                 ELSE head_index' + BufferSize - tail_index'
    BY <1>3, Difference DEF Count
  <2>3. CASE is_full
    <3>1. tail_index' = MoveForward(tail_index) /\ head_index' = MoveForward(head_index)
      BY <2>3 DEF DoPut
    <3> QED BY <2>1, <2>2, <2>3, <3>1, <1>1, <1>2, BufferSizeAssumption DEF is_full, Indices
  <2>4. CASE ~is_full
    <3>1. tail_index' = tail_index /\ head_index' = MoveForward(head_index)
      BY <2>4 DEF DoPut
    <3> QED BY <2>1, <2>2, <2>4, <3>1, <1>1, <1>2, BufferSizeAssumption DEF is_full, Indices
  <2> QED BY <2>3, <2>4
<1>5. Count \in 0 .. BufferSize - 1
  BY <1>1, Difference DEF Count
<1> QED BY <1>3, <1>4, <1>5 DEF TypeOK, DoPut, Results

(* A get removes one byte unless the ring is empty. *)
LEMMA GetCount ==
  ASSUME TypeOK, DoGet
  PROVE  /\ tail_index' \in Indices /\ p_data' \in Bytes /\ ret' \in Results
         /\ Count \in 0 .. BufferSize - 1
         /\ Count' = IF is_empty THEN Count ELSE Count - 1
         /\ is_empty <=> Count = 0
<1>1. tail_index \in Indices /\ head_index \in Indices
  BY DEF TypeOK
<1>2. /\ MoveForward(tail_index) = IF tail_index = BufferSize - 1 THEN 0 ELSE tail_index + 1
      /\ MoveForward(tail_index) \in Indices
  BY <1>1, MoveForwardValue
<1>3. tail_index' \in Indices /\ head_index' = head_index
  BY <1>1, <1>2 DEF DoGet
<1>4. Count = IF head_index >= tail_index THEN head_index - tail_index
              ELSE head_index + BufferSize - tail_index
  BY <1>1, Difference DEF Count
<1>5. Count' = IF head_index >= tail_index' THEN head_index - tail_index'
               ELSE head_index + BufferSize - tail_index'
  BY <1>1, <1>3, Difference DEF Count
<1>6. is_empty <=> Count = 0
  BY <1>1, <1>4, BufferSizeAssumption DEF is_empty, Indices
<1>7. Count' = IF is_empty THEN Count ELSE Count - 1
  <2>1. CASE is_empty
    BY <2>1, <1>1, <1>3, <1>4, <1>5, BufferSizeAssumption DEF is_empty, DoGet, Indices
  <2>2. CASE ~is_empty
    <3>1. tail_index' = MoveForward(tail_index)
      BY <2>2 DEF DoGet
    <3> QED BY <2>2, <3>1, <1>1, <1>2, <1>4, <1>5, BufferSizeAssumption DEF is_empty, Indices
  <2> QED BY <2>1, <2>2
<1>8. Count \in 0 .. BufferSize - 1
  BY <1>1, Difference DEF Count
<1>9. p_data' \in Bytes /\ ret' \in Results
  BY <1>1 DEF TypeOK, DoGet, Results
<1> QED BY <1>3, <1>6, <1>7, <1>8, <1>9

(* What the loops keep: a call has moved at most one byte per iteration; a *)
(* put_more that has overwritten nothing has moved exactly one; a get_more *)
(* is short of one byte only after the get that found the ring empty, and  *)
(* that get ends the loop.                                                 *)
LoopInv ==
  /\ call.moved <= call.cnt
  /\ ~Idle => (call.cnt = 0 \/ call.cnt < call.size)
  /\ call.op = "put_more" =>
       /\ call.err = "OK" <=> call.moved = call.cnt
       /\ ~Idle => call.cnt < call.size
       /\ Idle => call.cnt = call.size
  /\ call.op = "get_more" =>
       /\ (call.cnt > 0 /\ call.err = "ERROR") => call.cnt = call.moved + 1
       /\ ~(call.cnt > 0 /\ call.err = "ERROR") => call.cnt = call.moved
       /\ (~Idle /\ call.cnt > 0) => call.err = "OK"
       /\ call.cnt <= call.size \/ call.cnt <= 1

IInv == TypeOK /\ LoopInv

(* Init establishes the invariant. *)
LEMMA InitInv == Init => IInv
  BY BufferSizeAssumption, MaxMoreAssumption
     DEF Init, IInv, TypeOK, LoopInv, Idle, NoCall, Calls, Results, Indices

(* Every step preserves it. *)
LEMMA StepInv == IInv /\ [Next]_vars => IInv'
<1> SUFFICES ASSUME IInv, [Next]_vars PROVE IInv'
  OBVIOUS
<1> USE MaxMoreAssumption
<1>0. TypeOK /\ LoopInv
  BY DEF IInv
<1>1. CASE cat_ringbuffer_clear
  BY <1>0, <1>1, BufferSizeAssumption
     DEF cat_ringbuffer_clear, ClearIndices, IInv, TypeOK, LoopInv, Idle, Indices
<1>2. CASE cat_ringbuffer_put
  <2>1. PICK d \in Bytes : DoPut(d)
    BY <1>2 DEF cat_ringbuffer_put
  <2> QED BY <1>0, <1>2, <2>1, PutCount DEF cat_ringbuffer_put, DoPut, IInv, TypeOK, LoopInv, Idle
<1>3. CASE cat_ringbuffer_get
  <2>1. DoGet
    BY <1>3 DEF cat_ringbuffer_get
  <2> QED BY <1>0, <1>3, <2>1, GetCount DEF cat_ringbuffer_get, DoGet, IInv, TypeOK, LoopInv, Idle
<1>4. CASE put_more_call
  <2>1. PICK n \in 0 .. MaxMore :
           call' = [op |-> "put_more", phase |-> IF n > 0 THEN "loop" ELSE "done", size |-> n, cnt |-> 0,
                    err |-> "OK", moved |-> 0]
    BY <1>4 DEF put_more_call
  <2>2. call' \in Calls
    BY <2>1 DEF Calls, Results
  <2>3. LoopInv'
    BY <2>1 DEF LoopInv, Idle
  <2> QED BY <1>0, <1>4, <2>2, <2>3 DEF put_more_call, ringVars, IInv, TypeOK
<1>5. CASE put_more_loop
  <2>1. PICK d \in Bytes : DoPut(d)
    BY <1>5 DEF put_more_loop
  <2>2. TypeOK' /\ LoopInv'
    <3>1. /\ tail_index' \in Indices /\ head_index' \in Indices
             /\ p_buffer' \in [Indices -> Bytes] /\ ret' \in Results /\ p_data' \in Bytes
      BY <1>0, <2>1, PutCount DEF DoPut, TypeOK
    <3>2. /\ Count' - Count = (IF is_full THEN 0 ELSE 1)
          /\ ret' = IF is_full THEN "ERROR" ELSE "OK"
      BY <1>0, <2>1, PutCount
    <3>3. call \in Calls /\ call.op = "put_more" /\ ~Idle
      BY <1>0, <1>5 DEF TypeOK, put_more_loop
    <3>4. PICK n \in {0, 1} : Count' - Count = n /\ (n = 1 <=> ret' = "OK")
      BY <3>2
    <3>5. call' = [op |-> "put_more", phase |-> IF call.cnt + 1 < call.size THEN "loop" ELSE "done",
                   size |-> call.size, cnt |-> call.cnt + 1,
                   err |-> IF ret' = "ERROR" THEN "ERROR" ELSE call.err,
                   moved |-> call.moved + n]
      BY <1>5, <3>4 DEF put_more_loop
    <3>6. /\ call.size \in 0 .. MaxMore /\ call.cnt \in Nat /\ call.moved \in Nat
          /\ call.moved <= call.cnt /\ call.cnt < call.size /\ call.err \in Results
          /\ call.err = "OK" <=> call.moved = call.cnt
      BY <1>0, <3>3 DEF LoopInv, Idle, Calls
    <3>7. call' \in Calls
      BY <3>5, <3>6, <3>1 DEF Calls, Results
    <3>8. LoopInv'
      BY <3>5, <3>6, <3>4, <3>1 DEF LoopInv, Idle, Results
    <3> QED BY <3>1, <3>7, <3>8 DEF TypeOK
  <2> QED BY <2>2 DEF IInv
<1>6. CASE get_more_call
  BY <1>0, <1>6 DEF get_more_call, ringVars, IInv, TypeOK, LoopInv, Idle, Calls, Results
<1>7. CASE get_more_loop
  <2>1. DoGet
    BY <1>7 DEF get_more_loop
  <2>2. /\ tail_index' \in Indices /\ head_index' \in Indices
        /\ p_buffer' \in [Indices -> Bytes] /\ ret' \in Results /\ p_data' \in Bytes
    BY <1>0, <2>1, GetCount DEF DoGet, TypeOK
  <2>3. /\ Count - Count' = (IF is_empty THEN 0 ELSE 1)
        /\ ret' = IF is_empty THEN "ERROR" ELSE "OK"
    BY <1>0, <2>1, GetCount DEF DoGet
  <2>4. call \in Calls /\ call.op = "get_more" /\ ~Idle
    BY <1>0, <1>7 DEF TypeOK, get_more_loop
  <2>5. PICK n \in {0, 1} : Count - Count' = n /\ (n = 1 <=> ret' = "OK")
    BY <2>3
  <2>6. call' = [op |-> "get_more", phase |-> IF call.cnt + 1 < call.size /\ ret' = "OK" THEN "loop" ELSE "done",
                 size |-> call.size, cnt |-> call.cnt + 1, err |-> ret',
                 moved |-> call.moved + n]
    BY <1>7, <2>5 DEF get_more_loop
  <2>7. /\ call.size \in 0 .. MaxMore /\ call.cnt \in Nat /\ call.moved \in Nat
        /\ call.moved <= call.cnt /\ (call.cnt = 0 \/ call.cnt < call.size)
        /\ call.cnt = call.moved
    BY <1>0, <2>4 DEF LoopInv, Idle, Calls
  <2>8. call' \in Calls
    BY <2>6, <2>7, <2>2 DEF Calls
  <2>9. LoopInv'
    BY <2>2, <2>5, <2>6, <2>7 DEF LoopInv, Idle, Results
  <2> QED BY <2>2, <2>8, <2>9 DEF IInv, TypeOK
<1>8. CASE UNCHANGED vars
  BY <1>0, <1>8 DEF vars, IInv, TypeOK, LoopInv, Idle
<1> QED BY <1>1, <1>2, <1>3, <1>4, <1>5, <1>6, <1>7, <1>8 DEF Next

(* Type correctness, for every buffer size. *)
THEOREM TypeCorrect == Spec => []TypeOK
<1>1. Spec => []IInv
  BY InitInv, StepInv, PTL DEF Spec
<1> QED BY <1>1, PTL DEF IInv

(* put_more's result tells the caller whether a byte was pushed out. *)
THEOREM PutMoreTruthful == Spec => []PutMoreReportsLoss
<1>1. Spec => []IInv
  BY InitInv, StepInv, PTL DEF Spec
<1>2. IInv => PutMoreReportsLoss
  BY DEF IInv, TypeOK, LoopInv, PutMoreReportsLoss, Idle, Calls
<1> QED BY <1>1, <1>2, PTL

(* The header's promise that get_more returns the bytes it took is missed  *)
(* by at most one, and only when the loop ran into the empty ring; it      *)
(* takes no more than asked for, but one for none.  For every size.        *)
THEOREM GetMoreCounts == Spec => []GetMoreResult
<1>1. Spec => []IInv
  BY InitInv, StepInv, PTL DEF Spec
<1>2. IInv => GetMoreResult
  <2> SUFFICES ASSUME IInv, call.op = "get_more", Idle PROVE GetMoreResult
    BY DEF GetMoreResult
  <2>1. call.cnt \in Nat /\ call.size \in Nat /\ call.moved \in Nat
    BY MaxMoreAssumption DEF IInv, TypeOK, Calls
  <2>2. call.cnt <= call.size \/ call.cnt = 0 \/ call.cnt = 1
    BY <2>1 DEF IInv, LoopInv
  <2> QED BY <2>1, <2>2 DEF IInv, LoopInv, GetMoreResult
<1> QED BY <1>1, <1>2, PTL

-----------------------------------------------------------------------------
(* The slot of the i-th oldest byte without the modulus. *)
LEMMA SlotValue ==
  ASSUME NEW t \in Indices, NEW i \in 1 .. BufferSize
  PROVE  /\ (t + i - 1) % BufferSize = IF t + i - 1 < BufferSize THEN t + i - 1
                                       ELSE t + i - 1 - BufferSize
         /\ (t + i - 1) % BufferSize \in Indices
  BY BufferSizeAssumption DEF Indices

(* The n bytes from slot t on form a sequence of length n. *)
LEMMA HeldSeq ==
  ASSUME NEW b \in [Indices -> Bytes], NEW t \in Indices, NEW n \in 0 .. BufferSize - 1
  PROVE  /\ Held(b, t, n) \in Seq(Bytes)
         /\ Len(Held(b, t, n)) = n
         /\ \A i \in 1 .. n : Held(b, t, n)[i] = b[(t + i - 1) % BufferSize]
<1>1. n \in Nat /\ n <= BufferSize
  BY BufferSizeAssumption
<1>2. \A i \in 1 .. n : (t + i - 1) % BufferSize \in Indices
  BY <1>1, SlotValue, BufferSizeAssumption
<1>3. \A i \in 1 .. n : b[(t + i - 1) % BufferSize] \in Bytes
  BY <1>2
<1>4. Held(b, t, n) \in [1 .. n -> Bytes]
  BY <1>3 DEF Held
<1> QED BY <1>1, <1>4 DEF Held

(* Storing d in the slot after the n bytes held appends it to them. *)
LEMMA HeldAppend ==
  ASSUME NEW b \in [Indices -> Bytes], NEW t \in Indices,
         NEW n \in 0 .. BufferSize - 2, NEW d \in Bytes, NEW h \in Indices,
         h = (t + n) % BufferSize
  PROVE  Held([b EXCEPT ![h] = d], t, n + 1) = Append(Held(b, t, n), d)
<1> DEFINE b2 == [b EXCEPT ![h] = d]
           old == Held(b, t, n)
           new == Held(b2, t, n + 1)
<1>1. n \in 0 .. BufferSize - 1 /\ n + 1 \in 0 .. BufferSize - 1 /\ n \in Nat
  BY BufferSizeAssumption
<1>2. b2 \in [Indices -> Bytes]
  OBVIOUS
<1>3. /\ old \in Seq(Bytes) /\ Len(old) = n
      /\ \A i \in 1 .. n : old[i] = b[(t + i - 1) % BufferSize]
  BY <1>1, HeldSeq
<1>4. /\ new \in Seq(Bytes) /\ Len(new) = n + 1
      /\ \A i \in 1 .. n + 1 : new[i] = b2[(t + i - 1) % BufferSize]
  <2> HIDE DEF b2
  <2>1. PICK m \in 0 .. BufferSize - 1 : m = n + 1
    BY <1>1
  <2>2. /\ Held(b2, t, m) \in Seq(Bytes) /\ Len(Held(b2, t, m)) = m
        /\ \A i \in 1 .. m : Held(b2, t, m)[i] = b2[(t + i - 1) % BufferSize]
    BY <1>2, HeldSeq
  <2> QED BY <2>1, <2>2
<1>5. ASSUME NEW i \in 1 .. n
      PROVE  new[i] = old[i]
  <2>1. i \in 1 .. BufferSize /\ n + 1 \in 1 .. BufferSize
    BY <1>1, BufferSizeAssumption
  <2>2. /\ (t + i - 1) % BufferSize = IF t + i - 1 < BufferSize THEN t + i - 1
                                      ELSE t + i - 1 - BufferSize
        /\ (t + i - 1) % BufferSize \in Indices
    BY <2>1, SlotValue
  <2>3. (t + (n + 1) - 1) % BufferSize = IF t + (n + 1) - 1 < BufferSize THEN t + (n + 1) - 1
                                        ELSE t + (n + 1) - 1 - BufferSize
    BY <2>1, SlotValue
  <2>4. t + (n + 1) - 1 = t + n
    BY <1>1 DEF Indices
  <2>5. (t + i - 1) % BufferSize # h
    BY <2>2, <2>3, <2>4, <1>1, BufferSizeAssumption DEF Indices
  <2>6. i \in 1 .. n + 1
    BY <1>1
  <2> QED BY <1>3, <1>4, <2>2, <2>5, <2>6
<1>6. new[n + 1] = d
  <2>1. t + (n + 1) - 1 = t + n /\ n + 1 \in 1 .. n + 1
    BY <1>1 DEF Indices
  <2>2. new[n + 1] = b2[h]
    BY <1>4, <2>1
  <2> QED BY <2>2
<1>7. /\ Append(old, d) \in Seq(Bytes) /\ Len(Append(old, d)) = n + 1
      /\ \A i \in 1 .. n : Append(old, d)[i] = old[i]
      /\ Append(old, d)[n + 1] = d
  BY <1>1, <1>3, AppendProperties
<1> HIDE DEF new, old
<1>8. ASSUME NEW i \in 1 .. n + 1
      PROVE  new[i] = Append(old, d)[i]
  <2>1. CASE i = n + 1
    BY <2>1, <1>6, <1>7
  <2>2. CASE i # n + 1
    <3>1. i \in 1 .. n
      BY <2>2, <1>1
    <3> QED BY <3>1, <1>5, <1>7
  <2> QED BY <2>1, <2>2
<1>9. new = Append(old, d)
  BY <1>4, <1>7, <1>8, SeqEqual
<1> QED BY <1>9 DEF new, old

(* Advancing the tail drops the oldest byte. *)
LEMMA HeldTail ==
  ASSUME NEW b \in [Indices -> Bytes], NEW t \in Indices, NEW n \in 1 .. BufferSize - 1
  PROVE  /\ Held(b, MoveForward(t), n - 1) = Tail(Held(b, t, n))
         /\ Head(Held(b, t, n)) = b[t]
         /\ Held(b, t, n) # << >>
<1> DEFINE old == Held(b, t, n)
           new == Held(b, MoveForward(t), n - 1)
<1>1. n \in 0 .. BufferSize - 1 /\ n - 1 \in 0 .. BufferSize - 1 /\ n \in Nat
  BY BufferSizeAssumption
<1>2. MoveForward(t) \in Indices /\ MoveForward(t) = IF t = BufferSize - 1 THEN 0 ELSE t + 1
  BY MoveForwardValue
<1>3. /\ old \in Seq(Bytes) /\ Len(old) = n
      /\ \A i \in 1 .. n : old[i] = b[(t + i - 1) % BufferSize]
  BY <1>1, HeldSeq
<1>4. /\ new \in Seq(Bytes) /\ Len(new) = n - 1
      /\ \A i \in 1 .. n - 1 : new[i] = b[(MoveForward(t) + i - 1) % BufferSize]
  BY <1>1, <1>2, HeldSeq
<1>5. ASSUME NEW i \in 1 .. n - 1
      PROVE  new[i] = old[i + 1]
  <2>1. i \in 1 .. BufferSize /\ i + 1 \in 1 .. BufferSize /\ i + 1 \in 1 .. n
    BY <1>1, BufferSizeAssumption
  <2>2. (t + (i + 1) - 1) % BufferSize = IF t + (i + 1) - 1 < BufferSize THEN t + (i + 1) - 1
                                        ELSE t + (i + 1) - 1 - BufferSize
    BY <2>1, SlotValue
  <2>3. (MoveForward(t) + i - 1) % BufferSize =
           IF MoveForward(t) + i - 1 < BufferSize THEN MoveForward(t) + i - 1
           ELSE MoveForward(t) + i - 1 - BufferSize
    BY <1>2, <2>1, SlotValue
  <2>4. (MoveForward(t) + i - 1) % BufferSize = (t + (i + 1) - 1) % BufferSize
    BY <2>2, <2>3, <1>2, <1>1, BufferSizeAssumption DEF Indices
  <2> QED BY <1>3, <1>4, <2>1, <2>4
<1>6. (t + 1 - 1) % BufferSize = t
  <2>1. 1 \in 1 .. BufferSize
    BY BufferSizeAssumption
  <2>2. (t + 1 - 1) % BufferSize = IF t + 1 - 1 < BufferSize THEN t + 1 - 1
                                  ELSE t + 1 - 1 - BufferSize
    BY <2>1, SlotValue
  <2> QED BY <2>2, BufferSizeAssumption DEF Indices
<1>7. old # << >> /\ Head(old) = old[1] /\ old[1] = b[t]
  BY <1>1, <1>3, <1>6
<1> HIDE DEF new, old
<1>8. /\ Tail(old) \in Seq(Bytes) /\ Len(Tail(old)) = n - 1
      /\ \A i \in 1 .. n - 1 : Tail(old)[i] = old[i + 1]
  BY <1>3, <1>7, HeadTailProperties
<1>9. new = Tail(old)
  BY <1>4, <1>5, <1>8, SeqEqual
<1> QED BY <1>7, <1>9 DEF new, old

(* One put of the ring is one put of the queue. *)
LEMMA PutImplements ==
  ASSUME TypeOK, NEW d \in Bytes, DoPut(d)
  PROVE  Fifo!Put(d)
<1> DEFINE t == tail_index
           h == head_index
           n == Count
<1>1. /\ t \in Indices /\ h \in Indices /\ p_buffer \in [Indices -> Bytes]
      /\ n \in 0 .. BufferSize - 1 /\ n \in Nat
  BY PutCount, BufferSizeAssumption DEF TypeOK
<1>2. /\ p_buffer' = [p_buffer EXCEPT ![h] = d] /\ p_data' = p_data
      /\ tail_index' = IF is_full THEN MoveForward(t) ELSE t
      /\ Count' = IF is_full THEN n ELSE n + 1
      /\ ret' = IF is_full THEN "ERROR" ELSE "OK"
  BY PutCount DEF DoPut
<1>3. Len(Contents) = n
  BY <1>1, HeldSeq DEF Contents
<1>4. h = (t + n) % BufferSize
  <2>1. n = IF h >= t THEN h - t ELSE h + BufferSize - t
    BY <1>1, Difference DEF Count
  <2>2. n + 1 \in 1 .. BufferSize
    BY <1>1, BufferSizeAssumption
  <2>3. (t + (n + 1) - 1) % BufferSize = IF t + (n + 1) - 1 < BufferSize THEN t + (n + 1) - 1
                                        ELSE t + (n + 1) - 1 - BufferSize
    BY <1>1, <2>2, SlotValue
  <2>4. t + (n + 1) - 1 = t + n
    BY <1>1 DEF Indices
  <2> QED BY <1>1, <2>1, <2>3, <2>4, BufferSizeAssumption DEF Indices
<1> HIDE DEF n
<1>5. CASE ~is_full
  <2>1. n \in 0 .. BufferSize - 2
    BY <1>1, <1>5, BufferSizeAssumption DEF is_full, n
  <2>2. Contents' = Held([p_buffer EXCEPT ![h] = d], t, n + 1)
    BY <1>2, <1>5 DEF Contents
  <2>3. Contents' = Append(Contents, d)
    <3>1. h \in Indices /\ t \in Indices /\ p_buffer \in [Indices -> Bytes]
      BY <1>1
    <3>2. Held([p_buffer EXCEPT ![h] = d], t, n + 1) = Append(Held(p_buffer, t, n), d)
      BY <1>4, <2>1, <3>1, HeldAppend, Zenon
    <3> QED BY <2>2, <3>2 DEF Contents, n
  <2> QED BY <1>2, <1>3, <1>5, <2>1, <2>3, BufferSizeAssumption DEF Fifo!Put
<1>6. CASE is_full /\ BufferSize = 1
  <2>1. n = 0 /\ Count' = 0
    BY <1>1, <1>2, <1>6 DEF n
  <2>2. Contents' = << >>
    BY <2>1 DEF Contents, Held
  <2> QED BY <1>2, <1>3, <1>6, <2>1, <2>2 DEF Fifo!Put
<1>7. CASE is_full /\ BufferSize # 1
  <2>1. n = BufferSize - 1 /\ n \in 1 .. BufferSize - 1 /\ n - 1 \in 0 .. BufferSize - 2
    BY <1>1, <1>7, BufferSizeAssumption DEF is_full, n
  <2>2. MoveForward(t) \in Indices /\ MoveForward(t) = IF t = BufferSize - 1 THEN 0 ELSE t + 1
    BY <1>1, MoveForwardValue
  <2>3. h = (MoveForward(t) + (n - 1)) % BufferSize
    <3>1. n \in 1 .. BufferSize /\ n + 1 \in 1 .. BufferSize
      BY <2>1, BufferSizeAssumption
    <3>2. (MoveForward(t) + n - 1) % BufferSize =
             IF MoveForward(t) + n - 1 < BufferSize THEN MoveForward(t) + n - 1
             ELSE MoveForward(t) + n - 1 - BufferSize
      BY <2>2, <3>1, SlotValue
    <3>3. (t + (n + 1) - 1) % BufferSize = IF t + (n + 1) - 1 < BufferSize THEN t + (n + 1) - 1
                                          ELSE t + (n + 1) - 1 - BufferSize
      BY <1>1, <3>1, SlotValue
    <3>4. t + (n + 1) - 1 = t + n /\ MoveForward(t) + n - 1 = MoveForward(t) + (n - 1)
      BY <1>1, <2>2 DEF Indices
    <3> QED BY <1>1, <1>4, <2>1, <2>2, <3>2, <3>3, <3>4, BufferSizeAssumption DEF Indices
  <2>4. Held([p_buffer EXCEPT ![h] = d], MoveForward(t), n) =
           Append(Held(p_buffer, MoveForward(t), n - 1), d)
    <3>1. PICK m \in 0 .. BufferSize - 2 : m = n - 1 /\ n = m + 1
      BY <1>1, <2>1
    <3>2. PICK u \in Indices : u = MoveForward(t)
      BY <2>2
    <3>3. h = (u + m) % BufferSize
      BY <2>3, <3>1, <3>2
    <3>4. Held([p_buffer EXCEPT ![h] = d], u, m + 1) = Append(Held(p_buffer, u, m), d)
      <4>1. h \in Indices /\ p_buffer \in [Indices -> Bytes]
        BY <1>1
      <4> QED BY <3>3, <4>1, HeldAppend, Zenon
    <3> QED BY <3>1, <3>2, <3>4
  <2>5. Contents' = Append(Tail(Contents), d)
    BY <1>1, <1>2, <1>7, <2>1, <2>4, HeldTail DEF Contents, n
  <2> QED BY <1>2, <1>3, <1>7, <2>1, <2>5, BufferSizeAssumption DEF Fifo!Put
<1> QED BY <1>5, <1>6, <1>7

(* One get of the ring is one get of the queue. *)
LEMMA GetImplements ==
  ASSUME TypeOK, DoGet
  PROVE  Fifo!Get
<1>1. /\ tail_index \in Indices /\ p_buffer \in [Indices -> Bytes]
      /\ Count \in 0 .. BufferSize - 1 /\ (is_empty <=> Count = 0)
  BY GetCount DEF TypeOK
<1>2. CASE is_empty
  <2>1. Contents = << >>
    BY <1>1, <1>2 DEF Contents, Held
  <2>2. UNCHANGED <<p_buffer, tail_index, head_index, p_data>> /\ ret' = "ERROR"
    BY <1>2 DEF DoGet
  <2>3. Contents' = Contents
    BY <2>2 DEF Contents, Count
  <2> QED BY <2>1, <2>2, <2>3 DEF Fifo!Get
<1>3. CASE ~is_empty
  <2>1. Count \in 1 .. BufferSize - 1
    BY <1>1, <1>3, BufferSizeAssumption
  <2>2. /\ p_data' = p_buffer[tail_index] /\ ret' = "OK" /\ p_buffer' = p_buffer
        /\ tail_index' = MoveForward(tail_index)
    BY <1>3 DEF DoGet
  <2>3. Count' = Count - 1
    BY <1>3, GetCount
  <2>4. Contents' = Tail(Contents) /\ Head(Contents) = p_buffer[tail_index] /\ Contents # << >>
    BY <1>1, <2>1, <2>2, <2>3, HeldTail DEF Contents
  <2> QED BY <2>2, <2>4 DEF Fifo!Get
<1> QED BY <1>2, <1>3

(* The ring buffer implements the queue that drops its oldest byte, for    *)
(* every buffer size: each step of the code is a step of the queue or      *)
(* leaves it alone.                                                        *)
THEOREM RingImplementsFifo == Spec => ImplementsFifo
<1>1. Init => Fifo!FifoInit
  <2> SUFFICES ASSUME Init PROVE Fifo!FifoInit
    OBVIOUS
  <2>1. TypeOK /\ tail_index = 0 /\ head_index = 0
    BY InitInv DEF IInv, Init
  <2>2. Count = 0
    BY <2>1, Difference DEF TypeOK, Count
  <2>3. Contents = << >>
    BY <2>2 DEF Contents, Held
  <2> QED BY <2>3 DEF Init, Fifo!FifoInit
<1>2. IInv /\ [Next]_vars => [Fifo!FifoNext]_Fifo!fifoVars
  <2> SUFFICES ASSUME IInv, [Next]_vars PROVE [Fifo!FifoNext]_Fifo!fifoVars
    OBVIOUS
  <2>0. TypeOK
    BY DEF IInv
  <2>1. CASE cat_ringbuffer_clear
    <3>1. tail_index' = 0 /\ head_index' = 0 /\ UNCHANGED <<ret, p_data>>
      BY <2>1 DEF cat_ringbuffer_clear, ClearIndices
    <3>2. Count' = 0
      <4>1. 0 \in Indices
        BY BufferSizeAssumption DEF Indices
      <4> QED BY <3>1, <4>1, Difference DEF Count
    <3>3. Contents' = << >>
      BY <3>2 DEF Contents, Held
    <3> QED BY <3>1, <3>3 DEF Fifo!Clear, Fifo!FifoNext
  <2>2. CASE cat_ringbuffer_put
    BY <2>0, <2>2, PutImplements DEF cat_ringbuffer_put, Fifo!FifoNext
  <2>3. CASE cat_ringbuffer_get
    BY <2>0, <2>3, GetImplements DEF cat_ringbuffer_get, Fifo!FifoNext
  <2>4. CASE put_more_loop
    BY <2>0, <2>4, PutImplements DEF put_more_loop, Fifo!FifoNext
  <2>5. CASE get_more_loop
    BY <2>0, <2>5, GetImplements DEF get_more_loop, Fifo!FifoNext
  <2>6. CASE put_more_call \/ get_more_call \/ UNCHANGED vars
    <3>1. UNCHANGED <<p_buffer, tail_index, head_index, ret, p_data>>
      BY <2>6 DEF put_more_call, get_more_call, ringVars, vars
    <3> QED BY <3>1 DEF Fifo!fifoVars, Contents, Count
  <2> QED BY <2>1, <2>2, <2>3, <2>4, <2>5, <2>6 DEF Next
<1>3. Spec => []IInv
  BY InitInv, StepInv, PTL DEF Spec
<1> QED BY <1>1, <1>2, <1>3, PTL DEF Spec, ImplementsFifo, Fifo!FifoSpec
=============================================================================
