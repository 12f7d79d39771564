--------------------------- MODULE OverwriteFifo ---------------------------
(* What the ring buffer of the kernel promises to its users: a bounded     *)
(* first-in first-out queue of bytes that, when it is full, makes room for *)
(* the new byte by dropping the oldest one and tells the writer so.        *)
EXTENDS Naturals, Sequences

CONSTANTS Bytes,      \* the values a byte of the buffer can take
          Capacity    \* how many bytes the queue can hold

VARIABLES fifo,       \* the bytes held, oldest first
          ret,        \* result of the latest single put or get
          data        \* the byte the latest successful get returned

fifoVars == <<fifo, ret, data>>

FifoInit == fifo = << >> /\ ret = "OK" /\ data \in Bytes

(* Accept d; a full queue drops its oldest byte and reports the loss. *)
Put(d) ==
  /\ \/ /\ Len(fifo) < Capacity
        /\ fifo' = Append(fifo, d)
        /\ ret' = "OK"
     \/ /\ Len(fifo) >= Capacity
        /\ fifo' = IF Capacity = 0 THEN << >> ELSE Append(Tail(fifo), d)
        /\ ret' = "ERROR"
  /\ UNCHANGED data

(* Hand out the oldest byte; an empty queue reports an error. *)
Get ==
  \/ /\ fifo # << >>
     /\ data' = Head(fifo)
     /\ fifo' = Tail(fifo)
     /\ ret' = "OK"
  \/ /\ fifo = << >>
     /\ ret' = "ERROR"
     /\ UNCHANGED <<fifo, data>>

Clear == fifo' = << >> /\ UNCHANGED <<ret, data>>

FifoNext == (\E d \in Bytes : Put(d)) \/ Get \/ Clear

FifoSpec == FifoInit /\ [][FifoNext]_fifoVars
=============================================================================
