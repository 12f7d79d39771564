----------------------------- MODULE TcpClient -----------------------------
(* The TCP client of bsp/zynq7020/applications: lwip's callbacks, run by   *)
(* the loop thread (CPU 1, priority 4), put received bytes into a ring     *)
(* buffer (kernel/src/ringbuffer.c) that the application thread (CPU 0,    *)
(* priority 3) empties with lwip_client_read.  No lock guards the ring:    *)
(* each load and store of an index is a step here.  lwip itself is         *)
(* external: it connects, delivers packets and reports the remote close.   *)
(* The n-th byte put into the ring is the number n.                        *)
EXTENDS Integers, Sequences

CONSTANTS TcpApps,     \* where the two threads run: records, see below
          BufferSize,  \* RCV_RB_SIZE
          CopySize,    \* the size of the callback's own buffer
          Packets,     \* received packets: the lengths of a chain of pbufs
          Reads,       \* the lengths asked for
          MaxBytes     \* bound: packets arrive until so many bytes were stored,
                       \* and reads are made until so many were taken

(* sameCpu: both threads share a CPU, so that the reader, more urgent,     *)
(* runs between two steps of the callback but not the other way round.     *)
(* ordered: the stores of one CPU reach the other in their order, which    *)
(* ARM does not promise without the barriers that the code has not.  The   *)
(* first pbuf fits into the buffer it is copied through: the code does not *)
(* test that, and what a longer one overwrites is not modelled.            *)
ASSUME TcpAppsAssumption ==
  /\ TcpApps \subseteq [sameCpu : BOOLEAN, ordered : BOOLEAN]
  /\ \A app \in TcpApps : app.sameCpu => app.ordered
ASSUME TcpSizesAssumption ==
  /\ BufferSize \in Nat \ {0} /\ \E k \in 0 .. BufferSize : BufferSize = 2^k
  /\ Packets \subseteq Seq(Nat \ {0})
  /\ \A p \in Packets : p # << >> /\ p[1] <= CopySize
  /\ Reads \subseteq Nat /\ MaxBytes \in Nat

VARIABLES app,
          is_connected_to_server,
          receiving,   \* client_recv_callback is the pcb's receive callback
          refused,     \* the last put_more has failed: lwip gets ERR_MEM for the packet
          dropped,     \* history: part of a packet was never put
          p_buffer, tail_index, head_index,
          late,        \* stores to p_buffer that the other CPU does not see yet
          recv,        \* the callback: place, bytes to put, tail_index as loaded
          read,        \* lwip_client_read: place, len, wrote, result, tail, byte
          stored,      \* history: the bytes put
          taken,       \* history: the bytes got, in their order
          reported     \* history: a put has returned CAT_ERROR

ringVars == <<p_buffer, tail_index, head_index, late>>
lwip == <<refused, dropped>>
vars == <<app, is_connected_to_server, receiving, lwip, ringVars, recv, read, stored, taken, reported>>

Indices == 0 .. BufferSize - 1
CAT_EOK == 0
CAT_ERROR == -1          \* 2^32 - 1 in the acoral_u32 that receives it: no len either

-----------------------------------------------------------------------------
MoveForward(index) == (index + 1) % BufferSize

(* How many bytes lie between two indices. *)
Between(tail, head) == (head + BufferSize - tail) % BufferSize

(* Mutant: the ring is taken to be full one byte late. *)
IsFullLate(tail, head) == Between(tail, head) = BufferSize

(* cat_ringbuffer_is_full and cat_ringbuffer_is_empty on loaded indices. *)
IsFull(tail, head) == Between(tail, head) = BufferSize - 1
IsEmpty(tail, head) == tail = head

NotReading ==
  [pc |-> "idle", len |-> 0, wrote |-> 0, result |-> CAT_EOK, tail |-> 0, byte |-> 0]

Init ==
  /\ app \in TcpApps
  /\ is_connected_to_server = FALSE /\ receiving = FALSE
  /\ refused = FALSE /\ dropped = FALSE
  /\ p_buffer = [i \in Indices |-> 0] /\ tail_index = 0 /\ head_index = 0 /\ late = << >>
  /\ recv = [pc |-> "idle", todo |-> 0, tail |-> 0]
  /\ read = NotReading
  /\ stored = 0 /\ taken = << >> /\ reported = FALSE

(* The loop thread runs: the more urgent reader is on the other CPU or     *)
(* asleep between two reads.                                               *)
LoopRuns == app.sameCpu => read.pc = "idle"

(* tcp_connect_callback *)
Connect ==
  /\ LoopRuns /\ ~is_connected_to_server
  /\ is_connected_to_server' = TRUE /\ receiving' = TRUE
  /\ UNCHANGED <<app, lwip, ringVars, recv, read, stored, taken, reported>>

(* client_recv_callback with p = NULL: the server has closed. *)
RemoteClose ==
  /\ LoopRuns /\ recv.pc = "idle" /\ receiving /\ ~refused
  /\ receiving' = FALSE
  /\ UNCHANGED <<app, is_connected_to_server, lwip, ringVars, recv, read, stored, taken, reported>>

(* client_recv_callback with a packet: cat_ringbuffer_put_more of its      *)
(* first pbuf.  pbuf_free then frees the whole chain.                      *)
Callback(p) ==
  /\ LoopRuns /\ recv.pc = "idle" /\ receiving /\ stored < MaxBytes
  /\ recv' = [recv EXCEPT !.pc = "test", !.todo = p[1]]
  /\ dropped' = (dropped \/ Len(p) > 1)
  /\ refused' = FALSE
  /\ UNCHANGED <<app, is_connected_to_server, receiving, ringVars, read, stored, taken, reported>>

Receive == ~refused /\ \E p \in Packets : Callback(p)

(* After ERR_MEM lwip keeps the packet as refused_data and calls again     *)
(* before it delivers anything new; but the callback has freed it, and the *)
(* pbuf holds whatever packet has come into it since.                      *)
ReceiveRefused == refused /\ \E p \in Packets : Callback(p)

(* cat_ringbuffer_put: the test for a full ring. *)
PutTest ==
  /\ LoopRuns /\ recv.pc = "test"
  /\ recv' = [recv EXCEPT !.tail = tail_index,
                          !.pc = IF IsFull(tail_index, head_index) THEN "load" ELSE "write"]
  /\ reported' = (reported \/ IsFull(tail_index, head_index))
  /\ refused' = (refused \/ IsFull(tail_index, head_index))
  /\ UNCHANGED <<app, is_connected_to_server, receiving, dropped, ringVars, read, stored, taken>>

(* RINGBUFFER_INDEX_MOVE_FOWARD of the tail: load (or keep the value that  *)
(* the test loaded), then store.                                           *)
PutLoad ==
  /\ LoopRuns /\ recv.pc = "load"
  /\ \E t \in {recv.tail, tail_index} : recv' = [recv EXCEPT !.tail = t, !.pc = "move"]
  /\ UNCHANGED <<app, is_connected_to_server, receiving, lwip, ringVars, read, stored, taken, reported>>

PutMove ==
  /\ LoopRuns /\ recv.pc = "move"
  /\ tail_index' = MoveForward(recv.tail)
  /\ recv' = [recv EXCEPT !.pc = "write"]
  /\ UNCHANGED <<app, is_connected_to_server, receiving, lwip, p_buffer, head_index, late, read,
                 stored, taken, reported>>

(* The byte is stored; where stores are not ordered the reader may see it  *)
(* later than the new head_index.                                          *)
PutWrite ==
  /\ LoopRuns /\ recv.pc = "write"
  /\ \/ /\ app.ordered
        /\ p_buffer' = [p_buffer EXCEPT ![head_index] = stored + 1]
        /\ UNCHANGED late
     \/ /\ ~app.ordered
        /\ late' = Append(late, <<head_index, stored + 1>>)
        /\ UNCHANGED p_buffer
  /\ recv' = [recv EXCEPT !.pc = "head"]
  /\ UNCHANGED <<app, is_connected_to_server, receiving, lwip, tail_index, head_index, read,
                 stored, taken, reported>>

Visible ==
  /\ late # << >>
  /\ p_buffer' = [p_buffer EXCEPT ![Head(late)[1]] = Head(late)[2]]
  /\ late' = Tail(late)
  /\ UNCHANGED <<app, is_connected_to_server, receiving, lwip, tail_index, head_index, recv, read,
                 stored, taken, reported>>

(* The head moves, and put_more goes on with the next byte or returns. *)
PutHead ==
  /\ LoopRuns /\ recv.pc = "head"
  /\ head_index' = MoveForward(head_index)
  /\ stored' = stored + 1
  /\ recv' = [recv EXCEPT !.tail = 0, !.todo = @ - 1,
                          !.pc = IF recv.todo = 1 THEN "idle" ELSE "test"]
  /\ UNCHANGED <<app, is_connected_to_server, receiving, lwip, p_buffer, tail_index, late, read,
                 taken, reported>>

-----------------------------------------------------------------------------
(* The application calls lwip_client_read. *)
Read ==
  /\ read.pc = "idle" /\ is_connected_to_server /\ Len(taken) < MaxBytes
  /\ \E n \in Reads : read' = [read EXCEPT !.pc = "loop", !.len = n, !.wrote = 0]
  /\ UNCHANGED <<app, is_connected_to_server, receiving, lwip, ringVars, recv, stored, taken, reported>>

(* The loop's condition; the time may be up at any test. *)
ReadLoop ==
  /\ read.pc = "loop"
  /\ \/ read.wrote < read.len /\ read' = [read EXCEPT !.pc = "test"]
     \/ read' = [NotReading EXCEPT !.wrote = read.wrote]
  /\ UNCHANGED <<app, is_connected_to_server, receiving, lwip, ringVars, recv, stored, taken, reported>>

(* cat_ringbuffer_get: the test for an empty ring. *)
GetTest ==
  /\ read.pc = "test"
  /\ read' = IF IsEmpty(tail_index, head_index)
             THEN [read EXCEPT !.result = CAT_ERROR, !.pc = "check"]
             ELSE [read EXCEPT !.tail = tail_index, !.pc = "load"]
  /\ UNCHANGED <<app, is_connected_to_server, receiving, lwip, ringVars, recv, stored, taken, reported>>

(* The byte at tail_index, loaded anew or kept from the test. *)
GetLoad ==
  /\ read.pc = "load"
  /\ \E t \in {read.tail, tail_index} :
       read' = [read EXCEPT !.tail = t, !.byte = p_buffer[t], !.pc = "move"]
  /\ UNCHANGED <<app, is_connected_to_server, receiving, lwip, ringVars, recv, stored, taken, reported>>

(* The tail moves: the byte is taken. *)
GetMove ==
  /\ read.pc = "move"
  /\ \E t \in {read.tail, tail_index} : tail_index' = MoveForward(t)
  /\ taken' = Append(taken, read.byte)
  /\ read' = [read EXCEPT !.result = CAT_EOK, !.pc = "check"]
  /\ UNCHANGED <<app, is_connected_to_server, receiving, lwip, p_buffer, head_index, late, recv,
                 stored, reported>>

(* "if(result != len)": the result of one get is compared with the length  *)
(* of the whole read.                                                      *)
ReadCheck ==
  /\ read.pc = "check"
  /\ read' = IF read.result # read.len THEN [NotReading EXCEPT !.wrote = read.wrote]
             ELSE [read EXCEPT !.wrote = @ + 1, !.pc = "loop"]
  /\ UNCHANGED <<app, is_connected_to_server, receiving, lwip, ringVars, recv, stored, taken, reported>>

Next ==
  \/ Connect \/ RemoteClose \/ Receive \/ ReceiveRefused
  \/ PutTest \/ PutLoad \/ PutMove \/ PutWrite \/ Visible \/ PutHead
  \/ Read \/ ReadLoop \/ GetTest \/ GetLoad \/ GetMove \/ ReadCheck

Spec == Init /\ [][Next]_vars

-----------------------------------------------------------------------------
(* Bytes put are lost only if a put has said so: until the first CAT_ERROR *)
(* the ring holds exactly the bytes put and not yet taken, while the two   *)
(* threads step through put and get at the same time; and where stores     *)
(* keep their order the reader has got the stream from its beginning, and  *)
(* the rest of it lies in the ring.                                        *)
NothingLostUnreported ==
  ~reported =>
    /\ Len(taken) + Between(tail_index, head_index) = stored
    /\ app.ordered =>
         /\ \A i \in 1 .. Len(taken) : taken[i] = i
         /\ \A i \in 0 .. Between(tail_index, head_index) - 1 :
              p_buffer[(tail_index + i) % BufferSize] = Len(taken) + i + 1

-----------------------------------------------------------------------------
(* What the code does not keep: see the README.  No run checks these five. *)

(* Where stores may be seen in any order: no byte is read before it is in  *)
(* its slot.                                                               *)
NothingReadEarly == ~reported => \A i \in 1 .. Len(taken) : taken[i] = i

(* A full ring loses its oldest bytes (ringbuffer.c:66): what the reader   *)
(* gets keeps its order, and no byte comes twice.                          *)
OnlyOldestLost == \A i \in 1 .. Len(taken) - 1 : taken[i] < taken[i + 1]

(* Every byte of a packet is put: not those behind its first pbuf, of      *)
(* which tcp_recved does not tell lwip either.                             *)
WholePacketsPut == ~dropped

(* lwip_client_read returns how many bytes it took out. *)
ReadReturnsTaken ==
  [][(read.pc = "check" /\ read'.pc # "check" /\ read.result = CAT_EOK)
        => read'.wrote = read.wrote + 1]_vars

(* is_connected_to_server says that data can be received. *)
ConnectedMeansReceiving == is_connected_to_server => receiving
=============================================================================
