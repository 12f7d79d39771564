-------------------------- MODULE TcpClientProofs --------------------------
(* For every size of the receive buffer and every mix of packets and       *)
(* reads: the ring shared without a lock by lwip's callback and the reader *)
(* loses nothing before a put has returned CAT_ERROR.                      *)
EXTENDS TcpClient, SequenceTheorems, TLAPS

PutPlaces == {"idle", "test", "write", "head"}
GetPlaces == {"idle", "loop", "test", "load", "move", "check"}
Puts == [pc : PutPlaces, todo : Int, tail : Indices]
Gets == [pc : GetPlaces, len : Nat, wrote : Nat, result : {CAT_EOK, CAT_ERROR},
         tail : Indices, byte : Nat]

(* The state's shape until a put finds the ring full: the places "load"    *)
(* and "move" of the put, which move the reader's index, are not reached.  *)
Shape ==
  /\ tail_index \in Indices /\ head_index \in Indices
  /\ p_buffer \in [Indices -> Nat] /\ late \in Seq(Indices \X Nat)
  /\ recv \in Puts /\ read \in Gets
  /\ stored \in Nat /\ taken \in Seq(Nat)

(* The indices count the bytes.  A put past its test still has a free      *)
(* slot, a get past its test still has a byte, whatever the other thread   *)
(* has done since; and the index the get has loaded is still the tail.     *)
IndicesCount ==
  /\ Len(taken) + Between(tail_index, head_index) = stored
  /\ recv.pc \in {"write", "head"} => ~IsFull(tail_index, head_index)
  /\ read.pc \in {"load", "move"} => ~IsEmpty(tail_index, head_index) /\ read.tail = tail_index

(* Where stores keep their order, the slots hold the stream.  A byte is in *)
(* its slot before the head passes it, and a byte loaded is the next one.  *)
SlotsHoldStream ==
  app.ordered =>
    /\ late = << >>
    /\ \A i \in 1 .. Len(taken) : taken[i] = i
    /\ \A i \in 0 .. Between(tail_index, head_index) - 1 :
         p_buffer[(tail_index + i) % BufferSize] = Len(taken) + i + 1
    /\ recv.pc = "head" => p_buffer[head_index] = stored + 1
    /\ read.pc = "move" => read.byte = Len(taken) + 1

IInv == ~reported => Shape /\ IndicesCount /\ SlotsHoldStream

-----------------------------------------------------------------------------
(* Advancing an index by one stays inside the buffer. *)
LEMMA MoveForwardValue ==
  ASSUME NEW i \in Indices
  PROVE  /\ MoveForward(i) = IF i = BufferSize - 1 THEN 0 ELSE i + 1
         /\ MoveForward(i) \in Indices
  BY TcpSizesAssumption DEF MoveForward, Indices

(* The number of bytes between two indices without the mask. *)
LEMMA BetweenValue ==
  ASSUME NEW t \in Indices, NEW h \in Indices
  PROVE  /\ Between(t, h) = IF h >= t THEN h - t ELSE h + BufferSize - t
         /\ Between(t, h) \in Indices
         /\ Between(t, h) = 0 <=> t = h
  BY TcpSizesAssumption DEF Between, Indices

(* The slot i bytes after an index without the mask. *)
LEMMA SlotValue ==
  ASSUME NEW t \in Indices, NEW i \in 0 .. BufferSize
  PROVE  /\ (t + i) % BufferSize = IF t + i < BufferSize THEN t + i ELSE t + i - BufferSize
         /\ (t + i) % BufferSize \in Indices
  BY TcpSizesAssumption DEF Indices

(* The head moves on a ring that is not full: one byte more, and its slot  *)
(* is none of those in use.                                                *)
LEMMA HeadMoves ==
  ASSUME NEW t \in Indices, NEW h \in Indices, ~IsFull(t, h)
  PROVE  /\ Between(t, MoveForward(h)) = Between(t, h) + 1
         /\ (t + Between(t, h)) % BufferSize = h
         /\ \A i \in 0 .. Between(t, h) - 1 : (t + i) % BufferSize # h
<1> DEFINE n == Between(t, h)
<1>1. /\ n = IF h >= t THEN h - t ELSE h + BufferSize - t
      /\ n \in Indices /\ n # BufferSize - 1
  BY BetweenValue DEF IsFull
<1>2. MoveForward(h) \in Indices /\ MoveForward(h) = IF h = BufferSize - 1 THEN 0 ELSE h + 1
  BY MoveForwardValue
<1>3. Between(t, MoveForward(h)) = IF MoveForward(h) >= t THEN MoveForward(h) - t
                                  ELSE MoveForward(h) + BufferSize - t
  BY <1>2, BetweenValue
<1> HIDE DEF n
<1>4. Between(t, MoveForward(h)) = n + 1
  BY <1>1, <1>2, <1>3, TcpSizesAssumption DEF Indices
<1>5. n \in 0 .. BufferSize
  BY <1>1, TcpSizesAssumption DEF Indices
<1>6. (t + n) % BufferSize = IF t + n < BufferSize THEN t + n ELSE t + n - BufferSize
  BY <1>5, SlotValue
<1>7. (t + n) % BufferSize = h
  BY <1>1, <1>6, TcpSizesAssumption DEF Indices
<1>8. ASSUME NEW i \in 0 .. n - 1
      PROVE  (t + i) % BufferSize # h
  <2>1. i \in 0 .. BufferSize
    BY <1>1, TcpSizesAssumption DEF Indices
  <2>2. (t + i) % BufferSize = IF t + i < BufferSize THEN t + i ELSE t + i - BufferSize
    BY <2>1, SlotValue
  <2> QED BY <1>1, <2>2, TcpSizesAssumption DEF Indices
<1> QED BY <1>4, <1>7, <1>8 DEF n

(* The tail moves on a ring that is not empty: one byte less, and the i-th *)
(* byte left is the next one of before.                                    *)
LEMMA TailMoves ==
  ASSUME NEW t \in Indices, NEW h \in Indices, t # h
  PROVE  /\ Between(MoveForward(t), h) = Between(t, h) - 1
         /\ \A i \in 0 .. Between(t, h) - 2 :
              (MoveForward(t) + i) % BufferSize = (t + (i + 1)) % BufferSize
         /\ t % BufferSize = t
<1> DEFINE n == Between(t, h)
<1>1. n = (IF h >= t THEN h - t ELSE h + BufferSize - t) /\ n \in Indices
  BY BetweenValue
<1>2. MoveForward(t) \in Indices /\ MoveForward(t) = IF t = BufferSize - 1 THEN 0 ELSE t + 1
  BY MoveForwardValue
<1>3. Between(MoveForward(t), h) = IF h >= MoveForward(t) THEN h - MoveForward(t)
                                  ELSE h + BufferSize - MoveForward(t)
  BY <1>2, BetweenValue
<1> HIDE DEF n
<1>4. Between(MoveForward(t), h) = n - 1
  BY <1>1, <1>2, <1>3, TcpSizesAssumption DEF Indices
<1>5. ASSUME NEW i \in 0 .. n - 2
      PROVE  (MoveForward(t) + i) % BufferSize = (t + (i + 1)) % BufferSize
  <2>1. i \in 0 .. BufferSize /\ i + 1 \in 0 .. BufferSize
    BY <1>1, TcpSizesAssumption DEF Indices
  <2>2. (MoveForward(t) + i) % BufferSize =
          IF MoveForward(t) + i < BufferSize THEN MoveForward(t) + i
          ELSE MoveForward(t) + i - BufferSize
    BY <2>1, <1>2, SlotValue
  <2>3. (t + (i + 1)) % BufferSize =
          IF t + (i + 1) < BufferSize THEN t + (i + 1) ELSE t + (i + 1) - BufferSize
    BY <2>1, SlotValue
  <2> QED BY <1>2, <2>1, <2>2, <2>3, TcpSizesAssumption DEF Indices
<1>6. t % BufferSize = t
  BY TcpSizesAssumption DEF Indices
<1> QED BY <1>4, <1>5, <1>6 DEF n

-----------------------------------------------------------------------------
(* Init establishes the invariant. *)
LEMMA InitInv == Init => IInv
<1> SUFFICES ASSUME Init PROVE Shape /\ IndicesCount /\ SlotsHoldStream
  BY DEF IInv
<1>1. 0 \in Indices /\ Between(0, 0) = 0
  <2>1. 0 \in Indices
    BY TcpSizesAssumption DEF Indices
  <2> QED BY <2>1, BetweenValue
<1>2. Shape
  BY <1>1 DEF Init, Shape, Puts, Gets, PutPlaces, GetPlaces, NotReading, CAT_EOK
<1>3. IndicesCount
  BY <1>1 DEF Init, IndicesCount, NotReading
<1>4. SlotsHoldStream
  BY <1>1 DEF Init, SlotsHoldStream, NotReading
<1> QED BY <1>2, <1>3, <1>4

(* Steps that move no byte and no index: the places are all that changes.  *)
LEMMA QuietKeeps ==
  ASSUME IInv, ~reported, UNCHANGED <<app, ringVars, stored, taken>>,
         recv' \in Puts,
         read' \in Gets,
         recv'.pc \in {"write", "head"} => ~IsFull(tail_index, head_index),
         recv'.pc = "head" => recv.pc = "head",
         read'.pc \in {"load", "move"} => ~IsEmpty(tail_index, head_index) /\ read'.tail = tail_index,
         (read'.pc = "move" /\ app.ordered) => read'.byte = Len(taken) + 1
  PROVE  IInv'
<1>0. Shape /\ IndicesCount /\ SlotsHoldStream
  BY DEF IInv
<1>1. Shape'
  BY <1>0 DEF Shape, ringVars
<1>2. IndicesCount'
  BY <1>0 DEF IndicesCount, ringVars
<1>3. SlotsHoldStream'
  BY <1>0 DEF SlotsHoldStream, ringVars
<1> QED BY <1>1, <1>2, <1>3 DEF IInv

(* The callback moves the head, after the byte. *)
LEMMA PutHeadKeeps ==
  ASSUME IInv, ~reported, PutHead
  PROVE  IInv'
<1> DEFINE t == tail_index
           h == head_index
           n == Between(t, h)
<1>0. Shape /\ IndicesCount /\ SlotsHoldStream /\ recv.pc = "head"
  BY DEF IInv, PutHead
<1>1. t \in Indices /\ h \in Indices /\ ~IsFull(t, h) /\ n \in Nat
  BY <1>0, BetweenValue DEF Shape, IndicesCount, Indices
<1>2. /\ MoveForward(h) \in Indices /\ Between(t, MoveForward(h)) = n + 1
      /\ (t + n) % BufferSize = h
  BY <1>1, HeadMoves, MoveForwardValue
<1>3. /\ tail_index' = t /\ head_index' = MoveForward(h) /\ stored' = stored + 1
      /\ UNCHANGED <<app, p_buffer, late, read, taken>>
      /\ recv' = [recv EXCEPT !.tail = 0, !.todo = @ - 1,
                              !.pc = IF recv.todo = 1 THEN "idle" ELSE "test"]
  BY DEF PutHead
<1>4. recv' \in Puts /\ recv'.pc \in {"idle", "test"}
  <2>1. 0 \in Indices
    BY TcpSizesAssumption DEF Indices
  <2>2. recv \in Puts /\ recv.todo - 1 \in Int
    BY <1>0 DEF Shape, Puts
  <2>3. PICK p \in {"idle", "test"} :
          recv' = [recv EXCEPT !.tail = 0, !.todo = recv.todo - 1, !.pc = p]
    BY <1>3, <2>2
  <2> QED BY <2>1, <2>2, <2>3 DEF Puts, PutPlaces
<1>5. Shape'
  BY <1>0, <1>2, <1>3, <1>4 DEF Shape
<1>6. Between(tail_index', head_index') = n + 1
  BY <1>2, <1>3
<1>7. IndicesCount'
  <2>1. Len(taken') + Between(tail_index', head_index') = stored'
    BY <1>0, <1>1, <1>3, <1>6 DEF IndicesCount, Shape
  <2>2. tail_index' # head_index'
    BY <1>1, <1>2, <1>3, <1>6, BetweenValue
  <2> QED BY <1>0, <1>3, <1>4, <2>1, <2>2 DEF IndicesCount, IsEmpty
<1>8. SlotsHoldStream'
  <2> SUFFICES ASSUME app.ordered PROVE SlotsHoldStream'
    BY <1>3 DEF SlotsHoldStream
  <2>1. ASSUME NEW i \in 0 .. n
        PROVE  p_buffer[(t + i) % BufferSize] = Len(taken) + i + 1
    <3>1. CASE i = n
      <4>1. p_buffer[h] = stored + 1 /\ Len(taken) + n = stored
        BY <1>0 DEF SlotsHoldStream, IndicesCount
      <4> QED BY <3>1, <4>1, <1>2
    <3>2. CASE i # n
      <4>1. i \in 0 .. n - 1
        BY <3>2, <1>1
      <4> QED BY <4>1, <1>0 DEF SlotsHoldStream
    <3> QED BY <3>1, <3>2
  <2>2. \A i \in 0 .. Between(tail_index', head_index') - 1 :
          p_buffer'[(tail_index' + i) % BufferSize] = Len(taken') + i + 1
    <3>1. 0 .. Between(tail_index', head_index') - 1 = 0 .. n
      BY <1>1, <1>6
    <3> QED BY <2>1, <3>1, <1>3
  <2> QED BY <1>0, <1>3, <1>4, <2>2 DEF SlotsHoldStream
<1> QED BY <1>5, <1>7, <1>8 DEF IInv

(* The reader moves the tail, after the load of the byte. *)
LEMMA GetMoveKeeps ==
  ASSUME IInv, ~reported, GetMove
  PROVE  IInv'
<1> DEFINE t == tail_index
           h == head_index
           n == Between(t, h)
<1>0. Shape /\ IndicesCount /\ SlotsHoldStream /\ read.pc = "move"
  BY DEF IInv, GetMove
<1>1. t \in Indices /\ h \in Indices /\ t # h /\ read.tail = t /\ n \in Nat /\ n # 0
  BY <1>0, BetweenValue DEF Shape, IndicesCount, IsEmpty, Indices
<1>2. /\ MoveForward(t) \in Indices /\ Between(MoveForward(t), h) = n - 1
      /\ n \in Indices
      /\ \A i \in 0 .. n - 2 : (MoveForward(t) + i) % BufferSize = (t + (i + 1)) % BufferSize
  BY <1>1, TailMoves, MoveForwardValue, BetweenValue
<1>3. /\ tail_index' = MoveForward(t) /\ head_index' = h
      /\ taken' = Append(taken, read.byte)
      /\ UNCHANGED <<app, p_buffer, late, recv, stored>>
      /\ read' = [read EXCEPT !.result = CAT_EOK, !.pc = "check"]
  BY <1>1 DEF GetMove
<1>4. /\ read' \in Gets
      /\ read'.pc = "check" /\ read.byte \in Nat
  BY <1>0, <1>3 DEF Shape, Gets, GetPlaces
<1>5. /\ taken' \in Seq(Nat) /\ Len(taken') = Len(taken) + 1 /\ Len(taken) \in Nat
      /\ \A i \in 1 .. Len(taken) : taken'[i] = taken[i]
      /\ taken'[Len(taken) + 1] = read.byte
  BY <1>0, <1>3, <1>4, AppendProperties DEF Shape
<1>6. Shape'
  BY <1>0, <1>2, <1>3, <1>4, <1>5 DEF Shape
<1>7. Between(tail_index', head_index') = n - 1
  BY <1>2, <1>3
<1>8. IndicesCount'
  <2>1. Len(taken') + Between(tail_index', head_index') = stored'
    BY <1>0, <1>1, <1>3, <1>5, <1>7 DEF IndicesCount, Shape
  <2>2. ~IsFull(tail_index', head_index')
    BY <1>2, <1>7, TcpSizesAssumption DEF IsFull, Indices
  <2> QED BY <1>0, <1>3, <1>4, <2>1, <2>2 DEF IndicesCount
<1>9. SlotsHoldStream'
  <2> SUFFICES ASSUME app.ordered PROVE SlotsHoldStream'
    BY <1>3 DEF SlotsHoldStream
  <2>1. ASSUME NEW i \in 1 .. Len(taken')
        PROVE  taken'[i] = i
    <3>1. CASE i = Len(taken) + 1
      BY <3>1, <1>0, <1>5 DEF SlotsHoldStream
    <3>2. CASE i # Len(taken) + 1
      <4>1. i \in 1 .. Len(taken)
        BY <3>2, <1>5
      <4> QED BY <4>1, <1>0, <1>5 DEF SlotsHoldStream
    <3> QED BY <3>1, <3>2
  <2>2. ASSUME NEW i \in 0 .. n - 2
        PROVE  p_buffer[(MoveForward(t) + i) % BufferSize] = Len(taken) + 1 + i + 1
    <3>1. PICK j \in 0 .. n - 1 : j = i + 1
      BY <1>1
    <3>2. p_buffer[(t + j) % BufferSize] = Len(taken) + j + 1
      BY <3>1, <1>0 DEF SlotsHoldStream
    <3>3. (MoveForward(t) + i) % BufferSize = (t + j) % BufferSize
      BY <1>2, <3>1
    <3> QED BY <3>1, <3>2, <3>3, <1>5
  <2>3. \A i \in 0 .. Between(tail_index', head_index') - 1 :
          p_buffer'[(tail_index' + i) % BufferSize] = Len(taken') + i + 1
    <3>1. (n - 1) - 1 = n - 2
      BY <1>1
    <3> QED BY <2>2, <3>1, <1>3, <1>5, <1>7
  <2>4. recv'.pc = "head" => p_buffer'[head_index'] = stored' + 1
    BY <1>0, <1>3 DEF SlotsHoldStream
  <2> QED BY <1>0, <1>3, <1>4, <2>1, <2>3, <2>4 DEF SlotsHoldStream
<1> QED BY <1>6, <1>8, <1>9 DEF IInv

(* The byte is written into a slot that no unread byte uses. *)
LEMMA PutWriteKeeps ==
  ASSUME IInv, ~reported, PutWrite
  PROVE  IInv'
<1> DEFINE t == tail_index
           h == head_index
           n == Between(t, h)
<1>0. Shape /\ IndicesCount /\ SlotsHoldStream /\ recv.pc = "write"
  BY DEF IInv, PutWrite
<1>1. /\ t \in Indices /\ h \in Indices /\ ~IsFull(t, h) /\ n \in Nat /\ n \in Indices
      /\ stored + 1 \in Nat
  BY <1>0, BetweenValue DEF Shape, IndicesCount, Indices
<1>2. \A i \in 0 .. n - 1 : (t + i) % BufferSize # h
  BY <1>1, HeadMoves
<1>3. UNCHANGED <<app, tail_index, head_index, read, stored, taken>>
  BY DEF PutWrite
<1>4. /\ recv' \in Puts
      /\ recv'.pc = "head"
  BY <1>0 DEF PutWrite, Shape, Puts, PutPlaces
<1>5. p_buffer' \in [Indices -> Nat] /\ late' \in Seq(Indices \X Nat)
  <2>1. CASE app.ordered
    BY <2>1, <1>0, <1>1 DEF PutWrite, Shape
  <2>2. CASE ~app.ordered
    <3>1. <<h, stored + 1>> \in Indices \X Nat
      BY <1>1
    <3>2. late' = Append(late, <<h, stored + 1>>) /\ p_buffer' = p_buffer
      BY <2>2 DEF PutWrite
    <3> QED BY <3>1, <3>2, <1>0, AppendProperties DEF Shape
  <2> QED BY <2>1, <2>2
<1>6. Shape'
  BY <1>0, <1>3, <1>4, <1>5 DEF Shape
<1>7. IndicesCount'
  BY <1>0, <1>1, <1>3, <1>4 DEF IndicesCount
<1>8. SlotsHoldStream'
  <2> SUFFICES ASSUME app.ordered PROVE SlotsHoldStream'
    BY <1>3 DEF SlotsHoldStream
  <2>1. p_buffer' = [p_buffer EXCEPT ![h] = stored + 1] /\ late' = late
    BY DEF PutWrite
  <2>2. p_buffer'[h] = stored + 1
    BY <2>1, <1>0, <1>1 DEF Shape
  <2>3. ASSUME NEW i \in 0 .. n - 1
        PROVE  p_buffer'[(t + i) % BufferSize] = Len(taken) + i + 1
    <3>1. (t + i) % BufferSize # h
      BY <1>2
    <3>2. (t + i) % BufferSize \in Indices
      <4>1. i \in 0 .. BufferSize
        BY <1>1, TcpSizesAssumption DEF Indices
      <4> QED BY <4>1, <1>1, SlotValue
    <3>3. p_buffer[(t + i) % BufferSize] = Len(taken) + i + 1
      BY <1>0 DEF SlotsHoldStream
    <3> QED BY <2>1, <3>1, <3>2, <3>3, <1>0 DEF Shape
  <2> QED BY <1>0, <1>3, <1>4, <2>1, <2>2, <2>3 DEF SlotsHoldStream
<1> QED BY <1>6, <1>7, <1>8 DEF IInv

(* Every step keeps the invariant. *)
LEMMA StepInv == IInv /\ [Next]_vars => IInv'
<1> SUFFICES ASSUME IInv, [Next]_vars, ~reported, ~reported' PROVE IInv'
  <2>1. ASSUME [Next]_vars, reported PROVE reported'
    BY <2>1 DEF Next, vars, Connect, RemoteClose, Receive, ReceiveRefused, Callback, PutTest, PutLoad, PutMove, PutWrite,
       Visible, PutHead, Read, ReadLoop, GetTest, GetLoad, GetMove, ReadCheck
  <2> QED BY <2>1 DEF IInv
<1>0. Shape /\ IndicesCount /\ SlotsHoldStream
  BY DEF IInv
<1>1. CASE Connect \/ RemoteClose \/ UNCHANGED vars
  <2>1. UNCHANGED <<app, ringVars, recv, read, stored, taken>>
    BY <1>1 DEF Connect, RemoteClose, vars
  <2>2. /\ recv'.pc \in {"write", "head"} => ~IsFull(tail_index, head_index)
        /\ read'.pc \in {"load", "move"} => ~IsEmpty(tail_index, head_index) /\ read'.tail = tail_index
    BY <1>0, <2>1 DEF IndicesCount
  <2>3. (read'.pc = "move" /\ app.ordered) => read'.byte = Len(taken) + 1
    BY <1>0, <2>1 DEF SlotsHoldStream
  <2> QED BY <1>0, <2>1, <2>2, <2>3, QuietKeeps DEF Shape
<1>2. CASE Receive \/ ReceiveRefused \/ PutTest
  <2>1. UNCHANGED <<app, ringVars, read, stored, taken>>
    BY <1>2 DEF Receive, ReceiveRefused, Callback, PutTest
  <2>2. /\ recv' \in Puts
        /\ recv'.pc \in {"test", "write"}
        /\ recv'.pc = "write" => ~IsFull(tail_index, head_index)
    <3>1. CASE Receive \/ ReceiveRefused
      <4>1. PICK p \in Packets : recv' = [recv EXCEPT !.pc = "test", !.todo = p[1]]
        BY <3>1 DEF Receive, ReceiveRefused, Callback
      <4>2. p \in Seq(Nat \ {0}) /\ p # << >>
        BY TcpSizesAssumption
      <4>3. p[1] \in Int /\ recv \in Puts
        BY <1>0, <4>2 DEF Shape
      <4> QED BY <4>1, <4>3 DEF Puts, PutPlaces
    <3>2. CASE PutTest
      BY <3>2, <1>0 DEF PutTest, Shape, Puts, PutPlaces
    <3> QED BY <1>2, <3>1, <3>2
  <2>3. /\ read'.pc \in {"load", "move"} => ~IsEmpty(tail_index, head_index) /\ read'.tail = tail_index
        /\ (read'.pc = "move" /\ app.ordered) => read'.byte = Len(taken) + 1
    BY <1>0, <2>1 DEF IndicesCount, SlotsHoldStream
  <2> QED BY <1>0, <2>1, <2>2, <2>3, QuietKeeps DEF Shape
<1>3. CASE PutLoad \/ PutMove
  BY <1>0, <1>3 DEF PutLoad, PutMove, Shape, Puts, PutPlaces
<1>4. CASE PutWrite
  BY <1>4, PutWriteKeeps
<1>5. CASE Visible
  <2> DEFINE e == Head(late)
  <2>1. /\ late # << >> /\ p_buffer' = [p_buffer EXCEPT ![e[1]] = e[2]] /\ late' = Tail(late)
        /\ UNCHANGED <<app, tail_index, head_index, recv, read, stored, taken>>
    BY <1>5 DEF Visible
  <2>2. ~app.ordered
    BY <1>0, <2>1 DEF SlotsHoldStream
  <2>3. e \in Indices \X Nat /\ late' \in Seq(Indices \X Nat)
    BY <1>0, <2>1 DEF Shape
  <2>4. p_buffer' \in [Indices -> Nat]
    BY <1>0, <2>1, <2>3 DEF Shape
  <2>5. Shape'
    BY <1>0, <2>1, <2>3, <2>4 DEF Shape
  <2>6. IndicesCount' /\ SlotsHoldStream'
    BY <1>0, <2>1, <2>2 DEF IndicesCount, SlotsHoldStream
  <2> QED BY <2>5, <2>6 DEF IInv
<1>6. CASE PutHead
  BY <1>6, PutHeadKeeps
<1>7. CASE Read \/ ReadLoop \/ GetTest \/ ReadCheck
  <2>1. UNCHANGED <<app, ringVars, recv, stored, taken>>
    BY <1>7 DEF Read, ReadLoop, GetTest, ReadCheck
  <2>2. /\ read' \in Gets
        /\ read'.pc # "move"
        /\ read'.pc = "load" => ~IsEmpty(tail_index, head_index) /\ read'.tail = tail_index
    <3>0. read \in Gets /\ read.wrote \in Nat
      BY <1>0 DEF Shape, Gets
    <3>1. [NotReading EXCEPT !.wrote = read.wrote] =
            [pc |-> "idle", len |-> 0, wrote |-> read.wrote, result |-> CAT_EOK, tail |-> 0, byte |-> 0]
      BY DEF NotReading
    <3>6. 0 \in Indices
      BY TcpSizesAssumption DEF Indices
    <3>2. CASE Read
      <4>1. PICK k \in Reads : read' = [read EXCEPT !.pc = "loop", !.len = k, !.wrote = 0]
        BY <3>2 DEF Read
      <4>2. k \in Nat
        BY TcpSizesAssumption
      <4> QED BY <3>0, <4>1, <4>2 DEF Gets, GetPlaces
    <3>3. CASE ReadLoop
      <4>1. \/ read' = [read EXCEPT !.pc = "test"]
            \/ read' = [NotReading EXCEPT !.wrote = read.wrote]
        BY <3>3 DEF ReadLoop
      <4> QED BY <3>0, <3>1, <3>6, <4>1 DEF Gets, GetPlaces
    <3>4. CASE GetTest
      BY <3>4, <3>0, <1>0 DEF GetTest, Shape, Gets, GetPlaces
    <3>5. CASE ReadCheck
      <4>1. \/ read' = [NotReading EXCEPT !.wrote = read.wrote]
            \/ read' = [read EXCEPT !.wrote = read.wrote + 1, !.pc = "loop"]
        BY <3>5, <3>0 DEF ReadCheck, Gets
      <4>2. read.wrote + 1 \in Nat
        BY <3>0
      <4>3. CASE read' = [NotReading EXCEPT !.wrote = read.wrote]
        BY <3>0, <3>1, <3>6, <4>3 DEF Gets, GetPlaces
      <4>4. CASE read' = [read EXCEPT !.wrote = read.wrote + 1, !.pc = "loop"]
        BY <3>0, <4>2, <4>4 DEF Gets, GetPlaces
      <4> QED BY <4>1, <4>3, <4>4
    <3> QED BY <1>7, <3>2, <3>3, <3>4, <3>5
  <2>3. recv'.pc \in {"write", "head"} => ~IsFull(tail_index, head_index)
    BY <1>0, <2>1 DEF IndicesCount
  <2> QED BY <1>0, <2>1, <2>2, <2>3, QuietKeeps DEF Shape
<1>8. CASE GetLoad
  <2>1. /\ UNCHANGED <<app, ringVars, recv, stored, taken>>
        /\ tail_index \in Indices /\ tail_index # head_index /\ read.tail = tail_index
    BY <1>0, <1>8 DEF GetLoad, Shape, IndicesCount, IsEmpty
  <2>2. read' = [read EXCEPT !.tail = tail_index, !.byte = p_buffer[tail_index], !.pc = "move"]
    BY <1>8, <2>1 DEF GetLoad
  <2>3. /\ read' \in Gets
        /\ read'.byte = p_buffer[tail_index] /\ read'.tail = tail_index
    BY <1>0, <2>1, <2>2 DEF Shape, Gets, GetPlaces
  <2>4. app.ordered => p_buffer[tail_index] = Len(taken) + 1
    <3>1. head_index \in Indices /\ Len(taken) \in Nat
      BY <1>0 DEF Shape
    <3>2. /\ Between(tail_index, head_index) \in Indices /\ Between(tail_index, head_index) # 0
          /\ tail_index % BufferSize = tail_index
      BY <2>1, <3>1, BetweenValue, TailMoves
    <3>3. 0 \in 0 .. Between(tail_index, head_index) - 1
      BY <3>2, TcpSizesAssumption DEF Indices
    <3>4. app.ordered => p_buffer[(tail_index + 0) % BufferSize] = Len(taken) + 0 + 1
      BY <1>0, <3>3 DEF SlotsHoldStream
    <3>5. tail_index + 0 = tail_index
      BY <2>1 DEF Indices
    <3> QED BY <3>1, <3>2, <3>4, <3>5
  <2>5. recv'.pc \in {"write", "head"} => ~IsFull(tail_index, head_index)
    BY <1>0, <2>1 DEF IndicesCount
  <2> QED BY <1>0, <2>1, <2>3, <2>4, <2>5, QuietKeeps DEF Shape, IsEmpty
<1>9. CASE GetMove
  BY <1>9, GetMoveKeeps
<1> QED BY <1>1, <1>2, <1>3, <1>4, <1>5, <1>6, <1>7, <1>8, <1>9 DEF Next

(* The callback and the reader share the ring without a lock, and no byte  *)
(* is lost or garbled until a put has said so, for every buffer size.      *)
THEOREM RingLosesNothing == Spec => []NothingLostUnreported
<1>1. Spec => []IInv
  BY InitInv, StepInv, PTL DEF Spec
<1>2. IInv => NothingLostUnreported
  BY DEF IInv, IndicesCount, SlotsHoldStream, NothingLostUnreported
<1> QED BY <1>1, <1>2, PTL
=============================================================================
