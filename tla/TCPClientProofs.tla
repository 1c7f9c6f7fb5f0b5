---------------------------- MODULE TCPClientProofs ----------------------------
(* Proofs about TCPClient, for every number of threads, every size and every   *)
(* bound: the types; what ties the closing of the handles, the data they carry *)
(* and the reconnection together; where the bytes are, and that the loop is    *)
(* told of them; how closing ends; and that the client is a BytePipe.          *)
EXTENDS TCPClient, SequenceLemmas

Byte == Nat \X Nat

--------------------------------------------------------------------------------
(* Type correctness.                                                           *)

(* A message is a sequence of bytes.                                           *)
LEMMA MessageType ==
  ASSUME NEW m \in Nat
  PROVE  Message(m) \in Seq(Byte)
<1>1. MsgLen \in Nat
  BY SizesAssumption
<1>2. [k \in 1 .. MsgLen |-> <<m, k>>] \in [1 .. MsgLen -> Byte]
  BY <1>1 DEF Byte
<1> QED
  BY <1>1, <1>2 DEF Message

(* The first and the last items of a sequence are sequences of the same items. *)
LEMMA PartType ==
  ASSUME NEW S, NEW s \in Seq(S), NEW m \in Nat \ {0}, NEW n \in Int, n <= Len(s)
  PROVE  /\ SubSeq(s, m, n) \in Seq(S)
         /\ Len(SubSeq(s, m, n)) = IF m <= n THEN n - m + 1 ELSE 0
<1>1. \A i \in m .. n : s[i] \in S
  OBVIOUS
<1> QED
  BY <1>1, SubSeqProperties

(* A write stores as much as the buffer has room for, and no more than it is   *)
(* given.                                                                      *)
LEMMA AcceptedBounds ==
  ASSUME NEW q \in Seq(Byte), Len(q) <= Capacity, NEW count \in Nat
  PROVE  /\ Buffer!Accepted(q, count) \in Nat
         /\ Buffer!Accepted(q, count) <= count
         /\ Buffer!Accepted(q, count) <= Capacity - Len(q)
  BY SizesAssumption DEF Buffer!Accepted, Buffer!Lesser

(* A read takes what is there, and no more than it asks for.                   *)
LEMMA AvailableBounds ==
  ASSUME NEW q \in Seq(Byte)
  PROVE  /\ Buffer!Available(q, Capacity) \in Nat
         /\ Buffer!Available(q, Capacity) <= Len(q)
  BY SizesAssumption DEF Buffer!Available, Buffer!Lesser

(* Whatever the loop and the threads do, the state has its type; in particular *)
(* the send buffer never holds more than it has room for.                      *)
LEMMA TypeInit == Init => TypeOK
<1> SUFFICES ASSUME Init PROVE TypeOK
  OBVIOUS
<1>1. UserTypes
  BY DEF Init, UserTypes
<1>2. BufferTypes /\ WriteTypes
  BY SizesAssumption DEF Init, BufferTypes, WriteTypes
<1>3. FieldTypes /\ PoolTypes /\ LoopTypes /\ TcpTypes /\ HistoryTypes /\ CountTypes
  BY DEF Init, FieldTypes, PoolTypes, LoopTypes, TcpTypes, HistoryTypes, CountTypes
<1> QED
  BY <1>1, <1>2, <1>3 DEF TypeOK

LEMMA TypeUser ==
  ASSUME TypeOK, NEW t \in Callers, UserStep(t)
  PROVE  TypeOK'
<1>1. CASE Send(t)
  <2>0. Message(sends + 1) \in Seq(Byte)
    BY MessageType DEF TypeOK, CountTypes
  <2>1. UserTypes'
    BY <1>1, <2>0 DEF Send, UserTypes, TypeOK, Goto, SendStates, Byte
  <2>2. LoopTypes'
    BY <1>1 DEF Send, AsyncSend, TypeOK, LoopTypes, asyncVars
  <2>3. HistoryTypes'
    BY <1>1 DEF Send, AsyncSend, TypeOK, HistoryTypes
  <2>4. CountTypes'
    BY <1>1 DEF Send, AsyncSend, TypeOK, CountTypes
  <2>5. FieldTypes' /\ BufferTypes' /\ PoolTypes' /\ TcpTypes' /\ WriteTypes'
    BY <1>1 DEF Send, TypeOK, FieldTypes, BufferTypes, PoolTypes, TcpTypes, WriteTypes,
      userVars, fieldVars, bufferVars, asyncVars, tcpVars, writeVars,
      countVars
  <2> QED
    BY <2>1, <2>2, <2>3, <2>4, <2>5 DEF TypeOK
<1>2. CASE SendCheck(t)
  <2>1. UserTypes'
    BY <1>2 DEF SendCheck, TypeOK, UserTypes, Goto, SendStates, ConnectStates, DestroyStates
  <2>2. FieldTypes' /\ BufferTypes' /\ PoolTypes' /\ LoopTypes' /\ TcpTypes' /\
    WriteTypes' /\ HistoryTypes' /\ CountTypes'
    BY <1>2 DEF SendCheck, TypeOK, FieldTypes, BufferTypes, PoolTypes, LoopTypes,
      TcpTypes, WriteTypes, HistoryTypes, CountTypes, userVars, fieldVars, bufferVars,
      asyncVars, tcpVars, writeVars, countVars
  <2> QED
    BY <2>1, <2>2 DEF TypeOK
<1>3. CASE SendWrite(t)
  <2> DEFINE n == Buffer!Accepted(queue, Len(rest[t]))
             given == SubSeq(rest[t], 1, n)
             left  == SubSeq(rest[t], n + 1, Len(rest[t]))
  <2>a. rest[t] \in Seq(Byte) /\ Len(rest[t]) \in Nat
    BY DEF TypeOK, UserTypes, Byte
  <2>b. n \in Nat /\ n <= Len(rest[t]) /\ n <= Capacity - Len(queue)
    BY <2>a, AcceptedBounds DEF TypeOK, BufferTypes, Byte
  <2>c. given \in Seq(Byte) /\ Len(given) = n
    <3>1. Len(given) = IF 1 <= n THEN n - 1 + 1 ELSE 0
      BY <2>a, <2>b, PartType
    <3>2. given \in Seq(Byte)
      BY <2>a, <2>b, PartType
    <3> HIDE DEF given, n
    <3> QED
      BY <2>b, <3>1, <3>2
  <2>d. left \in Seq(Byte)
    BY <2>a, <2>b, PartType
  <2>e. queue' = queue \o given /\ rest' = [rest EXCEPT ![t] = left]
    BY <1>3 DEF SendWrite, Remainder
  <2>f. pc' \in [Callers -> {"idle", "closeAsk", "closeWake"}
                   \cup SendStates \cup ConnectStates \cup DestroyStates]
    BY <1>3 DEF SendWrite, TypeOK, UserTypes, Goto, SendStates
  <2>g. connectResult' = connectResult
    BY <1>3 DEF SendWrite
  <2> HIDE DEF n, given, left
  <2>1. UserTypes'
    BY <2>d, <2>e, <2>f, <2>g DEF UserTypes, TypeOK, Byte
  <2>2. BufferTypes'
    BY <2>b, <2>c, <2>e, ConcatProperties, SizesAssumption DEF BufferTypes, TypeOK, Byte
  <2>3. FieldTypes' /\ PoolTypes' /\ LoopTypes' /\ TcpTypes' /\ WriteTypes' /\
    HistoryTypes' /\ CountTypes'
    BY <1>3 DEF SendWrite, TypeOK, FieldTypes, PoolTypes, LoopTypes, TcpTypes, WriteTypes,
      HistoryTypes, CountTypes, userVars, fieldVars, bufferVars, asyncVars, tcpVars,
      writeVars, countVars
  <2> QED
    BY <2>1, <2>2, <2>3 DEF TypeOK
<1>4. CASE SendReturn(t)
  <2>1. UserTypes'
    BY <1>4, EmptySeq DEF SendReturn, UserTypes, TypeOK, Goto
  <2>2. LoopTypes'
    BY <1>4 DEF SendReturn, WakeAfterWrite, AsyncSend, TypeOK, LoopTypes, asyncVars
  <2>3. HistoryTypes'
    BY <1>4 DEF SendReturn, WakeAfterWrite, AsyncSend, TypeOK, HistoryTypes
  <2>4. FieldTypes' /\ BufferTypes' /\ PoolTypes' /\ TcpTypes' /\ WriteTypes' /\ CountTypes'
    BY <1>4 DEF SendReturn, TypeOK, FieldTypes, BufferTypes, PoolTypes, TcpTypes,
      WriteTypes, CountTypes, userVars, fieldVars, bufferVars, asyncVars, tcpVars,
      writeVars, countVars
  <2> QED
    BY <2>1, <2>2, <2>3, <2>4 DEF TypeOK
<1>5. CASE Close(t)
  <2>1. UserTypes'
    BY <1>5 DEF Close, TypeOK, UserTypes, Goto, SendStates, ConnectStates, DestroyStates
  <2>2. FieldTypes'
    BY <1>5 DEF Close, TypeOK, FieldTypes, fieldVars
  <2>3. BufferTypes' /\ PoolTypes' /\ LoopTypes' /\ TcpTypes' /\ WriteTypes' /\
    HistoryTypes' /\ CountTypes'
    BY <1>5 DEF Close, TypeOK, BufferTypes, PoolTypes, LoopTypes, TcpTypes, WriteTypes,
      HistoryTypes, CountTypes, userVars, fieldVars, bufferVars, asyncVars, tcpVars,
      writeVars, countVars
  <2> QED
    BY <2>1, <2>2, <2>3 DEF TypeOK
<1>6. CASE CloseAsk(t)
  <2>1. UserTypes' /\ FieldTypes'
    BY <1>6 DEF CloseAsk, TypeOK, UserTypes, FieldTypes, Goto, SendStates, ConnectStates,
      DestroyStates
  <2>2. BufferTypes' /\ PoolTypes' /\ LoopTypes' /\ TcpTypes' /\ WriteTypes' /\
    HistoryTypes' /\ CountTypes'
    BY <1>6 DEF CloseAsk, TypeOK, BufferTypes, PoolTypes, LoopTypes, TcpTypes, WriteTypes,
      HistoryTypes, CountTypes, bufferVars, asyncVars, tcpVars, writeVars, countVars
  <2> QED
    BY <2>1, <2>2 DEF TypeOK
<1>7. CASE CloseReturn(t)
  <2>1. UserTypes'
    BY <1>7 DEF CloseReturn, WakeForClose, AsyncSend, TypeOK, UserTypes, Goto, SendStates,
      ConnectStates, DestroyStates
  <2>2. LoopTypes'
    BY <1>7 DEF CloseReturn, WakeForClose, AsyncSend, TypeOK, LoopTypes, asyncVars
  <2>3. HistoryTypes'
    BY <1>7 DEF CloseReturn, WakeForClose, AsyncSend, TypeOK, HistoryTypes
  <2>4. FieldTypes' /\ BufferTypes' /\ PoolTypes' /\ TcpTypes' /\ WriteTypes' /\ CountTypes'
    BY <1>7 DEF CloseReturn, TypeOK, FieldTypes, BufferTypes, PoolTypes, TcpTypes,
      WriteTypes, CountTypes, userVars, fieldVars, bufferVars, asyncVars, tcpVars,
      writeVars, countVars
  <2> QED
    BY <2>1, <2>2, <2>3, <2>4 DEF TypeOK
<1> QED
  BY <1>1, <1>2, <1>3, <1>4, <1>5, <1>6, <1>7 DEF UserStep

LEMMA TypeOwner ==
  ASSUME TypeOK, OwnerStep
  PROVE  TypeOK'
<1>1. CASE ConnectClosed
  <2>1. UserTypes'
    BY <1>1, CallersAssumption DEF ConnectClosed, TypeOK, UserTypes, Goto, SendStates,
      ConnectStates, DestroyStates
  <2>2. FieldTypes'
    BY <1>1 DEF ConnectClosed, TypeOK, FieldTypes, fieldVars
  <2>3. LoopTypes'
    BY <1>1 DEF ConnectClosed, TypeOK, LoopTypes, asyncVars
  <2>4. TcpTypes'
    BY <1>1 DEF ConnectClosed, TypeOK, TcpTypes, tcpVars
  <2>5. HistoryTypes'
    BY <1>1 DEF ConnectClosed, TypeOK, HistoryTypes
  <2>6. CountTypes'
    BY <1>1 DEF ConnectClosed, TypeOK, CountTypes
  <2>7. BufferTypes' /\ PoolTypes' /\ WriteTypes'
    BY <1>1 DEF ConnectClosed, TypeOK, BufferTypes, PoolTypes, WriteTypes, userVars,
      fieldVars, bufferVars, asyncVars, tcpVars, writeVars, countVars
  <2> QED
    BY <2>1, <2>2, <2>3, <2>4, <2>5, <2>6, <2>7 DEF TypeOK
<1>2. CASE ConnectOpen
  <2>1. UserTypes'
    BY <1>2, CallersAssumption DEF ConnectOpen, CloseInl, ReconnectWanted, Closing,
      TypeOK, UserTypes, Goto, SendStates, ConnectStates, DestroyStates
  <2>2. FieldTypes'
    BY <1>2 DEF ConnectOpen, CloseInl, ReconnectWanted, Closing, TypeOK, FieldTypes,
      fieldVars
  <2>3. LoopTypes'
    BY <1>2 DEF ConnectOpen, CloseInl, ReconnectWanted, Closing, TypeOK, LoopTypes,
      asyncVars
  <2>4. TcpTypes'
    BY <1>2 DEF ConnectOpen, CloseInl, ReconnectWanted, Closing, TypeOK, TcpTypes, tcpVars
  <2>5. HistoryTypes'
    BY <1>2 DEF ConnectOpen, CloseInl, ReconnectWanted, Closing, TypeOK, HistoryTypes
  <2>6. CountTypes'
    BY <1>2 DEF ConnectOpen, CloseInl, ReconnectWanted, Closing, TypeOK, CountTypes
  <2>7. BufferTypes' /\ PoolTypes' /\ WriteTypes'
    BY <1>2 DEF ConnectOpen, TypeOK, BufferTypes, PoolTypes, WriteTypes, userVars,
      fieldVars, bufferVars, asyncVars, tcpVars, writeVars, countVars
  <2> QED
    BY <2>1, <2>2, <2>3, <2>4, <2>5, <2>6, <2>7 DEF TypeOK
<1>3. CASE ConnectWaited
  <2>1. UserTypes'
    BY <1>3, CallersAssumption DEF ConnectWaited, TypeOK, UserTypes, Goto, SendStates,
      ConnectStates, DestroyStates
  <2>2. FieldTypes' /\ BufferTypes' /\ PoolTypes' /\ LoopTypes' /\ TcpTypes' /\
    WriteTypes' /\ HistoryTypes' /\ CountTypes'
    BY <1>3 DEF ConnectWaited, TypeOK, FieldTypes, BufferTypes, PoolTypes, LoopTypes,
      TcpTypes, WriteTypes, HistoryTypes, CountTypes, userVars, fieldVars, bufferVars,
      asyncVars, tcpVars, writeVars, countVars
  <2> QED
    BY <2>1, <2>2 DEF TypeOK
<1>4. CASE ConnectTimeout
  <2>1. UserTypes'
    BY <1>4, CallersAssumption DEF ConnectTimeout, TypeOK, UserTypes, Goto, SendStates,
      ConnectStates, DestroyStates
  <2>2. FieldTypes'
    BY <1>4 DEF ConnectTimeout, TypeOK, FieldTypes, fieldVars
  <2>3. BufferTypes' /\ PoolTypes' /\ LoopTypes' /\ TcpTypes' /\ WriteTypes' /\
    HistoryTypes' /\ CountTypes'
    BY <1>4 DEF ConnectTimeout, TypeOK, BufferTypes, PoolTypes, LoopTypes, TcpTypes,
      WriteTypes, HistoryTypes, CountTypes, userVars, fieldVars, bufferVars, asyncVars,
      tcpVars, writeVars, countVars
  <2> QED
    BY <2>1, <2>2, <2>3 DEF TypeOK
<1>5. CASE ConnectReturn
  <2>1. UserTypes'
    BY <1>5, CallersAssumption DEF ConnectReturn, TypeOK, UserTypes, Goto, SendStates,
      ConnectStates, DestroyStates
  <2>2. FieldTypes' /\ BufferTypes' /\ PoolTypes' /\ LoopTypes' /\ TcpTypes' /\
    WriteTypes' /\ HistoryTypes' /\ CountTypes'
    BY <1>5 DEF ConnectReturn, TypeOK, FieldTypes, BufferTypes, PoolTypes, LoopTypes,
      TcpTypes, WriteTypes, HistoryTypes, CountTypes, userVars, fieldVars, bufferVars,
      asyncVars, tcpVars, writeVars, countVars
  <2> QED
    BY <2>1, <2>2 DEF TypeOK
<1>6. CASE DestroyJoin
  <2>1. UserTypes'
    BY <1>6, CallersAssumption DEF DestroyJoin, TypeOK, UserTypes, Goto, SendStates,
      ConnectStates, DestroyStates
  <2>2. HistoryTypes'
    BY <1>6 DEF DestroyJoin, TypeOK, HistoryTypes
  <2>3. FieldTypes' /\ BufferTypes' /\ PoolTypes' /\ LoopTypes' /\ TcpTypes' /\
    WriteTypes' /\ CountTypes'
    BY <1>6 DEF DestroyJoin, TypeOK, FieldTypes, BufferTypes, PoolTypes, LoopTypes,
      TcpTypes, WriteTypes, CountTypes, userVars, fieldVars, bufferVars, asyncVars,
      tcpVars, writeVars, countVars
  <2> QED
    BY <2>1, <2>2, <2>3 DEF TypeOK
<1> QED
  BY <1>1, <1>2, <1>3, <1>4, <1>5, <1>6 DEF OwnerStep

LEMMA TypeLoop ==
  ASSUME TypeOK, LoopStep
  PROVE  TypeOK'
<1>1. CASE AfterConnectOk
  <2>1. FieldTypes'
    BY <1>1 DEF AfterConnectOk, ReconnectWanted, TimerStopped, TypeOK, FieldTypes,
      UserUnchanged, fieldVars
  <2>2. LoopTypes'
    BY <1>1 DEF AfterConnectOk, ReconnectWanted, TimerStopped, TypeOK, LoopTypes,
      asyncVars, UserUnchanged
  <2>3. TcpTypes'
    BY <1>1 DEF AfterConnectOk, ReconnectWanted, TimerStopped, TypeOK, TcpTypes, tcpVars,
      UserUnchanged
  <2>4. HistoryTypes'
    BY <1>1 DEF AfterConnectOk, ReconnectWanted, TimerStopped, TypeOK, HistoryTypes, UserUnchanged
  <2>5. UserTypes' /\ BufferTypes' /\ PoolTypes' /\ WriteTypes' /\ CountTypes'
    BY <1>1 DEF AfterConnectOk, UserUnchanged, TypeOK, UserTypes, BufferTypes, PoolTypes,
      WriteTypes, CountTypes, userVars, fieldVars, bufferVars, asyncVars, tcpVars,
      writeVars, countVars
  <2> QED
    BY <2>1, <2>2, <2>3, <2>4, <2>5 DEF TypeOK
<1>2. CASE AfterConnectFail
  <2>1. FieldTypes'
    BY <1>2 DEF AfterConnectFail, TypeOK, FieldTypes, UserUnchanged, fieldVars
  <2>2. LoopTypes'
    BY <1>2 DEF AfterConnectFail, TypeOK, LoopTypes, asyncVars, UserUnchanged
  <2>3. TcpTypes'
    BY <1>2 DEF AfterConnectFail, TypeOK, TcpTypes, tcpVars, UserUnchanged
  <2>4. CountTypes'
    BY <1>2 DEF AfterConnectFail, TypeOK, CountTypes, UserUnchanged
  <2>5. UserTypes' /\ BufferTypes' /\ PoolTypes' /\ WriteTypes' /\ HistoryTypes'
    BY <1>2 DEF AfterConnectFail, UserUnchanged, TypeOK, UserTypes, BufferTypes,
      PoolTypes, WriteTypes, HistoryTypes, userVars, fieldVars, bufferVars, asyncVars,
      tcpVars, writeVars, countVars
  <2> QED
    BY <2>1, <2>2, <2>3, <2>4, <2>5 DEF TypeOK
<1>3. CASE AfterRecvData
  <2>1. LoopTypes'
    BY <1>3 DEF AfterRecvData, TypeOK, LoopTypes, asyncVars, UserUnchanged
  <2>2. UserTypes' /\ FieldTypes' /\ BufferTypes' /\ PoolTypes' /\ TcpTypes' /\
    WriteTypes' /\ HistoryTypes' /\ CountTypes'
    BY <1>3 DEF AfterRecvData, UserUnchanged, TypeOK, UserTypes, FieldTypes, BufferTypes,
      PoolTypes, TcpTypes, WriteTypes, HistoryTypes, CountTypes, userVars, fieldVars,
      bufferVars, asyncVars, tcpVars, writeVars, countVars
  <2> QED
    BY <2>1, <2>2 DEF TypeOK
<1>4. CASE AfterRecvEnd
  <2>1. FieldTypes'
    BY <1>4 DEF AfterRecvEnd, TypeOK, FieldTypes, UserUnchanged, fieldVars
  <2>2. TcpTypes'
    BY <1>4 DEF AfterRecvEnd, TypeOK, TcpTypes, tcpVars, UserUnchanged
  <2>3. UserTypes' /\ BufferTypes' /\ PoolTypes' /\ LoopTypes' /\ WriteTypes' /\
    HistoryTypes' /\ CountTypes'
    BY <1>4 DEF AfterRecvEnd, UserUnchanged, TypeOK, UserTypes, BufferTypes, PoolTypes,
      LoopTypes, WriteTypes, HistoryTypes, CountTypes, userVars, fieldVars, bufferVars,
      asyncVars, tcpVars, writeVars, countVars
  <2> QED
    BY <2>1, <2>2, <2>3 DEF TypeOK
<1>5. CASE AfterSendOk
  <2>a. inflight # <<>> /\ inflight \in Seq(Seq(Byte))
    BY <1>5 DEF AfterSendOk, TypeOK, WriteTypes, Byte
  <2>b. Head(inflight) \in Seq(Byte) /\ Tail(inflight) \in Seq(Seq(Byte))
    BY <2>a, HeadTailProperties
  <2>c. wire \in Seq(Byte) /\ lost \subseteq Byte
    BY DEF TypeOK, WriteTypes, Byte
  <2>d. wire' = wire \o Head(inflight) /\ inflight' = Tail(inflight) /\ lost' = lost
    BY <1>5 DEF AfterSendOk
  <2>e. wire' \in Seq(Byte)
    BY <2>b, <2>c, <2>d, ConcatProperties
  <2>1. PoolTypes'
    BY <1>5 DEF AfterSendOk, Recycled, TypeOK, PoolTypes, UserUnchanged
  <2>2. LoopTypes'
    BY <1>5 DEF AfterSendOk, Recycled, TypeOK, LoopTypes, asyncVars, UserUnchanged
  <2>3. WriteTypes'
    BY <2>b, <2>c, <2>d, <2>e DEF WriteTypes, Byte
  <2>4. UserTypes' /\ FieldTypes' /\ BufferTypes' /\ TcpTypes' /\ HistoryTypes' /\
    CountTypes'
    BY <1>5 DEF AfterSendOk, UserUnchanged, TypeOK, UserTypes, FieldTypes, BufferTypes,
      TcpTypes, HistoryTypes, CountTypes, userVars, fieldVars, bufferVars, asyncVars,
      tcpVars, writeVars, countVars
  <2> QED
    BY <2>1, <2>2, <2>3, <2>4 DEF TypeOK
<1>6. CASE AfterSendError
  <2>a. inflight # <<>> /\ inflight \in Seq(Seq(Byte))
    BY <1>6 DEF AfterSendError, TypeOK, WriteTypes, Byte
  <2>b. Head(inflight) \in Seq(Byte) /\ Tail(inflight) \in Seq(Seq(Byte))
    BY <2>a, HeadTailProperties
  <2>c. wire \in Seq(Byte) /\ lost \subseteq Byte
    BY DEF TypeOK, WriteTypes, Byte
  <2>d. /\ lost' = lost \cup BytesOf(Head(inflight))
        /\ inflight' = Tail(inflight) /\ wire' = wire
    BY <1>6 DEF AfterSendError
  <2>e. BytesOf(Head(inflight)) \subseteq Byte
    BY <2>b DEF BytesOf
  <2>1. PoolTypes'
    BY <1>6 DEF AfterSendError, Recycled, TypeOK, PoolTypes, UserUnchanged
  <2>2. WriteTypes'
    BY <2>b, <2>c, <2>d, <2>e DEF WriteTypes, Byte
  <2>3. UserTypes' /\ FieldTypes' /\ BufferTypes' /\ LoopTypes' /\ TcpTypes' /\
    HistoryTypes' /\ CountTypes'
    BY <1>6 DEF AfterSendError, UserUnchanged, TypeOK, UserTypes, FieldTypes, BufferTypes,
      LoopTypes, TcpTypes, HistoryTypes, CountTypes, userVars, fieldVars, bufferVars,
      asyncVars, tcpVars, writeVars, countVars
  <2> QED
    BY <2>1, <2>2, <2>3 DEF TypeOK
<1>7. CASE DrainWrite
  <2> DEFINE n == Buffer!Available(queue, Capacity)
             chunk == SubSeq(queue, 1, n)
             left  == SubSeq(queue, n + 1, Len(queue))
  <2>a. n \in Nat /\ n <= Len(queue) /\ queue \in Seq(Byte) /\ Len(queue) \in Nat
    BY AvailableBounds DEF TypeOK, BufferTypes, Byte
  <2>b. chunk \in Seq(Byte)
    BY <2>a, PartType
  <2>c. left \in Seq(Byte) /\ Len(left) = IF n + 1 <= Len(queue) THEN Len(queue) - (n + 1)
    + 1 ELSE 0
    BY <2>a, PartType
  <2>d. queue' = left
    BY <1>7 DEF DrainWrite
  <2>e. /\ inflight' = Append(inflight, chunk) \/ inflight' = inflight
        /\ lost' = lost \cup BytesOf(chunk) \/ lost' = lost
        /\ wire' = wire
    BY <1>7 DEF DrainWrite
  <2> HIDE DEF n, chunk, left
  <2>f. BytesOf(chunk) \subseteq Byte
    BY <2>b DEF BytesOf
  <2>g. inflight' \in Seq(Seq(Byte))
    <3>1. inflight \in Seq(Seq(Byte))
      BY DEF TypeOK, WriteTypes, Byte
    <3>2. Append(inflight, chunk) \in Seq(Seq(Byte))
      BY <2>b, <3>1, AppendProperties
    <3> QED
      BY <2>e, <3>1, <3>2
  <2>h. Len(left) <= Capacity
    <3>1. Len(queue) <= Capacity
      BY DEF TypeOK, BufferTypes
    <3> QED
      BY <2>a, <2>c, <3>1, SizesAssumption
  <2>1. BufferTypes'
    BY <2>c, <2>d, <2>h DEF BufferTypes, Byte
  <2>2. PoolTypes'
    BY <1>7 DEF DrainWrite, Taken, TypeOK, PoolTypes, UserUnchanged
  <2>3. WriteTypes'
    BY <2>e, <2>f, <2>g DEF WriteTypes, TypeOK, Byte
  <2>4. UserTypes' /\ FieldTypes' /\ LoopTypes' /\ TcpTypes' /\ HistoryTypes' /\ CountTypes'
    BY <1>7 DEF DrainWrite, UserUnchanged, TypeOK, UserTypes, FieldTypes, LoopTypes,
      TcpTypes, HistoryTypes, CountTypes, userVars, fieldVars, bufferVars, asyncVars,
      tcpVars, writeVars, countVars
  <2> QED
    BY <2>1, <2>2, <2>3, <2>4 DEF TypeOK
<1>8. CASE DrainEnd
  <2>1. LoopTypes'
    BY <1>8 DEF DrainEnd, TypeOK, LoopTypes, asyncVars, UserUnchanged
  <2>2. UserTypes' /\ FieldTypes' /\ BufferTypes' /\ PoolTypes' /\ TcpTypes' /\
    WriteTypes' /\ HistoryTypes' /\ CountTypes'
    BY <1>8 DEF DrainEnd, UserUnchanged, TypeOK, UserTypes, FieldTypes, BufferTypes,
      PoolTypes, TcpTypes, WriteTypes, HistoryTypes, CountTypes, userVars, fieldVars,
      bufferVars, asyncVars, tcpVars, writeVars, countVars
  <2> QED
    BY <2>1, <2>2 DEF TypeOK
<1>9. CASE AsyncCB
  <2>1. FieldTypes'
    BY <1>9 DEF AsyncCB, CloseInl, ReconnectWanted, Closing, TypeOK, FieldTypes,
      UserUnchanged, fieldVars
  <2>2. LoopTypes'
    BY <1>9 DEF AsyncCB, CloseInl, ReconnectWanted, Closing, TypeOK, LoopTypes, asyncVars,
      UserUnchanged
  <2>3. TcpTypes'
    BY <1>9 DEF AsyncCB, CloseInl, ReconnectWanted, Closing, TypeOK, TcpTypes, tcpVars,
      UserUnchanged
  <2>4. UserTypes' /\ BufferTypes' /\ PoolTypes' /\ WriteTypes' /\ HistoryTypes' /\
    CountTypes'
    BY <1>9 DEF AsyncCB, UserUnchanged, TypeOK, UserTypes, BufferTypes, PoolTypes,
      WriteTypes, HistoryTypes, CountTypes, userVars, fieldVars, bufferVars, asyncVars,
      tcpVars, writeVars, countVars
  <2> QED
    BY <2>1, <2>2, <2>3, <2>4 DEF TypeOK
<1>10. CASE ReconnectTimerDuringAttempt
  <2>1. HistoryTypes'
    BY <1>10 DEF ReconnectTimerDuringAttempt, TypeOK, HistoryTypes,
      UserUnchanged
  <2>2. UserTypes' /\ FieldTypes' /\ BufferTypes' /\ PoolTypes' /\ LoopTypes' /\ TcpTypes'
    /\ WriteTypes' /\ CountTypes'
    BY <1>10 DEF ReconnectTimerDuringAttempt, UserUnchanged, TypeOK, UserTypes,
      FieldTypes, BufferTypes, PoolTypes, LoopTypes, TcpTypes, WriteTypes, CountTypes,
      userVars, fieldVars, bufferVars, asyncVars, tcpVars, writeVars,
      countVars
  <2> QED
    BY <2>1, <2>2 DEF TypeOK
<1>11. CASE ReconnectTimer
  <2>1. TcpTypes'
    BY <1>11 DEF ReconnectTimer, ReinitData, TypeOK, TcpTypes, tcpVars, UserUnchanged
  <2>2. HistoryTypes'
    BY <1>11 DEF ReconnectTimer, ReinitData, TypeOK, HistoryTypes,
      UserUnchanged
  <2>3. CountTypes'
    BY <1>11 DEF ReconnectTimer, ReinitData, TypeOK, CountTypes, UserUnchanged
  <2>4. UserTypes' /\ FieldTypes' /\ BufferTypes' /\ PoolTypes' /\ LoopTypes' /\ WriteTypes'
    BY <1>11 DEF ReconnectTimer, UserUnchanged, TypeOK, UserTypes, FieldTypes,
      BufferTypes, PoolTypes, LoopTypes, WriteTypes, userVars, fieldVars, bufferVars,
      asyncVars, tcpVars, writeVars, countVars
  <2> QED
    BY <2>1, <2>2, <2>3, <2>4 DEF TypeOK
<1>12. CASE CloseTcp
  <2>1. LoopTypes'
    BY <1>12 DEF CloseTcp, RetryAfterClose, TypeOK, LoopTypes, asyncVars, UserUnchanged
  <2>2. TcpTypes'
    BY <1>12 DEF CloseTcp, RetryAfterClose, TypeOK, TcpTypes, tcpVars, UserUnchanged
  <2>3. UserTypes' /\ FieldTypes' /\ BufferTypes' /\ PoolTypes' /\ WriteTypes' /\
    HistoryTypes' /\ CountTypes'
    BY <1>12 DEF CloseTcp, UserUnchanged, TypeOK, UserTypes, FieldTypes, BufferTypes,
      PoolTypes, WriteTypes, HistoryTypes, CountTypes, userVars, fieldVars, bufferVars,
      asyncVars, tcpVars, writeVars, countVars
  <2> QED
    BY <2>1, <2>2, <2>3 DEF TypeOK
<1>13. CASE CloseAsync
  <2>1. LoopTypes'
    BY <1>13 DEF CloseAsync, TypeOK, LoopTypes, asyncVars, UserUnchanged
  <2>2. UserTypes' /\ FieldTypes' /\ BufferTypes' /\ PoolTypes' /\ TcpTypes' /\
    WriteTypes' /\ HistoryTypes' /\ CountTypes'
    BY <1>13 DEF CloseAsync, UserUnchanged, TypeOK, UserTypes, FieldTypes, BufferTypes,
      PoolTypes, TcpTypes, WriteTypes, HistoryTypes, CountTypes, userVars, fieldVars,
      bufferVars, asyncVars, tcpVars, writeVars, countVars
  <2> QED
    BY <2>1, <2>2 DEF TypeOK
<1>14. CASE CloseTimer
  <2>1. LoopTypes'
    BY <1>14 DEF CloseTimer, TypeOK, LoopTypes, asyncVars, UserUnchanged
  <2>2. UserTypes' /\ FieldTypes' /\ BufferTypes' /\ PoolTypes' /\ TcpTypes' /\
    WriteTypes' /\ HistoryTypes' /\ CountTypes'
    BY <1>14 DEF CloseTimer, UserUnchanged, TypeOK, UserTypes, FieldTypes, BufferTypes,
      PoolTypes, TcpTypes, WriteTypes, HistoryTypes, CountTypes, userVars, fieldVars,
      bufferVars, asyncVars, tcpVars, writeVars, countVars
  <2> QED
    BY <2>1, <2>2 DEF TypeOK
<1>15. CASE LoopReturns
  <2>1. LoopTypes'
    BY <1>15 DEF LoopReturns, TypeOK, LoopTypes, asyncVars, UserUnchanged
  <2>2. UserTypes' /\ FieldTypes' /\ BufferTypes' /\ PoolTypes' /\ TcpTypes' /\
    WriteTypes' /\ HistoryTypes' /\ CountTypes'
    BY <1>15 DEF LoopReturns, UserUnchanged, TypeOK, UserTypes, FieldTypes, BufferTypes,
      PoolTypes, TcpTypes, WriteTypes, HistoryTypes, CountTypes, userVars, fieldVars,
      bufferVars, asyncVars, tcpVars, writeVars, countVars
  <2> QED
    BY <2>1, <2>2 DEF TypeOK
<1>16. CASE RunEnds
  <2>1. FieldTypes'
    BY <1>16 DEF RunEnds, TypeOK, FieldTypes, UserUnchanged, fieldVars
  <2>2. LoopTypes'
    BY <1>16 DEF RunEnds, TypeOK, LoopTypes, asyncVars, UserUnchanged
  <2>3. UserTypes' /\ BufferTypes' /\ PoolTypes' /\ TcpTypes' /\ WriteTypes' /\
    HistoryTypes' /\ CountTypes'
    BY <1>16 DEF RunEnds, UserUnchanged, TypeOK, UserTypes, BufferTypes, PoolTypes,
      TcpTypes, WriteTypes, HistoryTypes, CountTypes, userVars, fieldVars, bufferVars,
      asyncVars, tcpVars, writeVars, countVars
  <2> QED
    BY <2>1, <2>2, <2>3 DEF TypeOK
<1> QED
  BY <1>1, <1>2, <1>3, <1>4, <1>5, <1>6, <1>7, <1>8, <1>9, <1>10, <1>11, <1>12, <1>13,
    <1>14, <1>15, <1>16 DEF LoopStep, AfterConnect, AfterSend, SendInl, TimerFires

LEMMA TypePeer ==
  ASSUME TypeOK, PeerCloses
  PROVE  TypeOK'
<1>1. TcpTypes' /\ CountTypes'
  BY DEF PeerCloses, UserUnchanged, TypeOK, TcpTypes, CountTypes
<1>2. UserTypes' /\ FieldTypes' /\ BufferTypes' /\ PoolTypes' /\ LoopTypes'
  BY DEF PeerCloses, UserUnchanged, TypeOK, UserTypes, FieldTypes, BufferTypes, PoolTypes,
         LoopTypes, userVars, asyncVars
<1>3. WriteTypes' /\ HistoryTypes'
  BY DEF PeerCloses, UserUnchanged, TypeOK, WriteTypes, HistoryTypes, writeVars
<1> QED
  BY <1>1, <1>2, <1>3 DEF TypeOK

LEMMA TypeStutter ==
  ASSUME TypeOK, UNCHANGED vars
  PROVE  TypeOK'
BY DEF TypeOK, UserTypes, FieldTypes, BufferTypes, PoolTypes, LoopTypes, TcpTypes, WriteTypes,
       HistoryTypes, CountTypes, vars, userVars, fieldVars, bufferVars, asyncVars, tcpVars,
       writeVars, countVars

(* Whatever the threads and the loop do, every variable keeps its type, and    *)
(* the send buffer never holds more than BUFFER_SIZE bytes.                    *)
THEOREM TypeCorrect == Spec => []TypeOK
<1>1. TypeOK /\ [Next]_vars => TypeOK'
  BY TypeUser, TypeOwner, TypeLoop, TypePeer, TypeStutter DEF Next
<1> QED
  BY TypeInit, <1>1, PTL DEF Spec

--------------------------------------------------------------------------------
(* The inductive invariant.                                                    *)

(* When and by whom the handles were initialised.                              *)
HandlesExist ==
  /\ ~isclosed => async # "none" /\ tcp # "none" /\ timer # "none"
  /\ loop \in {"running", "draining", "stuck", "returned"} => ~isclosed
  /\ loop = "returned" => async = "closed" /\ tcp = "closed" /\ timer = "closed"

(* The three handles are closed together: as long as the async handle is open  *)
(* the timer is not closed either, and afterwards nothing is open.             *)
HandlesCloseTogether ==
  /\ async = "open" => timer \in {"stopped", "armed"}
  /\ async \in {"closing", "closed"} =>
       tcp \in {"closing", "closed"} /\ timer \in {"closing", "closed"}

(* What can be in flight in which state of the connection.                     *)
RequestsFit ==
  /\ connectPending => tcp \in {"connecting", "closing"}
  /\ tcp = "connecting" => connectPending
  /\ inflight # <<>> => tcp \in {"connected", "closing"}

(* A client that wants to reconnect has not begun to close, and is not         *)
(* connected.                                                                  *)
ReconnectNeedsOpen ==
  isreconnecting => ~isclosed /\ async = "open" /\ tcp # "connected"

IInv ==
  /\ ClosedMeansDead /\ HandlesExist /\ HandlesCloseTogether
  /\ RequestsFit /\ ReconnectNeedsOpen
  /\ ReconnectHasNextStep /\ HandleDataFits

LEMMA InvInit == Init => IInv
BY DEF Init, IInv, ClosedMeansDead, HandlesExist, HandlesCloseTogether, RequestsFit,
       ReconnectNeedsOpen, ReconnectHasNextStep, HandleDataFits

LEMMA InvUser ==
  ASSUME TypeOK, IInv, NEW t \in Callers, UserStep(t)
  PROVE  IInv'
<1> USE DEF TypeOK, LoopTypes, TcpTypes, FieldTypes, IInv, ClosedMeansDead, HandlesExist,
        HandlesCloseTogether, RequestsFit, ReconnectNeedsOpen, ReconnectHasNextStep,
        HandleDataFits, fieldVars, asyncVars, tcpVars, writeVars, MayCall, At
<1>1. CASE Send(t)
  BY <1>1 DEF Send, AsyncSend
<1>2. CASE SendCheck(t)
  BY <1>2 DEF SendCheck
<1>3. CASE SendWrite(t)
  BY <1>3 DEF SendWrite
<1>4. CASE SendReturn(t)
  BY <1>4 DEF SendReturn, WakeAfterWrite, AsyncSend
<1>5. CASE Close(t)
  BY <1>5 DEF Close
<1>6. CASE CloseAsk(t)
  BY <1>6 DEF CloseAsk
<1>7. CASE CloseReturn(t)
  BY <1>7 DEF CloseReturn, WakeForClose, AsyncSend
<1> QED
  BY <1>1, <1>2, <1>3, <1>4, <1>5, <1>6, <1>7 DEF UserStep

LEMMA InvOwner ==
  ASSUME TypeOK, IInv, OwnerStep
  PROVE  IInv'
<1> USE DEF TypeOK, LoopTypes, TcpTypes, FieldTypes, IInv, ClosedMeansDead, HandlesExist,
        HandlesCloseTogether, RequestsFit, ReconnectNeedsOpen, ReconnectHasNextStep,
        HandleDataFits, fieldVars, asyncVars, tcpVars, writeVars, MayCall, At
<1>1. CASE ConnectClosed
  BY <1>1 DEF ConnectClosed
<1>2. CASE ConnectOpen
  BY <1>2 DEF ConnectOpen, CloseInl, ReconnectWanted, Closing
<1>3. CASE ConnectWaited
  BY <1>3 DEF ConnectWaited
<1>4. CASE ConnectTimeout
  BY <1>4 DEF ConnectTimeout
<1>5. CASE ConnectReturn
  BY <1>5 DEF ConnectReturn
<1>6. CASE DestroyJoin
  BY <1>6 DEF DestroyJoin
<1> QED
  BY <1>1, <1>2, <1>3, <1>4, <1>5, <1>6 DEF OwnerStep

LEMMA InvLoop ==
  ASSUME TypeOK, IInv, LoopStep
  PROVE  IInv'
<1> USE DEF TypeOK, LoopTypes, TcpTypes, FieldTypes, IInv, ClosedMeansDead, HandlesExist,
        HandlesCloseTogether, RequestsFit, ReconnectNeedsOpen, ReconnectHasNextStep,
        HandleDataFits, fieldVars, asyncVars, tcpVars, writeVars, UserUnchanged, LoopAt
<1>1. CASE AfterConnectOk
  BY <1>1 DEF AfterConnectOk, ReconnectWanted, TimerStopped
<1>2. CASE AfterConnectFail
  BY <1>2 DEF AfterConnectFail
<1>3. CASE AfterRecvData
  BY <1>3 DEF AfterRecvData
<1>4. CASE AfterRecvEnd
  BY <1>4 DEF AfterRecvEnd
<1>5. CASE AfterSendOk
  BY <1>5 DEF AfterSendOk
<1>6. CASE AfterSendError
  BY <1>6 DEF AfterSendError
<1>7. CASE DrainWrite
  BY <1>7 DEF DrainWrite, Writable
<1>8. CASE DrainEnd
  BY <1>8 DEF DrainEnd
<1>9. CASE AsyncCB
  BY <1>9 DEF AsyncCB, CloseInl, ReconnectWanted, Closing
<1>10. CASE ReconnectTimerDuringAttempt
  BY <1>10 DEF ReconnectTimerDuringAttempt
<1>11. CASE ReconnectTimer
  BY <1>11 DEF ReconnectTimer, ReinitData
<1>12. CASE CloseTcp
  BY <1>12 DEF CloseTcp, RetryAfterClose
<1>13. CASE CloseAsync
  BY <1>13 DEF CloseAsync
<1>14. CASE CloseTimer
  BY <1>14 DEF CloseTimer
<1>15. CASE LoopReturns
  BY <1>15 DEF LoopReturns, LoopAlive
<1>16. CASE RunEnds
  BY <1>16 DEF RunEnds
<1> QED
  BY <1>1, <1>2, <1>3, <1>4, <1>5, <1>6, <1>7, <1>8, <1>9, <1>10, <1>11, <1>12, <1>13, <1>14, <1>15, <1>16 DEF LoopStep, AfterConnect, AfterSend, SendInl, TimerFires

LEMMA InvPeer ==
  ASSUME IInv, PeerCloses
  PROVE  IInv'
BY DEF PeerCloses, UserUnchanged, IInv, ClosedMeansDead, HandlesExist, HandlesCloseTogether,
       RequestsFit, ReconnectNeedsOpen, ReconnectHasNextStep, HandleDataFits, asyncVars,
       writeVars

LEMMA InvStutter ==
  ASSUME IInv, UNCHANGED vars
  PROVE  IInv'
BY DEF IInv, ClosedMeansDead, HandlesExist, HandlesCloseTogether, RequestsFit,
       ReconnectNeedsOpen, ReconnectHasNextStep, HandleDataFits, vars, fieldVars, asyncVars,
       tcpVars, writeVars

LEMMA Invariant == Spec => []IInv
<1>1. TypeOK /\ IInv /\ [Next]_vars => IInv'
  BY InvUser, InvOwner, InvLoop, InvPeer, InvStutter DEF Next
<1> QED
  BY InvInit, <1>1, TypeCorrect, PTL DEF Spec

(* Whenever IsClosed tells the user that the client is closed, and whenever    *)
(* Connect or the destructor relies on it, no handle of the loop is open, no   *)
(* request is in flight and no reconnection is wanted.                         *)
THEOREM ClosedIsDead == Spec => []ClosedMeansDead
<1>1. IInv => ClosedMeansDead
  BY DEF IInv
<1> QED
  BY <1>1, Invariant, PTL

(* A client that is reconnecting always has what will try again, and never     *)
(* reconnects once it is closing.                                              *)
THEOREM ReconnectionNeverStalls == Spec => []ReconnectHasNextStep
<1>1. IInv => ReconnectHasNextStep
  BY DEF IInv
<1> QED
  BY <1>1, Invariant, PTL

(* The callbacks that take the handle's data for a TcpClientCtx find one.      *)
THEOREM CallbacksFindContext == Spec => []HandleDataFits
<1>1. IInv => HandleDataFits
  BY DEF IInv
<1> QED
  BY <1>1, Invariant, PTL

(* The status Connect waits for is about its own attempt as long as it is the  *)
(* first: nothing has been tried before.                                       *)
StatusIsFresh ==
  /\ connects = 0 => /\ connectstatus = "DIS" /\ connectResult # "ok"
                     /\ isclosed /\ pc[Owner] \notin ConnectStates
  /\ connects = 1 /\ (connectstatus = "FINISH" \/ connectResult = "ok") => attemptOk

LEMMA FreshStep ==
  ASSUME TypeOK, IInv, StatusIsFresh, [Next]_vars
  PROVE  StatusIsFresh'
<1> USE CallersAssumption DEF StatusIsFresh, TypeOK, CountTypes, UserTypes, FieldTypes, At,
        MayCall, Goto, SendStates, ConnectStates, DestroyStates, userVars, fieldVars, countVars
<1>1. ASSUME NEW t \in Callers, UserStep(t) PROVE StatusIsFresh'
  <2>1. /\ UNCHANGED <<connects, connectstatus, connectResult, isclosed, attemptOk>>
        /\ \E place \in {"idle", "closeAsk", "closeWake"} \cup SendStates \cup DestroyStates :
             pc' = [pc EXCEPT ![t] = place]
    BY <1>1 DEF UserStep, Send, SendCheck, SendWrite, SendReturn, Close, CloseAsk, CloseReturn
  <2> QED
    BY <2>1
<1>2. CASE ConnectClosed
  BY <1>2 DEF ConnectClosed
<1>3. CASE ConnectOpen
  BY <1>3 DEF ConnectOpen
<1>4. CASE ConnectWaited
  BY <1>4 DEF ConnectWaited
<1>5. CASE ConnectTimeout
  BY <1>5 DEF ConnectTimeout
<1>6. CASE ConnectReturn
  BY <1>6 DEF ConnectReturn, Finished
<1>7. CASE DestroyJoin
  BY <1>7 DEF DestroyJoin
<1>8. CASE AfterConnect
  <2>1. connects # 0
    BY <1>8 DEF AfterConnect, AfterConnectOk, AfterConnectFail, IInv, ClosedMeansDead
  <2> QED
    BY <1>8, <2>1 DEF AfterConnect, AfterConnectOk, AfterConnectFail, UserUnchanged
<1>9. CASE RunEnds
  BY <1>9 DEF RunEnds
<1>10. ASSUME LoopStep \/ PeerCloses, ~AfterConnect, ~RunEnds PROVE StatusIsFresh'
  BY <1>10 DEF LoopStep, AfterSend, SendInl, TimerFires, PeerCloses, AfterRecvData,
       AfterRecvEnd, AfterSendOk, AfterSendError, DrainWrite, DrainEnd, AsyncCB,
       ReconnectTimerDuringAttempt, ReconnectTimer, CloseTcp, CloseAsync, CloseTimer,
       LoopReturns, UserUnchanged
<1>11. CASE UNCHANGED vars
  BY <1>11 DEF vars
<1> QED
  BY <1>1, <1>2, <1>3, <1>4, <1>5, <1>6, <1>7, <1>8, <1>9, <1>10, <1>11
     DEF Next, OwnerStep

(* The first Connect returns true only if its attempt has connected.           *)
THEOREM FirstConnectIsHonest == Spec => []ConnectHonest
<1>1. Init => StatusIsFresh
  BY CallersAssumption DEF Init, StatusIsFresh, ConnectStates
<1>2. TypeOK /\ IInv /\ StatusIsFresh /\ [Next]_vars => StatusIsFresh'
  BY FreshStep
<1>3. StatusIsFresh => ConnectHonest
  BY DEF StatusIsFresh, ConnectHonest
<1> QED
  BY <1>1, <1>2, <1>3, TypeCorrect, Invariant, PTL DEF Spec

(* The list of free write requests.                                            *)
LEMMA PoolStep ==
  ASSUME TypeOK, PoolBounded, [Next]_vars
  PROVE  PoolBounded'
<1> USE SizesAssumption DEF PoolBounded, TypeOK, PoolTypes
<1>1. pool' \in {pool, Recycled, Taken, Taken + 1}
  BY DEF Next, UserStep, OwnerStep, LoopStep, AfterConnect, AfterSend, SendInl, TimerFires,
         Send, SendCheck, SendWrite, SendReturn, Close, CloseAsk, CloseReturn, ConnectClosed,
         ConnectOpen, ConnectWaited, ConnectTimeout, ConnectReturn, DestroyJoin,
         AfterConnectOk, AfterConnectFail, PeerCloses, AfterRecvData, AfterRecvEnd,
         AfterSendOk, AfterSendError, DrainWrite, DrainEnd, AsyncCB,
         ReconnectTimerDuringAttempt, ReconnectTimer, CloseTcp, CloseAsync, CloseTimer,
         LoopReturns, RunEnds, vars, bufferVars
<1> QED
  BY <1>1 DEF Recycled, Taken

(* The list stays bounded, also by the refused writes, which send_inl puts     *)
(* back without looking at MAXLISTSIZE.                                        *)
THEOREM PoolStaysBounded == Spec => []PoolBounded
<1>1. Init => PoolBounded
  BY SizesAssumption DEF Init, PoolBounded
<1>2. TypeOK /\ PoolBounded /\ [Next]_vars => PoolBounded'
  BY PoolStep
<1> QED
  BY <1>1, <1>2, TypeCorrect, PTL DEF Spec

--------------------------------------------------------------------------------
(* The bytes on their way.                                                     *)

(* In the order of their message, if they are of the same.                     *)
Before(x, y) == x[1] = y[1] => x[2] < y[2]

Ordered(s) == \A i, j \in 1 .. Len(s) : i < j => Before(s[i], s[j])

(* The bytes that Send has stored.                                             *)
Stored == BytesOf(Stream) \cup lost

(* What is on its way is in order, nothing of it was dropped, and all that was *)
(* stored comes before what a Send has still to store; no two threads send the *)
(* same message.                                                               *)
BytesApart ==
  /\ Ordered(Stream) /\ BytesOf(Stream) \cap lost = {}
  /\ \A t \in Callers :
       /\ Ordered(rest[t])
       /\ \A x \in Stored, y \in BytesOf(rest[t]) : Before(x, y)
       /\ \A y \in BytesOf(rest[t]) : y[1] <= sends
  /\ \A t, u \in Callers : t # u =>
       \A x \in BytesOf(rest[t]), y \in BytesOf(rest[u]) : x[1] # y[1]
  /\ \A x \in Stored : x[1] <= sends

(* Only a Send has bytes to store, and none when it is about to return, unless *)
(* Close has cut it short.                                                     *)
RestsFit ==
  \A t \in Callers :
    /\ pc[t] \notin SendStates => rest[t] = <<>>
    /\ pc[t] = "sendWake" => isuseraskforclosed \/ rest[t] = <<>>

LEMMA BytesOfSeq ==
  ASSUME NEW s \in Seq(Byte)
  PROVE  /\ BytesOf(s) \subseteq Byte /\ DOMAIN s = 1 .. Len(s) /\ Len(s) \in Nat
         /\ \A i \in 1 .. Len(s) : s[i] \in Byte /\ s[i] \in BytesOf(s)
         /\ \A x \in BytesOf(s) : \E i \in 1 .. Len(s) : x = s[i]
<1>1. DOMAIN s = 1 .. Len(s) /\ Len(s) \in Nat
  BY LenProperties
<1>2. \A i \in 1 .. Len(s) : s[i] \in Byte
  BY ElementOfSeq
<1> QED
  BY <1>1, <1>2 DEF BytesOf

LEMMA BytesOfEmpty == BytesOf(<<>>) = {} /\ Ordered(<<>>)
BY EmptySeq DEF BytesOf, Ordered

(* The bytes of two sequences, one behind the other.                           *)
LEMMA ConcatFits ==
  ASSUME NEW a \in Seq(Byte), NEW b \in Seq(Byte)
  PROVE  /\ a \o b \in Seq(Byte) /\ BytesOf(a \o b) = BytesOf(a) \cup BytesOf(b)
         /\ Ordered(a \o b) <=>
              /\ Ordered(a) /\ Ordered(b)
              /\ \A x \in BytesOf(a), y \in BytesOf(b) : Before(x, y)
<1> DEFINE c == a \o b
           m == Len(a)
           n == Len(b)
<1>1. m \in Nat /\ n \in Nat
  BY LenProperties
<1>2. /\ c \in Seq(Byte) /\ Len(c) = m + n
      /\ \A i \in 1 .. m + n : c[i] = IF i <= m THEN a[i] ELSE b[i - m]
  BY ConcatProperties
<1> HIDE DEF c
<1>3. \A i \in 1 .. m : i \in 1 .. m + n /\ c[i] = a[i]
  BY <1>1, <1>2
<1>4. ASSUME NEW i \in 1 .. n PROVE m + i \in 1 .. m + n /\ c[m + i] = b[i]
  <2>1. m + i \in 1 .. m + n /\ ~(m + i <= m) /\ (m + i) - m = i
    BY <1>1
  <2> QED
    BY <1>2, <2>1
<1>5. ASSUME NEW i \in 1 .. m + n
      PROVE  (i \in 1 .. m /\ c[i] = a[i]) \/ (i - m \in 1 .. n /\ c[i] = b[i - m])
  <2>1. CASE i <= m
    BY <1>1, <1>2, <2>1
  <2>2. CASE ~(i <= m)
    BY <1>1, <1>2, <2>2
  <2> QED
    BY <2>1, <2>2
<1>6. BytesOf(c) = BytesOf(a) \cup BytesOf(b)
  <2>1. ASSUME NEW x \in BytesOf(c) PROVE x \in BytesOf(a) \cup BytesOf(b)
    <3>1. PICK i \in 1 .. m + n : x = c[i]
      BY <1>2, BytesOfSeq
    <3>2. CASE i \in 1 .. m /\ c[i] = a[i]
      BY <3>1, <3>2, BytesOfSeq
    <3>3. CASE i - m \in 1 .. n /\ c[i] = b[i - m]
      BY <3>1, <3>3, BytesOfSeq
    <3> QED
      BY <1>5, <3>2, <3>3
  <2>2. ASSUME NEW x \in BytesOf(a) PROVE x \in BytesOf(c)
    <3>1. PICK i \in 1 .. m : x = a[i]
      BY BytesOfSeq
    <3> QED
      BY <1>2, <1>3, <3>1, BytesOfSeq
  <2>3. ASSUME NEW x \in BytesOf(b) PROVE x \in BytesOf(c)
    <3>1. PICK i \in 1 .. n : x = b[i]
      BY BytesOfSeq
    <3> QED
      BY <1>2, <1>4, <3>1, BytesOfSeq
  <2> QED
    BY <2>1, <2>2, <2>3
<1>7. ASSUME Ordered(c)
      PROVE  Ordered(a) /\ Ordered(b) /\ \A x \in BytesOf(a), y \in BytesOf(b) : Before(x, y)
  <2>0. \A i, j \in 1 .. m + n : i < j => Before(c[i], c[j])
    BY <1>2, <1>7 DEF Ordered
  <2>1. Ordered(a)
    BY <1>3, <2>0 DEF Ordered
  <2>2. ASSUME NEW i \in 1 .. n, NEW j \in 1 .. n, i < j PROVE Before(b[i], b[j])
    <3>1. m + i < m + j
      BY <1>1, <2>2
    <3> QED
      BY <1>4, <2>0, <3>1
  <2>3. ASSUME NEW x \in BytesOf(a), NEW y \in BytesOf(b) PROVE Before(x, y)
    <3>1. PICK i \in 1 .. m : x = a[i]
      BY BytesOfSeq
    <3>2. PICK j \in 1 .. n : y = b[j]
      BY BytesOfSeq
    <3>3. i < m + j
      BY <1>1
    <3> QED
      BY <1>3, <1>4, <2>0, <3>1, <3>2, <3>3
  <2> QED
    BY <2>1, <2>2, <2>3 DEF Ordered
<1>8. ASSUME Ordered(a), Ordered(b), \A x \in BytesOf(a), y \in BytesOf(b) : Before(x, y),
             NEW i \in 1 .. m + n, NEW j \in 1 .. m + n, i < j
      PROVE  Before(c[i], c[j])
  <2>1. CASE i \in 1 .. m /\ j \in 1 .. m
    BY <1>3, <1>8, <2>1 DEF Ordered
  <2>2. CASE i \in 1 .. m /\ j \notin 1 .. m
    <3>1. j - m \in 1 .. n /\ c[j] = b[j - m]
      BY <1>5, <2>2
    <3>2. c[i] \in BytesOf(a) /\ c[j] \in BytesOf(b)
      BY <1>3, <2>2, <3>1, BytesOfSeq
    <3> QED
      BY <1>8, <3>2
  <2>3. CASE i \notin 1 .. m
    <3>1. j \notin 1 .. m
      BY <1>1, <1>8, <2>3
    <3>2. /\ i - m \in 1 .. n /\ c[i] = b[i - m]
          /\ j - m \in 1 .. n /\ c[j] = b[j - m]
      BY <1>5, <2>3, <3>1
    <3>3. i - m < j - m
      BY <1>1, <1>8
    <3> QED
      BY <1>8, <3>2, <3>3 DEF Ordered
  <2> QED
    BY <2>1, <2>2, <2>3
<1>9. Ordered(c) <=> /\ Ordered(a) /\ Ordered(b)
                     /\ \A x \in BytesOf(a), y \in BytesOf(b) : Before(x, y)
  <2>1. ASSUME Ordered(a), Ordered(b), \A x \in BytesOf(a), y \in BytesOf(b) : Before(x, y)
        PROVE  Ordered(c)
    BY <1>2, <1>8, <2>1 DEF Ordered
  <2> QED
    BY <1>7, <2>1
<1> QED
  BY <1>2, <1>6, <1>9 DEF c

(* No byte comes before itself.                                                *)
LEMMA BeforeApart ==
  ASSUME NEW x \in Byte
  PROVE  ~Before(x, x)
<1>1. x[2] \in Nat
  BY DEF Byte
<1> QED
  BY <1>1 DEF Before

(* What is taken out of the middle is not in the rest.                         *)
LEMMA DropFits ==
  ASSUME NEW a \in Seq(Byte), NEW b \in Seq(Byte), NEW c \in Seq(Byte)
  PROVE  /\ BytesOf((a \o b) \o c) = BytesOf(a \o c) \cup BytesOf(b)
         /\ Ordered((a \o b) \o c) => Ordered(a \o c) /\ BytesOf(a \o c) \cap BytesOf(b) = {}
<1>1. /\ a \o b \in Seq(Byte) /\ BytesOf(a \o b) = BytesOf(a) \cup BytesOf(b)
      /\ Ordered(a \o b) <=> /\ Ordered(a) /\ Ordered(b)
                             /\ \A x \in BytesOf(a), y \in BytesOf(b) : Before(x, y)
  BY ConcatFits
<1>2. /\ BytesOf((a \o b) \o c) = BytesOf(a \o b) \cup BytesOf(c)
      /\ Ordered((a \o b) \o c) <=> /\ Ordered(a \o b) /\ Ordered(c)
                                    /\ \A x \in BytesOf(a \o b), y \in BytesOf(c) : Before(x, y)
  BY <1>1, ConcatFits
<1>3. /\ BytesOf(a \o c) = BytesOf(a) \cup BytesOf(c)
      /\ Ordered(a \o c) <=> /\ Ordered(a) /\ Ordered(c)
                             /\ \A x \in BytesOf(a), y \in BytesOf(c) : Before(x, y)
  BY ConcatFits
<1>4. ASSUME Ordered((a \o b) \o c) PROVE BytesOf(a \o c) \cap BytesOf(b) = {}
  <2>1. SUFFICES ASSUME NEW x \in BytesOf(a \o c) \cap BytesOf(b) PROVE FALSE
    OBVIOUS
  <2>2. x \in Byte
    BY BytesOfSeq
  <2>3. CASE x \in BytesOf(a)
    <3>1. Before(x, x)
      BY <1>1, <1>2, <1>4, <2>1, <2>3
    <3> QED
      BY <2>2, <3>1, BeforeApart
  <2>4. CASE x \in BytesOf(c)
    <3>1. Before(x, x)
      BY <1>1, <1>2, <1>4, <2>1, <2>4
    <3> QED
      BY <2>2, <3>1, BeforeApart
  <2> QED
    BY <1>3, <2>1, <2>3, <2>4
<1>5. Ordered((a \o b) \o c) => Ordered(a \o c)
  BY <1>1, <1>2, <1>3
<1>6. BytesOf((a \o b) \o c) = BytesOf(a \o c) \cup BytesOf(b)
  BY <1>1, <1>2, <1>3
<1> QED
  BY <1>4, <1>5, <1>6

LEMMA StreamType ==
  ASSUME TypeOK
  PROVE  /\ wire \in Seq(Byte) /\ inflight \in Seq(Seq(Byte)) /\ queue \in Seq(Byte)
         /\ FlattenSeq(inflight) \in Seq(Byte) /\ wire \o FlattenSeq(inflight) \in Seq(Byte)
         /\ Stream \in Seq(Byte) /\ Stored \subseteq Byte /\ sends \in Nat
         /\ \A t \in Callers : rest[t] \in Seq(Byte)
<1>1. /\ wire \in Seq(Byte) /\ inflight \in Seq(Seq(Byte)) /\ queue \in Seq(Byte)
      /\ lost \subseteq Byte /\ sends \in Nat /\ \A t \in Callers : rest[t] \in Seq(Byte)
  BY DEF TypeOK, WriteTypes, BufferTypes, CountTypes, UserTypes, Byte
<1>2. FlattenSeq(inflight) \in Seq(Byte)
  BY <1>1, FlattenType
<1>3. wire \o FlattenSeq(inflight) \in Seq(Byte)
  BY <1>1, <1>2, ConcatProperties
<1>4. Stream \in Seq(Byte)
  BY <1>1, <1>3, ConcatProperties DEF Stream
<1>5. Stored \subseteq Byte
  BY <1>1, <1>4, BytesOfSeq DEF Stored
<1> QED
  BY <1>1, <1>2, <1>3, <1>4, <1>5

(* Bytes that go on to the next place.                                         *)
LEMMA BytesMove ==
  ASSUME BytesApart, Stream' = Stream, UNCHANGED <<lost, rest, sends>>
  PROVE  BytesApart' /\ Stored' = Stored
BY DEF BytesApart, Stored

(* Bytes that are dropped.                                                     *)
LEMMA BytesDrop ==
  ASSUME BytesApart, NEW a \in Seq(Byte), NEW b \in Seq(Byte), NEW c \in Seq(Byte),
         Stream = (a \o b) \o c, Stream' = a \o c, lost' = lost \cup BytesOf(b),
         UNCHANGED <<rest, sends>>
  PROVE  BytesApart' /\ Stored' = Stored
<1>1. Ordered(Stream) /\ BytesOf(Stream) \cap lost = {}
  BY DEF BytesApart
<1>2. /\ BytesOf(Stream) = BytesOf(Stream') \cup BytesOf(b)
      /\ Ordered(Stream') /\ BytesOf(Stream') \cap BytesOf(b) = {}
  BY <1>1, DropFits
<1>3. BytesOf(Stream)' = BytesOf(Stream')
  BY DEF BytesOf
<1>4. Stored' = Stored
  BY <1>2, <1>3 DEF Stored
<1>5. BytesOf(Stream)' \cap lost' = {}
  BY <1>1, <1>2, <1>3
<1> QED
  BY <1>2, <1>4, <1>5 DEF BytesApart, Ordered

(* send_inl, with or without a connection.                                     *)
LEMMA DrainWriteMoves ==
  ASSUME TypeOK, BytesApart, DrainWrite
  PROVE  BytesApart' /\ Stored' = Stored
<1> DEFINE n == Buffer!Available(queue, Capacity)
           chunk == SubSeq(queue, 1, n)
           left == SubSeq(queue, n + 1, Len(queue))
           ahead == wire \o FlattenSeq(inflight)
<1>1. /\ queue' = left /\ UNCHANGED <<wire, rest, sends>>
      /\ \/ inflight' = Append(inflight, chunk) /\ lost' = lost
         \/ inflight' = inflight /\ lost' = lost \cup BytesOf(chunk)
  BY DEF DrainWrite, userVars, countVars
<1>2. /\ wire \in Seq(Byte) /\ inflight \in Seq(Seq(Byte)) /\ queue \in Seq(Byte)
      /\ FlattenSeq(inflight) \in Seq(Byte) /\ ahead \in Seq(Byte)
  BY StreamType
<1>3. chunk \in Seq(Byte) /\ left \in Seq(Byte) /\ queue = chunk \o left
  <2>1. n \in Nat /\ n <= Len(queue) /\ Len(queue) \in Nat
    BY <1>2, AvailableBounds, LenProperties
  <2> HIDE DEF n
  <2>2. chunk \in Seq(Byte) /\ left \in Seq(Byte)
    BY <1>2, <2>1, PartType
  <2> QED
    BY <1>2, <2>1, <2>2, SplitFits
<1> HIDE DEF chunk, left
<1>4. Stream = ahead \o (chunk \o left) /\ (ahead \o chunk) \o left = ahead \o (chunk \o left)
  BY <1>2, <1>3, ConcatAssociative, SMTT(30) DEF Stream
<1>5. CASE inflight' = Append(inflight, chunk) /\ lost' = lost
  <2>1. FlattenSeq(inflight') = FlattenSeq(inflight) \o chunk
    BY <1>2, <1>3, <1>5, FlattenAppend
  <2>2. wire \o (FlattenSeq(inflight) \o chunk) = ahead \o chunk
    BY <1>2, <1>3, ConcatAssociative, SMTT(30)
  <2>3. Stream' = (wire \o (FlattenSeq(inflight) \o chunk)) \o left
    BY <1>1, <2>1 DEF Stream
  <2>4. Stream' = Stream
    BY <1>4, <2>2, <2>3
  <2> QED
    BY <1>1, <1>5, <2>4, BytesMove
<1>6. CASE inflight' = inflight /\ lost' = lost \cup BytesOf(chunk)
  <2>1. Stream' = ahead \o left
    BY <1>1, <1>6 DEF Stream
  <2>2. Stream = (ahead \o chunk) \o left
    BY <1>4
  <2> HIDE DEF ahead
  <2> QED
    BY <1>1, <1>2, <1>3, <1>6, <2>1, <2>2, BytesDrop
<1> QED
  BY <1>1, <1>5, <1>6

(* AfterSend: the oldest write is done.                                        *)
LEMMA AfterSendMoves ==
  ASSUME TypeOK, BytesApart, AfterSend
  PROVE  BytesApart' /\ Stored' = Stored
<1> DEFINE T == Seq(Byte)
           first == Head(inflight)
           others == FlattenSeq(Tail(inflight))
<1>1. /\ inflight # <<>> /\ inflight' = Tail(inflight) /\ UNCHANGED <<queue, rest, sends>>
      /\ \/ wire' = wire \o first /\ lost' = lost
         \/ wire' = wire /\ lost' = lost \cup BytesOf(first)
  BY DEF AfterSend, AfterSendOk, AfterSendError, UserUnchanged, userVars
<1>2. wire \in Seq(Byte) /\ inflight \in Seq(T) /\ queue \in Seq(Byte)
  BY StreamType
<1>3. first \in T /\ Tail(inflight) \in Seq(T)
  <2> HIDE DEF T
  <2> QED
    BY <1>1, <1>2, HeadTailProperties
<1>4. others \in Seq(Byte)
  BY <1>3, FlattenType
<1>5. FlattenSeq(inflight) = first \o others
  BY <1>1, <1>2, FlattenTail
<1>6. FlattenSeq(inflight') = others
  BY <1>1
<1> HIDE DEF T, first, others
<1>a. first \in Seq(Byte)
  BY <1>3 DEF T
<1>b. ASSUME NEW a \in Seq(Byte), NEW b \in Seq(Byte), NEW c \in Seq(Byte)
      PROVE  (a \o b) \o c = a \o (b \o c)
  BY ConcatAssociative
<1>7. wire \o (first \o others) = (wire \o first) \o others
  BY <1>2, <1>4, <1>a, <1>b
<1>8. wire \o first \in Seq(Byte) /\ others \o queue \in Seq(Byte)
  BY <1>2, <1>4, <1>a, ConcatProperties
<1>9. Stream = ((wire \o first) \o others) \o queue
  BY <1>5, <1>7 DEF Stream
<1>10. CASE wire' = wire \o first /\ lost' = lost
  <2>1. Stream' = Stream
    BY <1>1, <1>6, <1>9, <1>10 DEF Stream
  <2> QED
    BY <1>1, <1>10, <2>1, BytesMove
<1>11. CASE wire' = wire /\ lost' = lost \cup BytesOf(first)
  <2>1. Stream' = wire \o (others \o queue)
    <3>1. Stream' = (wire \o others) \o queue
      BY <1>1, <1>6, <1>11 DEF Stream
    <3> QED
      BY <1>2, <1>4, <3>1, ConcatAssociative, SMTT(30)
  <2>2. Stream = (wire \o first) \o (others \o queue)
    BY <1>2, <1>4, <1>8, <1>9, <1>b, SMTT(30)
  <2>3. PICK more \in Seq(Byte) : more = others \o queue
    BY <1>8
  <2>4. Stream' = wire \o more /\ Stream = (wire \o first) \o more
    BY <2>1, <2>2, <2>3
  <2> QED
    BY <1>1, <1>2, <1>11, <1>a, <2>4, BytesDrop
<1> QED
  BY <1>1, <1>10, <1>11

(* A message is in order, and its bytes say whose they are.                    *)
LEMMA MessageFits ==
  ASSUME NEW m \in Nat
  PROVE  /\ Message(m) \in Seq(Byte) /\ Ordered(Message(m))
         /\ \A y \in BytesOf(Message(m)) : y[1] = m
<1>1. MsgLen \in Nat /\ Message(m) \in Seq(Byte) /\ Len(Message(m)) = MsgLen
  BY SizesAssumption, MessageType DEF Message
<1>2. \A i \in 1 .. MsgLen : Message(m)[i] = <<m, i>>
  BY DEF Message
<1>3. Ordered(Message(m))
  BY <1>1, <1>2 DEF Ordered, Before
<1>4. ASSUME NEW y \in BytesOf(Message(m)) PROVE y[1] = m
  <2>1. PICK i \in 1 .. MsgLen : y = Message(m)[i]
    BY <1>1, BytesOfSeq
  <2> QED
    BY <1>2, <2>1
<1> QED
  BY <1>1, <1>3, <1>4

(* Every byte that a Send has still to store.                                  *)
Unsent == UNION {BytesOf(rest[t]) : t \in Callers}

LEMMA SendMoves ==
  ASSUME TypeOK, BytesApart, NEW t \in Callers, Send(t)
  PROVE  BytesApart' /\ Stored' = Stored
<1> DEFINE m == sends + 1
<1>1. /\ UNCHANGED <<queue, inflight, wire, lost>> /\ sends' = m
      /\ rest' = [rest EXCEPT ![t] = Message(m)]
  BY DEF Send, bufferVars, writeVars
<1>2. sends \in Nat /\ m \in Nat /\ rest \in [Callers -> Seq(Byte)]
  BY DEF TypeOK, CountTypes, UserTypes, Byte
<1>3. Stream' = Stream /\ BytesOf(Stream)' = BytesOf(Stream) /\ Stored' = Stored
  BY <1>1 DEF Stream, Stored, BytesOf
<1>4. rest'[t] = Message(m) /\ \A u \in Callers : u # t => rest'[u] = rest[u]
  BY <1>1, <1>2
<1>5. Stored \subseteq Byte /\ \A x \in Byte : x[1] \in Nat
  BY StreamType DEF Byte
<1>6. \A u \in Callers : BytesOf(rest[u]) \subseteq Byte
  BY <1>2, BytesOfSeq
<1>7. /\ Ordered(Message(m)) /\ \A y \in BytesOf(Message(m)) : y[1] = m
  BY <1>2, MessageFits
<1> HIDE DEF m
<1>8. sends < m
  BY <1>2 DEF m
<1>9. \A x \in Stored, y \in BytesOf(Message(m)) : Before(x, y)
  <2>1. \A x \in Stored : x[1] <= sends /\ x[1] \in Nat
    BY <1>5 DEF BytesApart
  <2>2. \A x \in Stored : x[1] # m
    BY <1>2, <1>8, <2>1
  <2> QED
    BY <1>7, <2>2 DEF Before
<1>10. ASSUME NEW u \in Callers, u # t, NEW y \in BytesOf(rest[u]) PROVE y[1] # m /\ y[1] <= m
  <2>1. y[1] <= sends /\ y[1] \in Nat
    BY <1>5, <1>6, <1>10 DEF BytesApart
  <2> QED
    BY <1>2, <1>8, <2>1
<1>11. \A x \in Stored : x[1] <= m
  <2>1. \A x \in Stored : x[1] <= sends /\ x[1] \in Nat
    BY <1>5 DEF BytesApart
  <2> QED
    BY <1>2, <1>8, <2>1
<1>12. Ordered(Stream)' /\ BytesOf(Stream)' \cap lost' = {}
  BY <1>1, <1>3 DEF BytesApart, Ordered
<1>13. ASSUME NEW u \in Callers
       PROVE  /\ Ordered(rest[u])'
              /\ \A x \in Stored, y \in BytesOf(rest'[u]) : Before(x, y)
              /\ \A y \in BytesOf(rest'[u]) : y[1] <= m
  <2>1. CASE u = t
    <3>1. \A y \in BytesOf(Message(m)) : y[1] <= m
      BY <1>2, <1>7
    <3> QED
      BY <1>4, <1>7, <1>9, <2>1, <3>1 DEF Ordered
  <2>2. CASE u # t
    BY <1>4, <1>10, <2>2 DEF BytesApart, Ordered
  <2> QED
    BY <2>1, <2>2
<1>14. ASSUME NEW u \in Callers, NEW v \in Callers, u # v,
              NEW x \in BytesOf(rest'[u]), NEW y \in BytesOf(rest'[v])
       PROVE  x[1] # y[1]
  <2>1. CASE u = t
    BY <1>4, <1>7, <1>10, <1>14, <2>1
  <2>2. CASE v = t
    BY <1>4, <1>7, <1>10, <1>14, <2>2
  <2>3. CASE u # t /\ v # t
    BY <1>4, <1>14, <2>3 DEF BytesApart
  <2> QED
    BY <2>1, <2>2, <2>3
<1> QED
  BY <1>1, <1>3, <1>11, <1>12, <1>13, <1>14 DEF BytesApart, BytesOf

(* A part of a message goes from its Send into the buffer.                     *)
LEMMA SendWriteMoves ==
  ASSUME TypeOK, BytesApart, NEW t \in Callers, SendWrite(t)
  PROVE  BytesApart' /\ (Stored \cup Unsent)' = Stored \cup Unsent
<1> DEFINE n == Buffer!Accepted(queue, Len(rest[t]))
           given == SubSeq(rest[t], 1, n)
           left == SubSeq(rest[t], n + 1, Len(rest[t]))
<1>1. /\ queue' = queue \o given /\ rest' = [rest EXCEPT ![t] = left]
      /\ UNCHANGED <<inflight, wire, lost, sends>>
  BY DEF SendWrite, Remainder, writeVars, countVars
<1>2. /\ rest \in [Callers -> Seq(Byte)] /\ rest[t] \in Seq(Byte) /\ queue \in Seq(Byte)
      /\ Len(queue) <= Capacity /\ wire \o FlattenSeq(inflight) \in Seq(Byte)
      /\ Stream \in Seq(Byte) /\ Stored \subseteq Byte
  BY StreamType DEF TypeOK, UserTypes, BufferTypes, Byte
<1>3. given \in Seq(Byte) /\ left \in Seq(Byte) /\ rest[t] = given \o left
  <2>1. n \in Nat /\ n <= Len(rest[t]) /\ Len(rest[t]) \in Nat
    BY <1>2, AcceptedBounds, LenProperties
  <2> HIDE DEF n
  <2>2. given \in Seq(Byte) /\ left \in Seq(Byte)
    BY <1>2, <2>1, PartType
  <2> QED
    BY <1>2, <2>1, <2>2, SplitFits
<1> HIDE DEF given, left
<1>4. Stream' = Stream \o given
  <2>1. PICK ahead \in Seq(Byte) : ahead = wire \o FlattenSeq(inflight)
    BY <1>2
  <2>2. Stream = ahead \o queue /\ Stream' = ahead \o (queue \o given)
    BY <1>1, <2>1 DEF Stream
  <2>a. ASSUME NEW a \in Seq(Byte), NEW b \in Seq(Byte), NEW c \in Seq(Byte)
        PROVE  (a \o b) \o c = a \o (b \o c)
    BY ConcatAssociative, SMTT(30)
  <2>3. (ahead \o queue) \o given = ahead \o (queue \o given)
    BY <1>2, <1>3, <2>a
  <2> QED
    BY <2>2, <2>3
<1>5. rest'[t] = left /\ \A u \in Callers : u # t => rest'[u] = rest[u]
  BY <1>1, <1>2
<1>6. /\ BytesOf(rest[t]) = BytesOf(given) \cup BytesOf(left)
      /\ Ordered(given) /\ Ordered(left)
      /\ \A x \in BytesOf(given), y \in BytesOf(left) : Before(x, y)
  <2>1. Ordered(rest[t])
    BY DEF BytesApart
  <2> QED
    BY <1>3, <2>1, ConcatFits
<1>7. \A x \in Stored, y \in BytesOf(rest[t]) : Before(x, y)
  BY DEF BytesApart
<1>8. BytesOf(Stream') = BytesOf(Stream) \cup BytesOf(given) /\ Ordered(Stream')
  <2>1. Ordered(Stream) /\ \A x \in BytesOf(Stream), y \in BytesOf(given) : Before(x, y)
    BY <1>6, <1>7 DEF BytesApart, Stored
  <2> QED
    BY <1>2, <1>3, <1>4, <1>6, <2>1, ConcatFits
<1>9. Stored' = Stored \cup BytesOf(given)
  <2>1. BytesOf(Stream)' = BytesOf(Stream')
    BY DEF BytesOf
  <2> QED
    BY <1>1, <1>8, <2>1 DEF Stored
<1>10. BytesOf(Stream') \cap lost = {}
  <2>1. ASSUME NEW x \in BytesOf(given), x \in lost PROVE FALSE
    <3>1. Before(x, x)
      BY <1>6, <1>7, <2>1 DEF Stored
    <3>2. x \in Byte
      BY <1>3, BytesOfSeq
    <3> QED
      BY <3>1, <3>2, BeforeApart
  <2> QED
    BY <1>8, <2>1 DEF BytesApart
<1>11. ASSUME NEW u \in Callers, u # t, NEW x \in BytesOf(given), NEW y \in BytesOf(rest[u])
       PROVE  Before(x, y)
  <2>1. x[1] # y[1]
    BY <1>6, <1>11 DEF BytesApart
  <2> QED
    BY <2>1 DEF Before
<1>12. ASSUME NEW u \in Callers
       PROVE  /\ Ordered(rest[u])'
              /\ \A x \in Stored', y \in BytesOf(rest'[u]) : Before(x, y)
              /\ \A y \in BytesOf(rest'[u]) : y[1] <= sends
              /\ BytesOf(rest'[u]) \subseteq BytesOf(rest[u])
  <2>1. CASE u = t
    <3>1. \A y \in BytesOf(rest[t]) : y[1] <= sends
      BY DEF BytesApart
    <3> QED
      BY <1>5, <1>6, <1>7, <1>9, <2>1, <3>1 DEF Ordered
  <2>2. CASE u # t
    BY <1>5, <1>9, <1>11, <2>2 DEF BytesApart, Ordered
  <2> QED
    BY <2>1, <2>2
<1>13. \A x \in Stored' : x[1] <= sends
  BY <1>6, <1>9 DEF BytesApart
<1>14. \A u, v \in Callers : u # v =>
         \A x \in BytesOf(rest'[u]), y \in BytesOf(rest'[v]) : x[1] # y[1]
  BY <1>12 DEF BytesApart
<1>15. BytesApart'
  BY <1>1, <1>8, <1>10, <1>12, <1>13, <1>14 DEF BytesApart, BytesOf, Ordered
<1>16. (Stored \cup Unsent)' = Stored \cup Unsent
  <2>1. Unsent' = UNION {BytesOf(rest'[u]) : u \in Callers}
    BY DEF Unsent, BytesOf
  <2>2. ASSUME NEW x \in Unsent' PROVE x \in Unsent
    BY <1>12, <2>1, <2>2 DEF Unsent
  <2>3. BytesOf(given) \subseteq Unsent
    BY <1>6 DEF Unsent
  <2>4. ASSUME NEW x \in Unsent PROVE x \in Stored' \/ x \in Unsent'
    <3>1. PICK u \in Callers : x \in BytesOf(rest[u])
      BY <2>4 DEF Unsent
    <3>2. CASE u = t
      BY <1>5, <1>6, <1>9, <2>1, <3>1, <3>2
    <3>3. CASE u # t
      BY <1>5, <2>1, <3>1, <3>3
    <3> QED
      BY <3>2, <3>3
  <2> QED
    BY <1>9, <2>2, <2>3, <2>4
<1> QED
  BY <1>15, <1>16

(* A Send that returns has nothing left to store, but after a Close.           *)
LEMMA SendReturnMoves ==
  ASSUME TypeOK, BytesApart, RestsFit, NEW t \in Callers, SendReturn(t)
  PROVE  BytesApart' /\ Stored' = Stored /\ (isuseraskforclosed \/ Unsent' = Unsent)
<1>1. /\ UNCHANGED <<queue, inflight, wire, lost, sends>> /\ pc[t] = "sendWake"
      /\ rest' = [rest EXCEPT ![t] = <<>>]
  BY DEF SendReturn, At, bufferVars, writeVars, countVars
<1>2. rest \in [Callers -> Seq(Byte)]
  BY DEF TypeOK, UserTypes, Byte
<1>3. rest'[t] = <<>> /\ \A u \in Callers : u # t => rest'[u] = rest[u]
  BY <1>1, <1>2
<1>4. Stream' = Stream /\ BytesOf(Stream)' = BytesOf(Stream) /\ Stored' = Stored
  BY <1>1 DEF Stream, Stored, BytesOf
<1>5. \A u \in Callers : BytesOf(rest'[u]) \subseteq BytesOf(rest[u]) /\ Ordered(rest'[u])
  BY <1>3, BytesOfEmpty DEF BytesApart
<1>6. BytesApart'
  BY <1>1, <1>4, <1>5 DEF BytesApart, BytesOf, Ordered
<1>7. ASSUME ~isuseraskforclosed PROVE Unsent' = Unsent
  <2>1. rest[t] = <<>>
    BY <1>1, <1>7 DEF RestsFit
  <2>2. rest' = rest
    BY <1>1, <1>2, <2>1
  <2> QED
    BY <2>2 DEF Unsent
<1> QED
  BY <1>4, <1>6, <1>7

(* What the other steps leave alone.                                           *)
LEMMA OthersMoveNothing ==
  ASSUME [Next]_vars, ~DrainWrite, ~AfterSend, \A t \in Callers : ~Send(t),
         \A t \in Callers : ~SendWrite(t), \A t \in Callers : ~SendReturn(t)
  PROVE  UNCHANGED <<queue, inflight, wire, lost, rest, sends>>
BY DEF Next, UserStep, OwnerStep, LoopStep, AfterConnect, SendInl, TimerFires,
       SendCheck, Close, CloseAsk, CloseReturn, ConnectClosed, ConnectOpen, ConnectWaited,
       ConnectTimeout, ConnectReturn, DestroyJoin, AfterConnectOk, AfterConnectFail,
       PeerCloses, AfterRecvData, AfterRecvEnd, DrainEnd, AsyncCB,
       ReconnectTimerDuringAttempt, ReconnectTimer, CloseTcp, CloseAsync, CloseTimer,
       LoopReturns, RunEnds, UserUnchanged, vars, userVars, bufferVars, writeVars, countVars

LEMMA RestsFitStep ==
  ASSUME TypeOK, RestsFit, [Next]_vars
  PROVE  RestsFit' /\ (isuseraskforclosed => isuseraskforclosed')
<1>1. /\ pc \in [Callers -> {"idle", "closeAsk", "closeWake"} \cup SendStates
                            \cup ConnectStates \cup DestroyStates]
      /\ rest \in [Callers -> Seq(Byte)] /\ Owner \in Callers
  BY CallersAssumption DEF TypeOK, UserTypes, Byte
<1>2. ASSUME NEW t \in Callers, NEW place, NEW left,
             pc' = [pc EXCEPT ![t] = place], rest' = [rest EXCEPT ![t] = left],
             place \notin SendStates => left = <<>>,
             place = "sendWake" => isuseraskforclosed \/ left = <<>>,
             isuseraskforclosed => isuseraskforclosed'
      PROVE  RestsFit'
  <2>1. pc'[t] = place /\ rest'[t] = left
    BY <1>1, <1>2
  <2>2. \A u \in Callers : u # t => pc'[u] = pc[u] /\ rest'[u] = rest[u]
    BY <1>1, <1>2
  <2> QED
    BY <1>2, <2>1, <2>2 DEF RestsFit
<1>3. ASSUME NEW t \in Callers, NEW place, pc' = [pc EXCEPT ![t] = place], rest' = rest,
             pc[t] \notin SendStates, place \notin SendStates,
             isuseraskforclosed => isuseraskforclosed'
      PROVE  RestsFit'
  <2>1. rest[t] = <<>> /\ rest' = [rest EXCEPT ![t] = rest[t]] /\ place # "sendWake"
    BY <1>1, <1>3 DEF RestsFit, SendStates
  <2> QED
    BY <1>2, <1>3, <2>1
<1>4. ASSUME UNCHANGED <<pc, rest>>, isuseraskforclosed => isuseraskforclosed'
      PROVE  RestsFit'
  BY <1>4 DEF RestsFit
<1>5. ASSUME NEW t \in Callers, Send(t)
      PROVE  RestsFit' /\ (isuseraskforclosed => isuseraskforclosed')
  <2>1. /\ pc' = [pc EXCEPT ![t] = "sendCheck"] /\ rest' = [rest EXCEPT ![t] = Message(sends + 1)]
        /\ isuseraskforclosed' = isuseraskforclosed
    BY <1>5 DEF Send, Goto, fieldVars
  <2> QED
    BY <1>2, <2>1 DEF SendStates
<1>6. ASSUME NEW t \in Callers, SendCheck(t)
      PROVE  RestsFit' /\ (isuseraskforclosed => isuseraskforclosed')
  <2>1. /\ pc' = [pc EXCEPT ![t] = IF isuseraskforclosed THEN "sendWake" ELSE "sendWrite"]
        /\ rest' = [rest EXCEPT ![t] = rest[t]] /\ isuseraskforclosed' = isuseraskforclosed
    BY <1>1, <1>6 DEF SendCheck, Goto, fieldVars
  <2> QED
    BY <1>2, <2>1 DEF SendStates
<1>7. ASSUME NEW t \in Callers, SendWrite(t)
      PROVE  RestsFit' /\ (isuseraskforclosed => isuseraskforclosed')
  <2> DEFINE n == Buffer!Accepted(queue, Len(rest[t]))
             left == SubSeq(rest[t], n + 1, Len(rest[t]))
             place == IF n < Len(rest[t]) THEN "sendCheck" ELSE "sendWake"
  <2>1. /\ pc' = [pc EXCEPT ![t] = place] /\ rest' = [rest EXCEPT ![t] = left]
        /\ isuseraskforclosed' = isuseraskforclosed
    BY <1>7 DEF SendWrite, Remainder, Goto, fieldVars
  <2>2. place \in SendStates
    BY DEF SendStates
  <2>3. place = "sendWake" => left = <<>>
    <3>1. rest[t] \in Seq(Byte) /\ Len(rest[t]) \in Nat /\ queue \in Seq(Byte)
          /\ Len(queue) <= Capacity
      BY <1>1, LenProperties DEF TypeOK, BufferTypes, Byte
    <3>2. n \in Nat
      BY <3>1, AcceptedBounds
    <3>3. place = "sendWake" => n + 1 > Len(rest[t])
      BY <3>1, <3>2
    <3> HIDE DEF n
    <3>4. n + 1 > Len(rest[t]) => left = <<>>
      BY <3>1, <3>2, SubSeqEmpty
    <3> QED
      BY <3>3, <3>4
  <2> HIDE DEF place, left
  <2> QED
    BY <1>2, <2>1, <2>2, <2>3
<1>8. ASSUME NEW t \in Callers, SendReturn(t)
      PROVE  RestsFit' /\ (isuseraskforclosed => isuseraskforclosed')
  <2>1. /\ pc' = [pc EXCEPT ![t] = "idle"] /\ rest' = [rest EXCEPT ![t] = <<>>]
        /\ isuseraskforclosed' = isuseraskforclosed
    BY <1>8 DEF SendReturn, Goto, fieldVars
  <2> QED
    BY <1>2, <2>1
<1>9. ASSUME NEW t \in Callers, Close(t) \/ CloseAsk(t) \/ CloseReturn(t)
      PROVE  RestsFit' /\ (isuseraskforclosed => isuseraskforclosed')
  <2>1. /\ \E place \in {"closeAsk", "closeWake", "destroyAsk", "destroyJoin", "destroyWake", "idle"} :
             pc' = [pc EXCEPT ![t] = place]
        /\ rest' = rest
    BY <1>9 DEF Close, CloseAsk, CloseReturn, Goto
  <2>2. pc[t] \notin SendStates
    BY <1>9 DEF Close, CloseAsk, CloseReturn, MayCall, At, SendStates
  <2>3. isuseraskforclosed => isuseraskforclosed'
    <3>1. CASE Close(t)
      BY <3>1, Zenon DEF Close, fieldVars
    <3>2. CASE CloseAsk(t)
      BY <3>2, Zenon DEF CloseAsk
    <3>3. CASE CloseReturn(t)
      BY <3>3, Zenon DEF CloseReturn, fieldVars
    <3> QED
      BY <1>9, <3>1, <3>2, <3>3
  <2> QED
    BY <1>3, <2>1, <2>2, <2>3 DEF SendStates
<1>10. ASSUME OwnerStep
       PROVE  RestsFit' /\ (isuseraskforclosed => isuseraskforclosed')
  <2>1. /\ rest' = rest /\ isuseraskforclosed' = isuseraskforclosed
        /\ \/ pc' = pc
           \/ /\ pc[Owner] \notin SendStates
              /\ \E place \in {"connectWait", "connectTimeout", "connectCheck", "idle", "gone"} :
                   pc' = [pc EXCEPT ![Owner] = place]
    BY <1>10 DEF OwnerStep, ConnectClosed, ConnectOpen, ConnectWaited, ConnectTimeout,
       ConnectReturn, DestroyJoin, MayCall, At, Goto, SendStates, fieldVars
  <2> QED
    BY <1>1, <1>3, <1>4, <2>1 DEF SendStates
<1>11. ASSUME LoopStep \/ PeerCloses \/ UNCHANGED vars
       PROVE  RestsFit' /\ (isuseraskforclosed => isuseraskforclosed')
  <2>1. UNCHANGED <<pc, rest, isuseraskforclosed>>
    BY <1>11 DEF LoopStep, AfterConnect, AfterSend, SendInl, TimerFires, AfterConnectOk,
       AfterConnectFail, PeerCloses, AfterRecvData, AfterRecvEnd, AfterSendOk,
       AfterSendError, DrainWrite, DrainEnd, AsyncCB, ReconnectTimerDuringAttempt,
       ReconnectTimer, CloseTcp, CloseAsync, CloseTimer, LoopReturns, RunEnds,
       UserUnchanged, vars, userVars, fieldVars
  <2> QED
    BY <1>4, <2>1
<1> QED
  BY <1>5, <1>6, <1>7, <1>8, <1>9, <1>10, <1>11 DEF Next, UserStep

(* The invariant of the bytes, and that none of them vanishes.                 *)
StreamInv == BytesApart /\ RestsFit /\ NothingVanishes

LEMMA StreamInit == Init => StreamInv
<1> SUFFICES ASSUME Init PROVE StreamInv
  OBVIOUS
<1>1. /\ wire = <<>> /\ inflight = <<>> /\ queue = <<>> /\ lost = {} /\ sends = 0
      /\ rest = [t \in Callers |-> <<>>] /\ pc = [t \in Callers |-> "idle"]
  BY DEF Init
<1>2. Stream = <<>>
  <2>1. <<>> \o <<>> = <<>>
    BY EmptySeq, ConcatEmptySeq
  <2> QED
    BY <1>1, <2>1, FlattenEmpty DEF Stream
<1>3. Stored = {} /\ Ordered(Stream) /\ \A t \in Callers : rest[t] = <<>>
  BY <1>1, <1>2, BytesOfEmpty DEF Stored
<1>4. BytesApart
  BY <1>1, <1>3, BytesOfEmpty DEF BytesApart, Stored
<1>5. RestsFit
  BY <1>1, <1>3 DEF RestsFit
<1>6. NothingVanishes
  BY <1>1 DEF NothingVanishes
<1> QED
  BY <1>4, <1>5, <1>6 DEF StreamInv

(* The bytes of a message are where they were, or one place further.           *)
LEMMA NothingVanishesStep ==
  ASSUME TypeOK, StreamInv, [Next]_vars, isuseraskforclosed => isuseraskforclosed',
         Stored \cup Unsent \subseteq (Stored \cup Unsent)' \/ isuseraskforclosed,
         \/ sends' = sends
         \/ sends' = sends + 1 /\ BytesOf(Message(sends + 1)) \subseteq Unsent'
  PROVE  NothingVanishes'
<1> SUFFICES ASSUME ~isuseraskforclosed', NEW m \in 1 .. sends'
             PROVE  BytesOf(Message(m)) \subseteq (Stored \cup Unsent)'
  BY DEF NothingVanishes, Stored, Unsent, BytesOf, Message
<1>1. sends \in Nat
  BY DEF TypeOK, CountTypes
<1>2. CASE m \in 1 .. sends
  <2>1. BytesOf(Message(m)) \subseteq Stored \cup Unsent
    BY <1>2 DEF StreamInv, NothingVanishes, Stored, Unsent
  <2> QED
    BY <2>1
<1>3. CASE m \notin 1 .. sends
  <2>1. m = sends + 1 /\ BytesOf(Message(sends + 1)) \subseteq Unsent'
    BY <1>1, <1>3
  <2> QED
    BY <2>1
<1> QED
  BY <1>2, <1>3

LEMMA StreamStep ==
  ASSUME TypeOK, StreamInv, [Next]_vars
  PROVE  StreamInv'
<1> USE DEF StreamInv
<1>1. RestsFit' /\ (isuseraskforclosed => isuseraskforclosed')
  BY RestsFitStep
<1>2. CASE DrainWrite \/ AfterSend
  <2>1. BytesApart' /\ Stored' = Stored
    BY <1>2, DrainWriteMoves, AfterSendMoves
  <2>2. rest' = rest /\ sends' = sends
    BY <1>2 DEF DrainWrite, AfterSend, AfterSendOk, AfterSendError, UserUnchanged,
       userVars, countVars
  <2>3. Unsent' = Unsent
    BY <2>2 DEF Unsent
  <2> QED
    BY <1>1, <2>1, <2>2, <2>3, NothingVanishesStep
<1>3. ASSUME NEW t \in Callers, Send(t) PROVE StreamInv'
  <2>1. BytesApart' /\ Stored' = Stored
    BY <1>3, SendMoves
  <2>2. /\ sends' = sends + 1 /\ rest[t] = <<>>
        /\ rest' = [rest EXCEPT ![t] = Message(sends + 1)]
    BY <1>3 DEF Send, MayCall, At, RestsFit, SendStates
  <2>3. rest'[t] = Message(sends + 1) /\ \A u \in Callers : u # t => rest'[u] = rest[u]
    BY <2>2 DEF TypeOK, UserTypes
  <2>4. Unsent' = UNION {BytesOf(rest'[u]) : u \in Callers}
    BY DEF Unsent, BytesOf
  <2>5. BytesOf(Message(sends + 1)) \subseteq Unsent'
    BY <2>3, <2>4
  <2>6. Unsent \subseteq Unsent'
    <3>1. \A u \in Callers : BytesOf(rest[u]) \subseteq BytesOf(rest'[u])
      BY <2>2, <2>3, BytesOfEmpty
    <3> QED
      BY <2>4, <3>1 DEF Unsent
  <2> QED
    BY <1>1, <2>1, <2>2, <2>5, <2>6, NothingVanishesStep
<1>4. ASSUME NEW t \in Callers, SendWrite(t) PROVE StreamInv'
  <2>1. BytesApart' /\ (Stored \cup Unsent)' = Stored \cup Unsent
    BY <1>4, SendWriteMoves
  <2>2. sends' = sends
    BY <1>4 DEF SendWrite, countVars
  <2> QED
    BY <1>1, <2>1, <2>2, NothingVanishesStep
<1>5. ASSUME NEW t \in Callers, SendReturn(t) PROVE StreamInv'
  <2>1. BytesApart' /\ Stored' = Stored /\ (isuseraskforclosed \/ Unsent' = Unsent)
    BY <1>5, SendReturnMoves
  <2>2. sends' = sends
    BY <1>5 DEF SendReturn, countVars
  <2> QED
    BY <1>1, <2>1, <2>2, NothingVanishesStep
<1>6. CASE UNCHANGED <<queue, inflight, wire, lost, rest, sends>>
  <2>1. Stream' = Stream /\ Unsent' = Unsent
    BY <1>6 DEF Stream, Unsent
  <2>2. BytesApart' /\ Stored' = Stored
    BY <1>6, <2>1, BytesMove
  <2> QED
    BY <1>1, <1>6, <2>1, <2>2, NothingVanishesStep
<1> QED
  BY <1>2, <1>3, <1>4, <1>5, <1>6, OthersMoveNothing

LEMMA StreamInvariant == Spec => []StreamInv
<1>1. TypeOK /\ StreamInv /\ [Next]_vars => StreamInv'
  BY StreamStep
<1> QED
  BY <1>1, StreamInit, TypeCorrect, PTL DEF Spec

(* No byte is written twice, and those of a message stay in order, from Send   *)
(* through the buffer and the writes to their completion.                      *)
THEOREM StreamStaysIntact == Spec => []StreamIntact
<1>1. TypeOK /\ StreamInv => StreamIntact
  <2> SUFFICES ASSUME TypeOK, StreamInv PROVE StreamIntact
    OBVIOUS
  <2>1. Stream \in Seq(Byte) /\ DOMAIN Stream = 1 .. Len(Stream)
    BY StreamType, LenProperties
  <2>2. \A i, j \in DOMAIN Stream :
          i < j /\ Stream[i][1] = Stream[j][1] => Stream[i][2] < Stream[j][2]
    BY <2>1 DEF StreamInv, BytesApart, Ordered, Before
  <2>3. BytesOf(Stream) \cap lost = {}
    BY DEF StreamInv, BytesApart
  <2>4. ASSUME NEW t \in Callers, NEW x \in BytesOf(rest[t]), x \in BytesOf(Stream) PROVE FALSE
    <3>1. Before(x, x)
      BY <2>4 DEF StreamInv, BytesApart, Stored
    <3>2. x \in Byte
      BY <2>1, <2>4, BytesOfSeq
    <3> QED
      BY <3>1, <3>2, BeforeApart
  <2> QED
    BY <2>2, <2>3, <2>4 DEF StreamIntact
<1> QED
  BY <1>1, TypeCorrect, StreamInvariant, PTL

(* Until Close cuts the Sends short, a byte given to Send is on its way, was   *)
(* dropped by a failed write, or has still to be stored.                       *)
THEOREM NoByteVanishes == Spec => []NothingVanishes
BY StreamInvariant, PTL DEF StreamInv

--------------------------------------------------------------------------------
(* What closing takes.                                                         *)

(* The work that is left is a number, whatever the condition of each part.     *)
LEMMA WorkIs ==
  ASSUME TypeOK
  PROVE  /\ Len(queue) \in Nat /\ Len(inflight) \in Nat
         /\ WorkLeft \in Nat
  BY DEF TypeOK, BufferTypes, WriteTypes, LoopTypes, WorkLeft

LEMMA WorkIsThen == TypeOK' => WorkLeft' \in Nat
  BY DEF TypeOK, BufferTypes, WriteTypes, LoopTypes, WorkLeft

(* What a turn of send_inl takes out of the buffer is not nothing.             *)
LEMMA DrainTakes ==
  ASSUME TypeOK, DrainWrite
  PROVE  Len(queue') < Len(queue) /\ Len(queue') \in Nat
<1> DEFINE n == Buffer!Available(queue, Capacity)
<1>1. queue \in Seq(Byte) /\ queue # <<>> /\ queue' = SubSeq(queue, n + 1, Len(queue))
  BY DEF TypeOK, BufferTypes, DrainWrite, Byte
<1>2. Len(queue) \in Nat /\ Len(queue) > 0
  BY <1>1, EmptySeq, LenProperties
<1>3. n \in Nat /\ n <= Len(queue) /\ n > 0
  BY <1>1, <1>2, AvailableBounds, SizesAssumption DEF Buffer!Available, Buffer!Lesser
<1> HIDE DEF n
<1>4. Len(queue') = IF n + 1 <= Len(queue) THEN Len(queue) - (n + 1) + 1 ELSE 0
  BY <1>1, <1>2, <1>3, PartType
<1> QED
  BY <1>2, <1>3, <1>4

(* Every callback of a client that is closing takes something off.             *)
LEMMA CallbackTakes ==
  ASSUME TypeOK, IInv, ClosingDown, LoopStep
  PROVE  WorkLeft' < WorkLeft
<1> USE DEF TypeOK, LoopTypes, TcpTypes, FieldTypes, IInv, HandlesExist,
        HandlesCloseTogether, RequestsFit, ReconnectNeedsOpen, ReconnectHasNextStep,
        ClosingDown, WorkLeft, fieldVars, bufferVars, asyncVars, tcpVars, writeVars,
        UserUnchanged, LoopAt
<1>0. Len(queue) \in Nat /\ Len(inflight) \in Nat
  BY WorkIs
<1>1. CASE AfterConnect
  BY <1>0, <1>1 DEF AfterConnect, AfterConnectOk, AfterConnectFail
<1>2. CASE AfterRecvData \/ AfterRecvEnd
  BY <1>2 DEF AfterRecvData, AfterRecvEnd
<1>3. CASE AfterSend
  <2>1. Len(inflight') = Len(inflight) - 1
    BY <1>3, <1>0, HeadTailProperties DEF AfterSend, AfterSendOk, AfterSendError, WriteTypes
  <2> QED
    BY <1>0, <1>3, <2>1 DEF AfterSend, AfterSendOk, AfterSendError
<1>4. CASE DrainWrite
  <2>1. Len(queue') < Len(queue) /\ Len(queue') \in Nat
    BY <1>4, DrainTakes
  <2>2. UNCHANGED <<inflight, loop, async, asyncSent, tcp, connectPending, timer>>
    BY <1>4 DEF DrainWrite, Writable
  <2> QED
    BY <1>0, <2>1, <2>2
<1>5. CASE DrainEnd
  BY <1>0, <1>5 DEF DrainEnd
<1>6. CASE AsyncCB
  BY <1>0, <1>6 DEF AsyncCB
<1>7. CASE TimerFires
  BY <1>7 DEF TimerFires, ReconnectTimer, ReconnectTimerDuringAttempt
<1>8. CASE CloseTcp
  <2>1. UNCHANGED <<queue, inflight, loop, async, asyncSent, connectPending, timer>>
    BY <1>8 DEF CloseTcp, RetryAfterClose
  <2>2. tcp = "closing" /\ tcp' = "closed"
    BY <1>8 DEF CloseTcp
  <2> QED
    BY <1>0, <2>1, <2>2
<1>9. CASE CloseAsync \/ CloseTimer
  BY <1>0, <1>9 DEF CloseAsync, CloseTimer
<1>10. CASE LoopReturns
  BY <1>0, <1>10 DEF LoopReturns
<1>11. CASE RunEnds
  BY <1>0, <1>11 DEF RunEnds
<1> QED
  BY <1>1, <1>2, <1>3, <1>4, <1>5, <1>6, <1>7, <1>8, <1>9, <1>10, <1>11 DEF LoopStep, SendInl

(* The threads and the peer add nothing, but for a Send that was under way.    *)
LEMMA ThreadsAddNothing ==
  ASSUME TypeOK, IInv, ClosingDown, [Next]_vars, ~LoopStep,
         \A t \in Callers : ~SendWrite(t)
  PROVE  WorkLeft' <= WorkLeft
<1> USE DEF TypeOK, LoopTypes, TcpTypes, IInv, HandlesExist,
        HandlesCloseTogether, RequestsFit, ReconnectNeedsOpen,
        ClosingDown, WorkLeft, userVars, fieldVars, bufferVars, asyncVars, tcpVars, writeVars
<1>0. Len(queue) \in Nat /\ Len(inflight) \in Nat
  BY WorkIs
<1>1. ASSUME NEW t \in Callers, UserStep(t) PROVE WorkLeft' <= WorkLeft
  BY <1>0, <1>1 DEF UserStep, Send, SendCheck, SendReturn, WakeAfterWrite, Close,
     CloseAsk, CloseReturn, WakeForClose, AsyncSend
<1>2. CASE ConnectClosed
  BY <1>2 DEF ConnectClosed
<1>3. CASE ConnectOpen
  BY <1>0, <1>3 DEF ConnectOpen, CloseInl, Closing
<1>4. CASE ConnectWaited \/ ConnectTimeout \/ ConnectReturn \/ DestroyJoin
  BY <1>0, <1>4 DEF ConnectWaited, ConnectTimeout, ConnectReturn, DestroyJoin
<1>5. CASE PeerCloses
  BY <1>5 DEF PeerCloses
<1>6. CASE UNCHANGED vars
  BY <1>0, <1>6 DEF vars
<1> QED
  BY <1>1, <1>2, <1>3, <1>4, <1>5, <1>6 DEF Next, OwnerStep

(* A client that closes comes nearer to its end with every callback, and no    *)
(* callback, no thread and no peer puts the end off, but a Send that was under *)
(* way: the loop runs as many callbacks as there is work left, and no more.    *)
THEOREM ClosingNeverTurnsBack == Spec => ClosingProgresses
<1>1. ASSUME TypeOK, IInv, [Next]_vars, ClosingDown
      PROVE  /\ LoopStep => WorkLeft' < WorkLeft
             /\ WorkLeft' > WorkLeft => \E t \in Callers : SendWrite(t)
  <2>1. LoopStep => WorkLeft' < WorkLeft
    BY <1>1, CallbackTakes
  <2>2. ~LoopStep /\ (\A t \in Callers : ~SendWrite(t)) => WorkLeft' <= WorkLeft
    BY <1>1, ThreadsAddNothing
  <2>3. WorkLeft \in Nat
    BY <1>1, WorkIs
  <2>4. TypeOK'
    BY <1>1, TypeUser, TypeOwner, TypeLoop, TypePeer, TypeStutter DEF Next
  <2>5. WorkLeft' \in Nat
    BY <2>4, WorkIsThen
  <2> QED
    BY <2>1, <2>2, <2>3, <2>5
<1>2. TypeOK /\ IInv /\ [Next]_vars =>
        [ClosingDown => /\ LoopStep => WorkLeft' < WorkLeft
                        /\ WorkLeft' > WorkLeft => \E t \in Callers : SendWrite(t)]_vars
  BY <1>1
<1> QED
  BY <1>2, TypeCorrect, Invariant, PTL DEF Spec, ClosingProgresses

--------------------------------------------------------------------------------
(* Wakeups.                                                                    *)

(* Before the first Connect nothing has happened, and until there is a second  *)
(* one only Close closes the handles.                                          *)
FirstLife ==
  /\ connects = 0 => /\ isclosed /\ loop = "none" /\ async = "none" /\ queue = <<>>
                     /\ \A t \in Callers : pc[t] \notin SendStates
  /\ HasThread /\ connects = 1 /\ ~isuseraskforclosed => async = "open"

WakeInv == FirstLife /\ NoWakeupLost

LEMMA WakeInit == Init => WakeInv
BY DEF Init, WakeInv, FirstLife, NoWakeupLost, HasThread, SendStates

LEMMA WakeUser ==
  ASSUME TypeOK, IInv, WakeInv, NEW t \in Callers, UserStep(t)
  PROVE  WakeInv'
<1>1. /\ pc \in [Callers -> {"idle", "closeAsk", "closeWake"} \cup SendStates
                            \cup ConnectStates \cup DestroyStates]
  BY DEF TypeOK, UserTypes
<1>2. ASSUME NEW place, pc' = [pc EXCEPT ![t] = place]
      PROVE  pc'[t] = place /\ \A u \in Callers : u # t => pc'[u] = pc[u]
  BY <1>1, <1>2
<1> USE DEF TypeOK, LoopTypes, WakeInv, FirstLife, NoWakeupLost, HasThread, MayCall, At, Goto
<1>3. CASE Send(t)
  <2>1. async # "none" /\ connects # 0
    BY <1>3 DEF Send
  <2>2. UNCHANGED <<queue, loop, connects, isuseraskforclosed, isclosed>>
    BY <1>3 DEF Send, fieldVars, bufferVars
  <2>3. async' = async /\ (asyncSent' \/ halted' # "no")
    BY <1>3 DEF Send, AsyncSend, asyncVars
  <2> QED
    BY <2>1, <2>2, <2>3
<1>4. CASE SendCheck(t)
  <2>1. pc[t] \in SendStates /\ pc'[t] \in SendStates
    BY <1>2, <1>4 DEF SendCheck, SendStates
  <2>2. UNCHANGED <<queue, loop, connects, isuseraskforclosed, isclosed, async, asyncSent, halted>>
    BY <1>4 DEF SendCheck, fieldVars, bufferVars, asyncVars, countVars
  <2> QED
    BY <2>1, <2>2
<1>5. CASE SendWrite(t)
  <2>1. pc[t] \in SendStates /\ pc'[t] \in SendStates
    BY <1>2, <1>5 DEF SendWrite, SendStates
  <2>2. UNCHANGED <<loop, connects, isuseraskforclosed, isclosed, async, asyncSent, halted>>
    BY <1>5 DEF SendWrite, fieldVars, asyncVars, countVars
  <2> QED
    BY <2>1, <2>2
<1>6. CASE SendReturn(t)
  <2>1. pc[t] \in SendStates
    BY <1>6 DEF SendReturn, SendStates
  <2>2. UNCHANGED <<queue, loop, connects, isuseraskforclosed, isclosed>>
    BY <1>6 DEF SendReturn, fieldVars, bufferVars, countVars
  <2>3. async' = async /\ (asyncSent' \/ halted' # "no")
    BY <1>6 DEF SendReturn, WakeAfterWrite, AsyncSend, asyncVars
  <2> QED
    BY <2>1, <2>2, <2>3
<1>7. CASE Close(t)
  <2>1. UNCHANGED <<queue, loop, connects, isclosed, isuseraskforclosed, async, asyncSent,
                    halted>>
    BY <1>7 DEF Close, fieldVars, bufferVars, asyncVars, countVars
  <2>3. pc[t] = "idle" /\ \E place \in {"closeAsk", "destroyJoin", "destroyAsk"} :
                            pc' = [pc EXCEPT ![t] = place]
    BY <1>7 DEF Close
  <2>4. \A u \in Callers : pc'[u] \in SendStates <=> pc[u] \in SendStates
    BY <1>2, <2>3 DEF SendStates
  <2> QED
    BY <2>1, <2>4
<1>8. CASE CloseAsk(t)
  <2>1. UNCHANGED <<queue, loop, connects, isclosed, async, asyncSent, halted>>
    BY <1>8 DEF CloseAsk, bufferVars, asyncVars, countVars
  <2>2. isuseraskforclosed' = TRUE
    BY <1>8 DEF CloseAsk
  <2>3. pc[t] \notin SendStates /\ \E place \in {"closeWake", "destroyWake"} :
                                     pc' = [pc EXCEPT ![t] = place]
    BY <1>8 DEF CloseAsk, SendStates
  <2>4. \A u \in Callers : pc'[u] \in SendStates <=> pc[u] \in SendStates
    BY <1>2, <2>3 DEF SendStates
  <2> QED
    BY <2>1, <2>2, <2>4
<1>9. CASE CloseReturn(t)
  <2>1. UNCHANGED <<queue, loop, connects, isclosed, isuseraskforclosed, async>>
    BY <1>9 DEF CloseReturn, WakeForClose, AsyncSend, fieldVars, bufferVars, asyncVars, countVars
  <2>2. asyncSent' \/ halted' # "no"
    BY <1>9 DEF CloseReturn, WakeForClose, AsyncSend
  <2>3. pc[t] \notin SendStates /\ \E place \in {"destroyJoin", "idle"} :
                                     pc' = [pc EXCEPT ![t] = place]
    BY <1>9 DEF CloseReturn, SendStates
  <2>4. \A u \in Callers : pc'[u] \in SendStates <=> pc[u] \in SendStates
    BY <1>2, <2>3 DEF SendStates
  <2> QED
    BY <2>1, <2>2, <2>4
<1> QED
  BY <1>3, <1>4, <1>5, <1>6, <1>7, <1>8, <1>9 DEF UserStep

LEMMA WakeOwner ==
  ASSUME TypeOK, IInv, WakeInv, OwnerStep
  PROVE  WakeInv'
<1>1. /\ pc \in [Callers -> {"idle", "closeAsk", "closeWake"} \cup SendStates
                            \cup ConnectStates \cup DestroyStates]
      /\ Owner \in Callers /\ connects \in Nat
  BY CallersAssumption DEF TypeOK, UserTypes, CountTypes
<1>2. \A t \in Callers : pc'[t] \in SendStates <=> pc[t] \in SendStates
  <2>1. \/ pc' = pc
        \/ /\ pc[Owner] \notin SendStates
           /\ \E place \in {"connectWait", "connectTimeout", "connectCheck", "idle", "gone"} :
                pc' = [pc EXCEPT ![Owner] = place]
    BY DEF OwnerStep, ConnectClosed, ConnectOpen, ConnectWaited, ConnectTimeout,
       ConnectReturn, DestroyJoin, MayCall, At, Goto, SendStates
  <2> QED
    BY <1>1, <2>1 DEF SendStates
<1> USE DEF TypeOK, LoopTypes, WakeInv, FirstLife, NoWakeupLost, HasThread, fieldVars,
        bufferVars, asyncVars, countVars
<1>3. CASE ConnectClosed
  <2>1. connects' = connects + 1 /\ async' = "open" /\ queue' = queue
        /\ isuseraskforclosed' = isuseraskforclosed
    BY <1>3 DEF ConnectClosed
  <2>2. connects = 0 => queue = <<>>
    OBVIOUS
  <2> QED
    BY <1>1, <2>1, <2>2
<1>4. CASE ConnectOpen
  <2>1. connects' = connects + 1 /\ ~isclosed
    BY <1>4 DEF ConnectOpen
  <2>2. connects' > 1
    BY <1>1, <2>1
  <2> QED
    BY <2>2
<1>5. CASE ConnectWaited \/ ConnectTimeout \/ ConnectReturn \/ DestroyJoin
  <2>1. /\ UNCHANGED <<queue, loop, connects, isclosed, isuseraskforclosed, async, asyncSent>>
        /\ halted # "no" => halted' # "no"
    BY <1>5 DEF ConnectWaited, ConnectTimeout, ConnectReturn, DestroyJoin, At
  <2> QED
    BY <1>2, <2>1
<1> QED
  BY <1>3, <1>4, <1>5 DEF OwnerStep

LEMMA WakeLoop ==
  ASSUME TypeOK, IInv, WakeInv, LoopStep \/ PeerCloses \/ UNCHANGED vars
  PROVE  WakeInv'
<1> USE DEF TypeOK, LoopTypes, WakeInv, FirstLife, NoWakeupLost, HasThread, LoopAt,
        UserUnchanged, userVars, fieldVars, bufferVars, asyncVars, countVars
<1>1. CASE AfterConnect
  BY <1>1 DEF AfterConnect, AfterConnectOk, AfterConnectFail
<1>2. CASE AfterRecvData \/ AfterRecvEnd
  BY <1>2 DEF AfterRecvData, AfterRecvEnd
<1>3. CASE AfterSend
  BY <1>3 DEF AfterSend, AfterSendOk, AfterSendError
<1>4. CASE SendInl
  BY <1>4 DEF SendInl, DrainWrite, DrainEnd
<1>5. CASE AsyncCB
  BY <1>5 DEF AsyncCB, CloseInl
<1>6. CASE TimerFires
  BY <1>6 DEF TimerFires, ReconnectTimer, ReconnectTimerDuringAttempt
<1>7. CASE CloseTcp \/ CloseAsync \/ CloseTimer
  BY <1>7 DEF CloseTcp, CloseAsync, CloseTimer
<1>8. CASE LoopReturns
  BY <1>8 DEF LoopReturns, LoopAlive
<1>9. CASE RunEnds
  BY <1>9 DEF RunEnds, IInv, HandlesExist
<1>10. CASE PeerCloses
  BY <1>10 DEF PeerCloses
<1>11. CASE UNCHANGED vars
  BY <1>11 DEF vars
<1> QED
  BY <1>1, <1>2, <1>3, <1>4, <1>5, <1>6, <1>7, <1>8, <1>9, <1>10, <1>11 DEF LoopStep

LEMMA WakeInvariant == Spec => []WakeInv
<1>1. TypeOK /\ IInv /\ WakeInv /\ [Next]_vars => WakeInv'
  BY WakeUser, WakeOwner, WakeLoop DEF Next
<1> QED
  BY WakeInit, <1>1, TypeCorrect, Invariant, PTL DEF Spec

(* Bytes never wait in the buffer of a client that has connected once with     *)
(* nobody on the way to take them out.                                         *)
THEOREM WakeupsAreNotLost == Spec => []NoWakeupLost
BY WakeInvariant, PTL DEF WakeInv

--------------------------------------------------------------------------------
(* The client as a pipe.                                                       *)

(* A part of a sequence of bytes.                                              *)
LEMMA PartIs ==
  ASSUME NEW w, NEW first \in Nat, NEW last \in Nat, \A i \in first .. last : w[i] \in Byte
  PROVE  /\ SubSeq(w, first, last) \in Seq(Byte)
         /\ Len(SubSeq(w, first, last)) = IF first <= last THEN last - first + 1 ELSE 0
         /\ \A i \in 1 .. last - first + 1 : SubSeq(w, first, last)[i] = w[first + i - 1]
BY SubSeqProperties

(* Cutting a sequence where it was put together.                               *)
LEMMA CutApart ==
  ASSUME NEW a \in Seq(Byte), NEW b \in Seq(Byte), NEW c \in Seq(Byte),
         NEW w, w = (a \o b) \o c
  PROVE  /\ w \in Seq(Byte) /\ Len(w) = Len(a) + Len(b) + Len(c)
         /\ SubSeq(w, 1, Len(a)) = a
         /\ SubSeq(w, Len(a) + 1, Len(a) + Len(b)) = b
         /\ SubSeq(w, Len(a) + Len(b) + 1, Len(w)) = c
<1> DEFINE m == Len(a)
           n == Len(b)
           p == Len(c)
<1>1. m \in Nat /\ n \in Nat /\ p \in Nat
  BY LenProperties
<1>2. /\ a \o b \in Seq(Byte) /\ Len(a \o b) = m + n
      /\ \A i \in 1 .. m + n : (a \o b)[i] = IF i <= m THEN a[i] ELSE b[i - m]
  BY ConcatProperties
<1>3. /\ w \in Seq(Byte) /\ Len(w) = (m + n) + p
      /\ \A i \in 1 .. (m + n) + p : w[i] = IF i <= m + n THEN (a \o b)[i] ELSE c[i - (m + n)]
  BY <1>2, ConcatProperties
<1>a. DOMAIN a = 1 .. m /\ DOMAIN b = 1 .. n /\ DOMAIN c = 1 .. p
  BY LenProperties
<1> HIDE DEF m, n, p
<1>b. ASSUME NEW s \in Seq(Byte), NEW first \in Nat \ {0}, NEW last \in Nat, first <= last + 1,
             last <= Len(w), Len(s) = last - first + 1,
             \A i \in 1 .. Len(s) : w[first + i - 1] = s[i]
      PROVE  SubSeq(w, first, last) = s
  <2>0. w \in Seq(Byte) /\ Len(w) \in Nat
    BY <1>3, LenProperties
  <2>1. \A i \in first .. last : w[i] \in Byte
    <3>1. ASSUME NEW i \in first .. last PROVE i \in 1 .. Len(w)
      BY <1>b, <2>0
    <3> QED
      BY <2>0, <3>1, ElementOfSeq
  <2>2. /\ SubSeq(w, first, last) \in Seq(Byte)
        /\ Len(SubSeq(w, first, last)) = IF first <= last THEN last - first + 1 ELSE 0
        /\ \A i \in 1 .. last - first + 1 : SubSeq(w, first, last)[i] = w[first + i - 1]
    BY <2>1, PartIs
  <2>3. Len(SubSeq(w, first, last)) = Len(s)
    BY <1>b, <2>2
  <2> QED
    BY <1>b, <2>2, <2>3, SeqEqual
<1>4. SubSeq(w, 1, m) = a
  <2>1. \A i \in 1 .. m : w[1 + i - 1] = a[i]
    BY <1>1, <1>2, <1>3
  <2> QED
    BY <1>1, <1>3, <1>b, <2>1 DEF m
<1>5. SubSeq(w, m + 1, m + n) = b
  <2>1. \A i \in 1 .. n : w[(m + 1) + i - 1] = b[i]
    <3>1. ASSUME NEW i \in 1 .. n PROVE w[(m + 1) + i - 1] = b[i]
      <4>1. (m + 1) + i - 1 \in 1 .. m + n /\ ~((m + 1) + i - 1 <= m) /\ ((m + 1) + i - 1) - m = i
        BY <1>1
      <4>2. (a \o b)[(m + 1) + i - 1] = b[i]
        BY <1>2, <4>1
      <4>3. /\ (m + 1) + i - 1 \in 1 .. (m + n) + p /\ (m + 1) + i - 1 <= m + n
        BY <1>1, <4>1
      <4> QED
        BY <1>3, <4>2, <4>3
    <3> QED
      BY <3>1
  <2>2. /\ m + 1 \in Nat \ {0} /\ m + n \in Nat /\ m + 1 <= (m + n) + 1
        /\ m + n <= Len(w) /\ Len(b) = (m + n) - (m + 1) + 1
    BY <1>1, <1>3 DEF n
  <2>3. Len(b) = n
    BY DEF n
  <2> QED
    BY <1>b, <2>1, <2>2, <2>3
<1>6. SubSeq(w, m + n + 1, (m + n) + p) = c
  <2>1. ASSUME NEW i \in 1 .. p PROVE w[(m + n + 1) + i - 1] = c[i]
    <3>1. (m + n + 1) + i - 1 \in 1 .. (m + n) + p /\ ~((m + n + 1) + i - 1 <= m + n)
          /\ ((m + n + 1) + i - 1) - (m + n) = i
      BY <1>1
    <3> QED
      BY <1>3, <3>1
  <2> QED
    BY <1>1, <1>3, <1>b, <2>1 DEF p
<1> QED
  BY <1>3, <1>4, <1>5, <1>6 DEF m, n, p

(* The places of a message whose bytes Send has stored at some time.           *)
TakenOf(m) == {k \in 1 .. MsgLen : <<m, k>> \in Stored}

(* The bytes of message m behind the first k.                                  *)
Remains(m, k) == [i \in 1 .. MsgLen - k |-> <<m, k + i>>]

(* What a Send has still to store is what its message lacks.                   *)
SendsContinue ==
  /\ sends <= MaxSends
  /\ \A t \in Callers : rest[t] # <<>> =>
       \E m \in 1 .. sends, k \in 0 .. MsgLen :
         rest[t] = Remains(m, k) /\ TakenOf(m) = 1 .. k

LEMMA ContinueInit == Init => SendsContinue
  BY BoundsAssumption DEF Init, SendsContinue

(* A part of what is left, and the rest of it.                                 *)
LEMMA RemainsCut ==
  ASSUME NEW m \in Nat, NEW k \in 0 .. MsgLen, NEW n \in 0 .. MsgLen - k
  PROVE  /\ Remains(m, k) \in Seq(Byte) /\ Len(Remains(m, k)) = MsgLen - k
         /\ SubSeq(Remains(m, k), 1, n) = [i \in 1 .. n |-> <<m, k + i>>]
         /\ SubSeq(Remains(m, k), n + 1, MsgLen - k) = Remains(m, k + n)
<1>1. MsgLen \in Nat
  BY SizesAssumption
<1> DEFINE s == Remains(m, k)
<1>2. s \in Seq(Byte) /\ Len(s) = MsgLen - k /\ \A i \in 1 .. MsgLen - k : s[i] = <<m, k + i>>
  <2>1. s \in [1 .. MsgLen - k -> Byte]
    BY <1>1 DEF Remains, Byte
  <2>2. MsgLen - k \in Nat
    BY <1>1
  <2>3. ASSUME NEW len \in Nat, NEW f \in [1 .. len -> Byte] PROVE f \in Seq(Byte) /\ Len(f) = len
    OBVIOUS
  <2>4. s \in Seq(Byte) /\ Len(s) = MsgLen - k
    <3> HIDE DEF s
    <3> QED
      BY <2>1, <2>2, <2>3
  <2>5. \A i \in 1 .. MsgLen - k : s[i] = <<m, k + i>>
    BY DEF Remains
  <2> QED
    BY <2>4, <2>5
<1> HIDE DEF s
<1>3. SubSeq(s, 1, n) = [i \in 1 .. n |-> <<m, k + i>>]
  BY <1>1, <1>2
<1>4. SubSeq(s, n + 1, MsgLen - k) = [i \in 1 .. MsgLen - (k + n) |-> <<m, (k + n) + i>>]
  <2>1. SubSeq(s, n + 1, MsgLen - k) = [i \in 1 .. (MsgLen - k) - (n + 1) + 1 |-> s[(n + 1) + i - 1]]
    BY <1>1, <1>2
  <2>2. (MsgLen - k) - (n + 1) + 1 = MsgLen - (k + n)
    BY <1>1
  <2>3. ASSUME NEW i \in 1 .. MsgLen - (k + n)
        PROVE  s[(n + 1) + i - 1] = <<m, (k + n) + i>>
    <3>1. (n + 1) + i - 1 \in 1 .. MsgLen - k /\ k + ((n + 1) + i - 1) = (k + n) + i
      BY <1>1
    <3> QED
      BY <1>2, <3>1
  <2> QED
    BY <2>1, <2>2, <2>3
<1> QED
  BY <1>2, <1>3, <1>4 DEF s, Remains

(* What SendWrite stores.                                                      *)
LEMMA SendWriteStores ==
  ASSUME TypeOK, NEW t \in Callers, SendWrite(t)
  PROVE  \E n \in Nat :
           /\ n <= Len(rest[t])
           /\ queue' = queue \o SubSeq(rest[t], 1, n)
           /\ rest' = [rest EXCEPT ![t] = SubSeq(rest[t], n + 1, Len(rest[t]))]
           /\ UNCHANGED <<inflight, wire, lost, sends, tcp, peerGone>>
           /\ Stored' = Stored \cup BytesOf(SubSeq(rest[t], 1, n))
<1> DEFINE n == Buffer!Accepted(queue, Len(rest[t]))
           given == SubSeq(rest[t], 1, n)
<1>1. /\ queue' = queue \o given
      /\ rest' = [rest EXCEPT ![t] = SubSeq(rest[t], n + 1, Len(rest[t]))]
      /\ UNCHANGED <<inflight, wire, lost, sends, tcp, peerGone>>
  BY DEF SendWrite, Remainder, writeVars, countVars, tcpVars
<1>2. rest[t] \in Seq(Byte) /\ Len(rest[t]) \in Nat /\ queue \in Seq(Byte) /\ Len(queue) <= Capacity
      /\ wire \o FlattenSeq(inflight) \in Seq(Byte) /\ Stream \in Seq(Byte)
  BY StreamType, LenProperties DEF TypeOK, BufferTypes
<1>3. n \in Nat /\ n <= Len(rest[t])
  BY <1>2, AcceptedBounds
<1> HIDE DEF n
<1>4. given \in Seq(Byte)
  BY <1>2, <1>3, PartType
<1> HIDE DEF given
<1>5. Stream' = Stream \o given
  <2>1. PICK ahead \in Seq(Byte) : ahead = wire \o FlattenSeq(inflight)
    BY <1>2
  <2>2. Stream = ahead \o queue /\ Stream' = ahead \o (queue \o given)
    BY <1>1, <2>1 DEF Stream
  <2>3. (ahead \o queue) \o given = ahead \o (queue \o given)
    BY <1>2, <1>4, ConcatAssociative, SMTT(30)
  <2> QED
    BY <2>2, <2>3
<1>6. BytesOf(Stream') = BytesOf(Stream) \cup BytesOf(given)
  BY <1>2, <1>4, <1>5, ConcatFits
<1>7. Stored' = Stored \cup BytesOf(given)
  <2>1. BytesOf(Stream)' = BytesOf(Stream')
    BY DEF BytesOf
  <2> QED
    BY <1>1, <1>6, <2>1 DEF Stored
<1> QED
  BY <1>1, <1>3, <1>7 DEF given

(* The bytes SendWrite stores are the next ones of its message.                *)
LEMMA WriteContinues ==
  ASSUME TypeOK, BytesApart, SendsContinue, NEW t \in Callers, SendWrite(t)
  PROVE  /\ SendsContinue'
         /\ \/ queue' = queue
            \/ \E m \in 1 .. sends, first, last \in 1 .. MsgLen :
                 /\ TakenOf(m) = 1 .. first - 1 /\ first <= last
                 /\ queue' = queue \o [i \in 1 .. last - first + 1 |-> <<m, first + i - 1>>]
<1>1. PICK n \in Nat :
        /\ n <= Len(rest[t])
        /\ queue' = queue \o SubSeq(rest[t], 1, n)
        /\ rest' = [rest EXCEPT ![t] = SubSeq(rest[t], n + 1, Len(rest[t]))]
        /\ UNCHANGED <<inflight, wire, lost, sends, tcp, peerGone>>
        /\ Stored' = Stored \cup BytesOf(SubSeq(rest[t], 1, n))
  BY SendWriteStores
<1>2. /\ rest \in [Callers -> Seq(Byte)] /\ rest[t] \in Seq(Byte) /\ queue \in Seq(Byte)
      /\ sends \in Nat /\ MsgLen \in Nat
  BY StreamType, SizesAssumption DEF TypeOK, UserTypes, Byte
<1>3. CASE rest[t] = <<>>
  <2>1. n = 0
    BY <1>1, <1>3
  <2>2. SubSeq(rest[t], 1, n) = <<>> /\ SubSeq(rest[t], n + 1, Len(rest[t])) = <<>>
    BY <1>3, <2>1
  <2>a. queue \o <<>> = queue
    BY <1>2, ConcatEmptySeq
  <2>b. [rest EXCEPT ![t] = <<>>] = rest
    BY <1>2, <1>3
  <2>3. queue' = queue /\ rest' = rest /\ Stored' = Stored
    BY <1>1, <2>2, <2>a, <2>b, BytesOfEmpty
  <2>4. SendsContinue'
    <3>1. \A m \in 1 .. sends : TakenOf(m)' = TakenOf(m)
      BY <2>3 DEF TakenOf
    <3>2. rest' = rest /\ sends' = sends
      BY <1>1, <2>3
    <3> QED
      BY <3>1, <3>2 DEF SendsContinue
  <2> QED
    BY <2>3, <2>4
<1>4. CASE rest[t] # <<>>
  <2>1. PICK m \in 1 .. sends, k \in 0 .. MsgLen : rest[t] = Remains(m, k) /\ TakenOf(m) = 1 .. k
    BY <1>4 DEF SendsContinue
  <2>2. m \in Nat /\ n \in 0 .. MsgLen - k /\ Len(rest[t]) = MsgLen - k
    <3>0. m \in Nat /\ 0 \in 0 .. MsgLen - k
      BY <1>2, <2>1
    <3>1. Len(rest[t]) = MsgLen - k
      BY <2>1, <3>0, RemainsCut
    <3> QED
      BY <1>1, <1>2, <2>1, <3>1
  <2> DEFINE given == [i \in 1 .. n |-> <<m, k + i>>]
  <2>3. /\ SubSeq(rest[t], 1, n) = given
        /\ SubSeq(rest[t], n + 1, Len(rest[t])) = Remains(m, k + n)
    <3>1. k \in 0 .. MsgLen
      BY <2>1
    <3>2. /\ SubSeq(Remains(m, k), 1, n) = given
          /\ SubSeq(Remains(m, k), n + 1, MsgLen - k) = Remains(m, k + n)
      BY <2>2, <3>1, RemainsCut
    <3> QED
      BY <2>1, <2>2, <3>2
  <2>4. BytesOf(given) = {<<m, k + i>> : i \in 1 .. n}
    BY DEF BytesOf
  <2>5. Stored' = Stored \cup {<<m, k + i>> : i \in 1 .. n}
    BY <1>1, <2>3, <2>4
  <2>6. TakenOf(m)' = 1 .. k + n
    <3>1. ASSUME NEW j \in 1 .. MsgLen PROVE <<m, j>> \in Stored' <=> j \in 1 .. k + n
      <4>1. <<m, j>> \in Stored <=> j \in 1 .. k
        BY <2>1 DEF TakenOf
      <4>2. (\E i \in 1 .. n : <<m, j>> = <<m, k + i>>) <=> j \in k + 1 .. k + n
        <5>1. ASSUME j \in k + 1 .. k + n PROVE \E i \in 1 .. n : <<m, j>> = <<m, k + i>>
          <6>1. j - k \in 1 .. n /\ k + (j - k) = j
            BY <1>2, <2>2, <5>1
          <6> QED
            BY <6>1
        <5>2. ASSUME NEW i \in 1 .. n, <<m, j>> = <<m, k + i>> PROVE j \in k + 1 .. k + n
          <6>1. j = k + i
            BY <5>2
          <6> QED
            BY <1>2, <2>2, <6>1
        <5> QED
          BY <5>1, <5>2
      <4>3. j \in 1 .. k + n <=> j \in 1 .. k \/ j \in k + 1 .. k + n
        BY <1>2, <2>2
      <4> QED
        BY <2>5, <4>1, <4>2, <4>3
    <3>2. 1 .. k + n \subseteq 1 .. MsgLen
      BY <1>2, <2>2
    <3> QED
      BY <3>1, <3>2 DEF TakenOf
  <2>7. rest'[t] = Remains(m, k + n) /\ \A u \in Callers : u # t => rest'[u] = rest[u]
    BY <1>1, <1>2, <2>3
  <2>8. ASSUME NEW u \in Callers, u # t, rest[u] # <<>>
        PROVE  \E o \in 1 .. sends, j \in 0 .. MsgLen :
                 rest'[u] = Remains(o, j) /\ TakenOf(o)' = 1 .. j
    <3>1. PICK o \in 1 .. sends, j \in 0 .. MsgLen : rest[u] = Remains(o, j) /\ TakenOf(o) = 1 .. j
      BY <2>8 DEF SendsContinue
    <3>2. o # m
      <4>1. /\ rest[t] \in Seq(Byte) /\ rest[u] \in Seq(Byte)
            /\ 1 \in 1 .. Len(rest[t]) /\ 1 \in 1 .. Len(rest[u])
        BY <1>2, <1>4, <2>8, EmptySeq, LenProperties
      <4>2. rest[t][1] \in BytesOf(rest[t]) /\ rest[u][1] \in BytesOf(rest[u])
        BY <4>1, BytesOfSeq
      <4>3. Len(rest[u]) = MsgLen - j
        <5>1. o \in Nat /\ 0 \in 0 .. MsgLen - j
          BY <1>2, <3>1
        <5> QED
          BY <3>1, <5>1, RemainsCut
      <4>4. rest[t][1] = <<m, k + 1>> /\ rest[u][1] = <<o, j + 1>>
        BY <2>1, <2>2, <3>1, <4>1, <4>3 DEF Remains
      <4>5. rest[t][1][1] # rest[u][1][1]
        BY <2>8, <4>2 DEF BytesApart
      <4> QED
        BY <4>4, <4>5
    <3>3. TakenOf(o)' = TakenOf(o)
      BY <2>5, <3>2 DEF TakenOf
    <3> QED
      BY <2>7, <2>8, <3>1, <3>3
  <2>9. SendsContinue'
    <3>1. k + n \in 0 .. MsgLen
      BY <1>2, <2>2
    <3>2. sends' = sends
      BY <1>1
    <3>3. sends' <= MaxSends
      BY <3>2 DEF SendsContinue
    <3>4. ASSUME NEW u \in Callers, rest'[u] # <<>>
          PROVE  \E o \in 1 .. sends', j \in 0 .. MsgLen :
                   rest'[u] = Remains(o, j) /\ TakenOf(o)' = 1 .. j
      <4>1. CASE u = t
        BY <2>6, <2>7, <3>1, <3>2, <4>1
      <4>2. CASE u # t
        BY <2>7, <2>8, <3>2, <3>4, <4>2
      <4> QED
        BY <4>1, <4>2
    <3> QED
      BY <3>3, <3>4 DEF SendsContinue, Remains
  <2>10. CASE n = 0
    <3>1. given = <<>>
      BY <2>10
    <3>2. queue' = queue
      BY <1>1, <1>2, <2>3, <3>1, ConcatEmptySeq
    <3> QED
      BY <2>9, <3>2
  <2>11. CASE n # 0
    <3>1. /\ k + 1 \in 1 .. MsgLen /\ k + n \in 1 .. MsgLen /\ k + 1 <= k + n
          /\ (k + 1) - 1 = k /\ (k + n) - (k + 1) + 1 = n
      BY <1>2, <2>2, <2>11
    <3>2. given = [i \in 1 .. (k + n) - (k + 1) + 1 |-> <<m, (k + 1) + i - 1>>]
      <4>1. \A i \in 1 .. n : (k + 1) + i - 1 = k + i
        BY <2>2
      <4> QED
        BY <3>1, <4>1
    <3>3. TakenOf(m) = 1 .. (k + 1) - 1
      BY <2>1, <3>1
    <3>4. queue' = queue \o given
      BY <1>1, <2>3
    <3> HIDE DEF given
    <3> QED
      BY <2>9, <3>1, <3>2, <3>3, <3>4
  <2> QED
    BY <2>10, <2>11
<1> QED
  BY <1>3, <1>4

(* A message that Send begins with has nothing stored of it yet.               *)
LEMMA SendContinues ==
  ASSUME TypeOK, BytesApart, SendsContinue, NEW t \in Callers, Send(t)
  PROVE  SendsContinue'
<1>1. /\ UNCHANGED <<queue, inflight, wire, lost>> /\ sends' = sends + 1 /\ sends < MaxSends
      /\ rest' = [rest EXCEPT ![t] = Message(sends + 1)]
  BY DEF Send, bufferVars, writeVars
<1>2. /\ sends \in Nat /\ MaxSends \in Nat /\ MsgLen \in Nat
      /\ rest \in [Callers -> Seq(Byte)] /\ Stored \subseteq Byte
  BY StreamType, BoundsAssumption, SizesAssumption DEF TypeOK, UserTypes, Byte
<1>3. Stored' = Stored
  BY <1>1 DEF Stored, Stream, BytesOf
<1>4. rest'[t] = Message(sends + 1) /\ \A u \in Callers : u # t => rest'[u] = rest[u]
  BY <1>1, <1>2
<1>5. rest'[t] = Remains(sends + 1, 0)
  <2>1. MsgLen - 0 = MsgLen /\ \A i \in 1 .. MsgLen : 0 + i = i
    BY <1>2
  <2> QED
    BY <1>4, <2>1 DEF Message, Remains
<1>6. TakenOf(sends + 1) = 1 .. 0
  <2>1. \A k \in 1 .. MsgLen : <<sends + 1, k>> \notin Stored
    <3>1. ASSUME NEW k \in 1 .. MsgLen, <<sends + 1, k>> \in Stored PROVE FALSE
      <4>1. <<sends + 1, k>>[1] <= sends
        BY <3>1 DEF BytesApart
      <4> QED
        BY <1>2, <4>1
    <3> QED
      BY <3>1
  <2> QED
    BY <2>1 DEF TakenOf
<1>7. \A m : TakenOf(m)' = TakenOf(m)
  BY <1>3 DEF TakenOf
<1>8. ASSUME NEW u \in Callers, rest'[u] # <<>>
      PROVE  \E m \in 1 .. sends', k \in 0 .. MsgLen :
               rest'[u] = Remains(m, k) /\ TakenOf(m)' = 1 .. k
  <2>1. CASE u = t
    <3>1. PICK m \in 1 .. sends' : m = sends + 1
      BY <1>1, <1>2
    <3>2. 0 \in 0 .. MsgLen /\ rest'[u] = Remains(m, 0)
      BY <1>2, <1>5, <2>1, <3>1
    <3>3. TakenOf(m)' = 1 .. 0
      BY <1>6, <1>7, <3>1
    <3> QED
      BY <3>2, <3>3
  <2>2. CASE u # t
    <3>1. PICK m \in 1 .. sends, k \in 0 .. MsgLen : rest[u] = Remains(m, k) /\ TakenOf(m) = 1 .. k
      BY <1>4, <1>8, <2>2 DEF SendsContinue
    <3>2. m \in 1 .. sends'
      BY <1>1, <1>2
    <3> QED
      BY <1>4, <1>7, <2>2, <3>1, <3>2
  <2> QED
    BY <2>1, <2>2
<1>9. sends' <= MaxSends
  BY <1>1, <1>2
<1> QED
  BY <1>8, <1>9 DEF SendsContinue, Remains

(* Where nothing more is stored, a Send has what it had, or gives up.          *)
LEMMA OthersContinue ==
  ASSUME TypeOK, SendsContinue, sends' = sends, Stored' = Stored,
         \A t \in Callers : rest'[t] = rest[t] \/ rest'[t] = <<>>
  PROVE  SendsContinue'
<1>1. \A m : TakenOf(m)' = TakenOf(m)
  BY DEF TakenOf
<1>2. \A t \in Callers : rest'[t] # <<>> => rest'[t] = rest[t]
  OBVIOUS
<1> QED
  BY <1>1, <1>2 DEF SendsContinue, Remains

LEMMA ContinueStep ==
  ASSUME TypeOK, StreamInv, SendsContinue, [Next]_vars
  PROVE  SendsContinue'
<1> USE DEF StreamInv
<1>1. CASE DrainWrite \/ AfterSend
  <2>1. Stored' = Stored
    BY <1>1, DrainWriteMoves, AfterSendMoves
  <2>2. rest' = rest /\ sends' = sends
    BY <1>1 DEF DrainWrite, AfterSend, AfterSendOk, AfterSendError, UserUnchanged,
       userVars, countVars
  <2> QED
    BY <2>1, <2>2, OthersContinue
<1>2. ASSUME NEW t \in Callers, Send(t) PROVE SendsContinue'
  BY <1>2, SendContinues
<1>3. ASSUME NEW t \in Callers, SendWrite(t) PROVE SendsContinue'
  BY <1>3, WriteContinues
<1>4. ASSUME NEW t \in Callers, SendReturn(t) PROVE SendsContinue'
  <2>1. Stored' = Stored
    BY <1>4, SendReturnMoves
  <2>2. sends' = sends /\ rest' = [rest EXCEPT ![t] = <<>>]
    BY <1>4 DEF SendReturn, countVars
  <2>3. \A u \in Callers : rest'[u] = rest[u] \/ rest'[u] = <<>>
    BY <2>2 DEF TypeOK, UserTypes
  <2> QED
    BY <2>1, <2>2, <2>3, OthersContinue
<1>5. CASE UNCHANGED <<queue, inflight, wire, lost, rest, sends>>
  <2>1. Stored' = Stored
    BY <1>5 DEF Stored, Stream, BytesOf
  <2> QED
    BY <1>5, <2>1, OthersContinue
<1> QED
  BY <1>1, <1>2, <1>3, <1>4, <1>5, OthersMoveNothing

LEMMA ContinueInvariant == Spec => []SendsContinue
<1>1. TypeOK /\ StreamInv /\ SendsContinue /\ [Next]_vars => SendsContinue'
  BY ContinueStep
<1> QED
  BY <1>1, ContinueInit, TypeCorrect, StreamInvariant, PTL DEF Spec

(* The bytes on their way, and whether there is a connection, as the pipe has  *)
(* them.                                                                       *)
Waiting == FlattenSeq(inflight) \o queue
Connected == tcp = "connected" /\ ~peerGone

LEMMA WaitingType ==
  ASSUME TypeOK
  PROVE  /\ Waiting \in Seq(Byte) /\ Len(Waiting) \in Nat
         /\ \A m : Pipe!Taken(m) = TakenOf(m)
<1>1. /\ wire \in Seq(Byte) /\ FlattenSeq(inflight) \in Seq(Byte) /\ queue \in Seq(Byte)
      /\ wire \o FlattenSeq(inflight) \in Seq(Byte)
  BY StreamType
<1>2. Waiting \in Seq(Byte) /\ Len(Waiting) \in Nat
  BY <1>1, ConcatProperties, LenProperties DEF Waiting
<1>3. /\ BytesOf(Stream) = BytesOf(wire \o FlattenSeq(inflight)) \cup BytesOf(queue)
      /\ BytesOf(wire \o FlattenSeq(inflight)) = BytesOf(wire) \cup BytesOf(FlattenSeq(inflight))
      /\ BytesOf(Waiting) = BytesOf(FlattenSeq(inflight)) \cup BytesOf(queue)
  BY <1>1, ConcatFits DEF Stream, Waiting
<1>4. Stored = (BytesOf(wire) \cup BytesOf(Waiting)) \cup lost
  BY <1>3 DEF Stored
<1> QED
  BY <1>2, <1>4 DEF Pipe!Taken, Pipe!BytesIn, TakenOf, BytesOf, Waiting

PipeStep == [Pipe!Next]_<<Waiting, wire, lost, Connected>>

(* What is dropped is a stretch of what waits, and there is no connection.     *)
LEMMA DropGivesUp ==
  ASSUME NEW a \in Seq(Byte), NEW b \in Seq(Byte), NEW c \in Seq(Byte),
         Waiting = (a \o b) \o c, Waiting' = a \o c, lost' = lost \cup BytesOf(b),
         wire' = wire, Connected' = Connected, ~Connected
  PROVE  PipeStep
<1>1. Len(a) \in Nat /\ Len(b) \in Nat /\ Len(c) \in Nat
  BY LenProperties
<1>2. /\ Len(Waiting) = Len(a) + Len(b) + Len(c)
      /\ SubSeq(Waiting, 1, Len(a)) = a
      /\ SubSeq(Waiting, Len(a) + 1, Len(a) + Len(b)) = b
      /\ SubSeq(Waiting, Len(a) + Len(b) + 1, Len(Waiting)) = c
  BY CutApart
<1>3. CASE b = <<>>
  <2>1. a \o b = a
    BY <1>3, ConcatEmptySeq
  <2>2. BytesOf(b) = {}
    BY <1>3, BytesOfEmpty
  <2> QED
    BY <2>1, <2>2 DEF PipeStep
<1>4. CASE b # <<>>
  <2> DEFINE first == Len(a) + 1
             last == Len(a) + Len(b)
  <2>1. Len(b) > 0
    BY <1>1, <1>4, EmptySeq
  <2>2. first \in 1 .. Len(Waiting) /\ last \in 1 .. Len(Waiting) /\ first <= last /\ first - 1 = Len(a)
    BY <1>1, <1>2, <2>1
  <2>3. /\ Waiting' = SubSeq(Waiting, 1, first - 1) \o SubSeq(Waiting, last + 1, Len(Waiting))
        /\ lost' = lost \cup BytesOf(SubSeq(Waiting, first, last))
    BY <1>2, <2>2
  <2> HIDE DEF first, last
  <2>4. Waiting' # Waiting
    <3>1. Len(a \o c) = Len(a) + Len(c)
      BY ConcatProperties
    <3> QED
      BY <1>1, <1>2, <2>1, <3>1
  <2>5. Pipe!GiveUp
    BY <2>2, <2>3, <2>4 DEF Pipe!GiveUp, Pipe!BytesIn, BytesOf, Waiting, Connected
  <2> QED
    BY <2>5 DEF PipeStep, Pipe!Next
<1> QED
  BY <1>3, <1>4

(* send_inl hands on what waits, or gives it up.                               *)
LEMMA DrainPipes ==
  ASSUME TypeOK, DrainWrite
  PROVE  PipeStep
<1> DEFINE n == Buffer!Available(queue, Capacity)
           chunk == SubSeq(queue, 1, n)
           left == SubSeq(queue, n + 1, Len(queue))
<1>1. /\ queue' = left /\ UNCHANGED <<wire, tcp, peerGone>>
      /\ \/ inflight' = Append(inflight, chunk) /\ lost' = lost
         \/ inflight' = inflight /\ lost' = lost \cup BytesOf(chunk) /\ tcp # "connected"
  BY DEF DrainWrite, Writable, tcpVars
<1>2. inflight \in Seq(Seq(Byte)) /\ queue \in Seq(Byte) /\ FlattenSeq(inflight) \in Seq(Byte)
  BY StreamType
<1>3. chunk \in Seq(Byte) /\ left \in Seq(Byte) /\ queue = chunk \o left
  <2>1. n \in Nat /\ n <= Len(queue) /\ Len(queue) \in Nat
    BY <1>2, AvailableBounds, LenProperties
  <2> HIDE DEF n
  <2>2. chunk \in Seq(Byte) /\ left \in Seq(Byte)
    BY <1>2, <2>1, PartType
  <2> QED
    BY <1>2, <2>1, <2>2, SplitFits
<1> HIDE DEF chunk, left
<1>4. Waiting = (FlattenSeq(inflight) \o chunk) \o left
  BY <1>2, <1>3, ConcatAssociative, SMTT(30) DEF Waiting
<1>5. Connected' = Connected
  BY <1>1 DEF Connected
<1>6. CASE inflight' = Append(inflight, chunk) /\ lost' = lost
  <2>1. FlattenSeq(inflight') = FlattenSeq(inflight) \o chunk
    BY <1>2, <1>3, <1>6, FlattenAppend
  <2>2. Waiting' = Waiting
    BY <1>1, <1>4, <2>1 DEF Waiting
  <2> QED
    BY <1>1, <1>5, <1>6, <2>2 DEF PipeStep
<1>7. CASE inflight' = inflight /\ lost' = lost \cup BytesOf(chunk) /\ tcp # "connected"
  <2>1. Waiting' = FlattenSeq(inflight) \o left
    BY <1>1, <1>7 DEF Waiting
  <2>2. ~Connected
    BY <1>7 DEF Connected
  <2> QED
    BY <1>1, <1>2, <1>3, <1>4, <1>5, <1>7, <2>1, <2>2, DropGivesUp
<1> QED
  BY <1>1, <1>6, <1>7

(* AfterSend delivers the oldest bytes that wait, or gives them up.            *)
LEMMA AfterSendPipes ==
  ASSUME TypeOK, AfterSend
  PROVE  PipeStep
<1> DEFINE T == Seq(Byte)
           first == Head(inflight)
           others == FlattenSeq(Tail(inflight))
           behind == others \o queue
<1>1. /\ inflight # <<>> /\ inflight' = Tail(inflight) /\ UNCHANGED <<queue, tcp, peerGone>>
      /\ \/ wire' = wire \o first /\ lost' = lost
         \/ wire' = wire /\ lost' = lost \cup BytesOf(first) /\ (tcp = "closing" \/ peerGone)
  BY DEF AfterSend, AfterSendOk, AfterSendError, UserUnchanged, tcpVars
<1>2. wire \in Seq(Byte) /\ inflight \in Seq(T) /\ queue \in Seq(Byte)
  BY StreamType
<1>3. first \in T /\ Tail(inflight) \in Seq(T)
  <2> HIDE DEF T
  <2> QED
    BY <1>1, <1>2, HeadTailProperties
<1>4. others \in Seq(Byte)
  BY <1>3, FlattenType
<1>5. FlattenSeq(inflight) = first \o others /\ FlattenSeq(inflight') = others
  BY <1>1, <1>2, FlattenTail
<1> HIDE DEF T, first, others
<1>6. first \in Seq(Byte)
  BY <1>3 DEF T
<1>7. behind \in Seq(Byte)
  BY <1>2, <1>4, ConcatProperties
<1>8. Waiting = first \o behind
  <2>1. Waiting = (first \o others) \o queue
    BY <1>5 DEF Waiting
  <2> QED
    BY <1>2, <1>4, <1>6, <2>1, ConcatAssociative, SMTT(30)
<1>9. Waiting' = behind
  BY <1>1, <1>5 DEF Waiting
<1>10. Connected' = Connected
  BY <1>1 DEF Connected
<1> HIDE DEF behind
<1>11. <<>> \in Seq(Byte) /\ <<>> \o first = first /\ <<>> \o behind = behind
  BY <1>6, <1>7, ConcatEmptySeq, EmptySeq
<1>12. CASE wire' = wire \o first /\ lost' = lost
  <2>1. /\ Len(<<>>) = 0 /\ Len(first) \in Nat /\ Len(behind) \in Nat
    BY <1>6, <1>7, LenProperties
  <2>2. Waiting = (<<>> \o first) \o behind
    BY <1>8, <1>11
  <2>3. /\ Len(Waiting) = Len(<<>>) + Len(first) + Len(behind)
        /\ SubSeq(Waiting, Len(<<>>) + 1, Len(<<>>) + Len(first)) = first
        /\ SubSeq(Waiting, Len(<<>>) + Len(first) + 1, Len(Waiting)) = behind
    BY <1>6, <1>7, <1>11, <2>2, CutApart
  <2>4. /\ Len(Waiting) = Len(first) + Len(behind)
        /\ SubSeq(Waiting, 1, Len(first)) = first
        /\ SubSeq(Waiting, Len(first) + 1, Len(Waiting)) = behind
    BY <2>1, <2>3
  <2>5. CASE first = <<>>
    <3>1. wire' = wire /\ Waiting' = Waiting
      BY <1>2, <1>8, <1>9, <1>11, <1>12, <2>5, ConcatEmptySeq
    <3> QED
      BY <1>10, <1>12, <3>1 DEF PipeStep
  <2>6. CASE first # <<>>
    <3>1. Len(first) \in 1 .. Len(Waiting)
      BY <1>6, <2>1, <2>4, <2>6, EmptySeq
    <3>2. wire' # wire
      <4>1. Len(wire \o first) = Len(wire) + Len(first) /\ Len(wire) \in Nat
        BY <1>2, <1>6, ConcatProperties, LenProperties
      <4> QED
        BY <1>12, <2>1, <2>4, <3>1, <4>1
    <3>3. Pipe!Deliver
      BY <1>9, <1>10, <1>12, <2>4, <3>1, <3>2 DEF Pipe!Deliver, Waiting, Connected
    <3> QED
      BY <3>3 DEF PipeStep, Pipe!Next
  <2> QED
    BY <2>5, <2>6
<1>13. CASE wire' = wire /\ lost' = lost \cup BytesOf(first) /\ (tcp = "closing" \/ peerGone)
  <2>1. Waiting = (<<>> \o first) \o behind /\ Waiting' = <<>> \o behind
    BY <1>8, <1>9, <1>11
  <2>2. ~Connected
    BY <1>13 DEF Connected
  <2> QED
    BY <1>6, <1>7, <1>10, <1>11, <1>13, <2>1, <2>2, DropGivesUp
<1> QED
  BY <1>1, <1>12, <1>13

(* A Send hands the next bytes of its message to the pipe.                     *)
LEMMA SendWritePipes ==
  ASSUME TypeOK, BytesApart, SendsContinue, NEW t \in Callers, SendWrite(t)
  PROVE  PipeStep
<1>1. UNCHANGED <<inflight, wire, lost, sends, tcp, peerGone>>
  BY DEF SendWrite, writeVars, countVars, tcpVars
<1>2. Connected' = Connected
  BY <1>1 DEF Connected
<1>3. CASE queue' = queue
  BY <1>1, <1>2, <1>3 DEF PipeStep, Waiting
<1>4. CASE \E m \in 1 .. sends, first, last \in 1 .. MsgLen :
             /\ TakenOf(m) = 1 .. first - 1 /\ first <= last
             /\ queue' = queue \o [i \in 1 .. last - first + 1 |-> <<m, first + i - 1>>]
  <2>1. PICK m \in 1 .. sends, first \in 1 .. MsgLen, last \in 1 .. MsgLen :
          /\ TakenOf(m) = 1 .. first - 1 /\ first <= last
          /\ queue' = queue \o [i \in 1 .. last - first + 1 |-> <<m, first + i - 1>>]
    BY <1>4
  <2> DEFINE given == [i \in 1 .. last - first + 1 |-> <<m, first + i - 1>>]
  <2>2. m \in 1 .. MaxSends /\ m \in Nat /\ MsgLen \in Nat
    BY SizesAssumption, BoundsAssumption DEF SendsContinue, TypeOK, CountTypes
  <2>3. given \in Seq(Byte)
    <3>1. last - first + 1 \in Nat /\ \A i \in 1 .. last - first + 1 : <<m, first + i - 1>> \in Byte
      BY <2>1, <2>2 DEF Byte
    <3>2. ASSUME NEW len \in Nat, NEW f \in [1 .. len -> Byte] PROVE f \in Seq(Byte)
      OBVIOUS
    <3>3. given \in [1 .. last - first + 1 -> Byte]
      BY <3>1
    <3> HIDE DEF given
    <3> QED
      BY <3>1, <3>2, <3>3
  <2>4. FlattenSeq(inflight) \in Seq(Byte) /\ queue \in Seq(Byte)
    BY StreamType
  <2>5. Waiting' = Waiting \o given
    <3>1. Waiting' = FlattenSeq(inflight) \o (queue \o given)
      BY <1>1, <2>1 DEF Waiting
    <3> HIDE DEF given
    <3> QED
      BY <2>3, <2>4, <3>1, ConcatAssociative, SMTT(30) DEF Waiting
  <2>6. Pipe!Taken(m) = 1 .. first - 1
    BY <2>1, WaitingType
  <2>7. Waiting' # Waiting => Pipe!Accept
    BY <1>1, <1>2, <2>1, <2>2, <2>5, <2>6 DEF Pipe!Accept, Waiting, Connected
  <2> QED
    BY <1>1, <1>2, <2>7 DEF PipeStep, Pipe!Next
<1> QED
  BY <1>3, <1>4, WriteContinues

(* The other steps make or end the connection, if they do anything to it.      *)
LEMMA OthersPipe ==
  ASSUME UNCHANGED <<queue, inflight, wire, lost>>
  PROVE  PipeStep
<1>1. Waiting' = Waiting
  BY DEF Waiting
<1>2. CASE Connected' = Connected
  BY <1>1, <1>2 DEF PipeStep
<1>3. CASE Connected' # Connected
  <2>1. Connected' = ~Connected
    BY <1>3 DEF Connected
  <2>2. Pipe!Link
    BY <1>1, <2>1 DEF Pipe!Link, Waiting, Connected
  <2> QED
    BY <2>2 DEF PipeStep, Pipe!Next
<1> QED
  BY <1>2, <1>3

(* Through partial stores of any number of threads, the cutting of the buffer  *)
(* into writes and their completions, with and without a connection, the       *)
(* client is a pipe for the bytes of its messages.                             *)
THEOREM ClientIsPipe == Spec => ImplementsPipe
<1>1. Init => Pipe!Init
  <2> SUFFICES ASSUME Init PROVE Pipe!Init
    OBVIOUS
  <2>1. <<>> \o <<>> = <<>>
    BY EmptySeq, ConcatEmptySeq
  <2> QED
    BY <2>1, FlattenEmpty DEF Init, Pipe!Init
<1>2. TypeOK /\ StreamInv /\ SendsContinue /\ [Next]_vars => [Pipe!Next]_Pipe!pipeVars
  <2> SUFFICES ASSUME TypeOK, StreamInv, SendsContinue, [Next]_vars PROVE PipeStep
    BY DEF PipeStep, Pipe!pipeVars, Waiting, Connected
  <2>1. BytesApart
    BY DEF StreamInv
  <2>2. CASE DrainWrite \/ AfterSend
    BY <2>2, DrainPipes, AfterSendPipes
  <2>3. CASE \E t \in Callers : SendWrite(t)
    BY <2>1, <2>3, SendWritePipes
  <2>4. CASE \E t \in Callers : Send(t) \/ SendReturn(t)
    BY <2>4, OthersPipe DEF Send, SendReturn, bufferVars, writeVars
  <2>5. CASE UNCHANGED <<queue, inflight, wire, lost, rest, sends>>
    BY <2>5, OthersPipe
  <2> QED
    BY <2>2, <2>3, <2>4, <2>5, OthersMoveNothing
<1> QED
  BY <1>1, <1>2, TypeCorrect, StreamInvariant, ContinueInvariant, PTL DEF Spec, ImplementsPipe, Pipe!Spec

================================================================================
