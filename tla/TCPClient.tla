------------------------------- MODULE TCPClient -------------------------------
(* The TCP client of src/reference/tcpclient.cpp: the threads that call        *)
(* Connect, Send, Close and the destructor, and the thread Connect creates,    *)
(* which runs the libuv loop and all the callbacks.  A callback is one step,   *)
(* except that the loop of send_inl is cut where it releases the mutex; a user *)
(* thread is cut at every access to a field the two sides share.  libuv's      *)
(* handles behave as in its Windows backend (src/libuv-1.x1/src/win), built    *)
(* with its assertions.                                                        *)
EXTENDS Integers, SequencesExt

CONSTANTS
  Callers,      \* the user's threads
  Owner,        \* the one that connects and destroys the client
  Capacity,     \* BUFFER_SIZE, the size of the send buffer and of a write's buffer
  MaxList,      \* MAXLISTSIZE
  MsgLen,       \* the length of a message given to Send
  MaxSends,     \* bound: calls of Send
  MaxConnects,  \* bound: calls of Connect
  MaxDrops,     \* bound: connections the peer ends
  MaxRefusals   \* bound: connection attempts that fail

ASSUME CallersAssumption == Owner \in Callers /\ IsFiniteSet(Callers)
ASSUME SizesAssumption == Capacity \in Nat \ {0} /\ MsgLen \in Nat \ {0} /\ MaxList \in Nat
ASSUME BoundsAssumption == {MaxSends, MaxConnects, MaxDrops, MaxRefusals} \subseteq Nat

VARIABLES
  \* the user's threads
  pc,                 \* where each of them is in its call
  rest,               \* the bytes its Send has still to store
  connectResult,      \* what the last Connect returned
  \* fields of the TCPClient
  isclosed,           \* isclosed_
  isuseraskforclosed, \* isuseraskforclosed_
  isreconnecting,     \* isreconnecting_
  connectstatus,      \* connectstatus_
  queue,              \* write_circularbuf_ (as BoundedFifo promises)
  pool,               \* how many free write requests writeparam_list_ holds
  \* the loop thread and the handles of its loop
  loop,               \* what the loop thread is doing
  async, asyncSent,   \* async_handle_, and its async_sent flag
  tcp, tcpData,       \* client_handle_->tcphandle, and its `data` pointer
  connectPending,     \* connect_req_ is in flight
  timer,              \* reconnect_timer_
  inflight,           \* the buffers of the writes in flight, oldest first
  peerGone,           \* the peer has ended the connection
  \* history
  wire,               \* the bytes whose write succeeded, in order
  lost,               \* the bytes that were accepted by Send and dropped
  attemptOk,          \* the attempt of the last Connect has connected
  halted,             \* the program was stopped by an assertion, or is undefined
  sends, connects, drops, refusals

userVars    == <<pc, rest, connectResult>>
fieldVars   == <<isclosed, isuseraskforclosed, isreconnecting, connectstatus>>
bufferVars  == <<queue, pool>>
asyncVars   == <<async, asyncSent>>
tcpVars     == <<tcp, tcpData, connectPending, peerGone>>
writeVars   == <<inflight, wire, lost>>
countVars   == <<sends, connects, drops, refusals>>

vars == <<userVars, fieldVars, bufferVars, loop, asyncVars, tcpVars, timer,
          writeVars, attemptOk, halted, countVars>>

Buffer == INSTANCE BoundedFifo
            WITH Item <- Nat \X Nat, MaxCount <- MsgLen, returned <- <<>>

Message(m) == [k \in 1 .. MsgLen |-> <<m, k>>]

SendStates    == {"sendCheck", "sendWrite", "sendWake"}
ConnectStates == {"connectWait", "connectTimeout", "connectCheck"}
DestroyStates == {"destroyAsk", "destroyWake", "destroyJoin", "gone"}

BytesOf(seq) == {seq[i] : i \in DOMAIN seq}

UserTypes ==
  /\ pc \in [Callers -> {"idle", "closeAsk", "closeWake"}
                          \cup SendStates \cup ConnectStates \cup DestroyStates]
  /\ rest \in [Callers -> Seq(Nat \X Nat)]
  /\ connectResult \in {"none", "ok", "failed"}

FieldTypes ==
  /\ isclosed \in BOOLEAN /\ isuseraskforclosed \in BOOLEAN /\ isreconnecting \in BOOLEAN
  /\ connectstatus \in {"DIS", "FINISH", "ERROR", "TIMEOUT"}

BufferTypes == queue \in Seq(Nat \X Nat) /\ Len(queue) <= Capacity

PoolTypes == pool \in Nat

LoopTypes ==
  /\ loop \in {"none", "running", "draining", "stuck", "returned", "ended"}
  /\ async \in {"none", "open", "closing", "closed"} /\ asyncSent \in BOOLEAN
  /\ timer \in {"none", "stopped", "armed", "closing", "closed"}

TcpTypes ==
  /\ tcp \in {"none", "opened", "connecting", "connected", "closing", "closed"}
  /\ tcpData \in {"ctx", "client"}
  /\ connectPending \in BOOLEAN /\ peerGone \in BOOLEAN

WriteTypes ==
  /\ inflight \in Seq(Seq(Nat \X Nat))
  /\ wire \in Seq(Nat \X Nat)
  /\ lost \subseteq Nat \X Nat

HistoryTypes ==
  /\ attemptOk \in BOOLEAN
  /\ halted \in {"no", "assert", "undefined"}

CountTypes == sends \in Nat /\ connects \in Nat /\ drops \in Nat /\ refusals \in Nat

(* Every variable has its type; the send buffer never holds more than fits.    *)
TypeOK ==
  /\ UserTypes /\ FieldTypes /\ BufferTypes /\ PoolTypes /\ LoopTypes /\ TcpTypes
  /\ WriteTypes /\ HistoryTypes /\ CountTypes

Init ==
  /\ pc = [t \in Callers |-> "idle"]
  /\ rest = [t \in Callers |-> <<>>]
  /\ connectResult = "none"
  /\ isclosed = TRUE /\ isuseraskforclosed = FALSE /\ isreconnecting = FALSE
  /\ connectstatus = "DIS"
  /\ queue = <<>> /\ pool = 0
  /\ loop = "none"
  /\ async = "none" /\ asyncSent = FALSE
  /\ tcp = "none" /\ tcpData = "ctx" /\ connectPending = FALSE /\ peerGone = FALSE
  /\ timer = "none"
  /\ inflight = <<>> /\ wire = <<>> /\ lost = {}
  /\ attemptOk = FALSE
  /\ halted = "no"
  /\ sends = 0 /\ connects = 0 /\ drops = 0 /\ refusals = 0

--------------------------------------------------------------------------------
(* What libuv does for a caller.                                               *)

(* uv_async_send: it asserts that the handle is not closing (the flag stays    *)
(* set when the handle is closed).                                             *)
AsyncSend ==
  IF async = "open"
  THEN asyncSent' = TRUE /\ UNCHANGED <<async, halted>>
  ELSE halted' = "assert" /\ UNCHANGED asyncVars

(* Mutant: CloseWalkCB asks uv_is_active, and passes over idle handles.        *)
ClosingIfActive(handle) ==
  IF handle \in {"opened", "stopped", "closed"} THEN handle ELSE "closing"

(* CloseWalkCB: close a handle that is not closing or closed.                  *)
Closing(handle) == IF handle = "closed" THEN "closed" ELSE "closing"

(* Mutant: a closing client still wants to reconnect.                          *)
WantedAfterClose == isreconnecting

(* StopReconnect clears isreconnecting_.                                       *)
ReconnectWanted == FALSE

(* closeinl() of a client that is not closed: StopReconnect, and uv_walk with  *)
(* CloseWalkCB.                                                                *)
CloseInl ==
  /\ isreconnecting' = ReconnectWanted /\ tcpData' = "ctx"
  /\ async' = Closing(async) /\ tcp' = Closing(tcp) /\ timer' = Closing(timer)

--------------------------------------------------------------------------------
(* The user's threads.                                                         *)

At(t, place) == halted = "no" /\ pc[t] = place

Goto(t, place) == pc' = [pc EXCEPT ![t] = place]

MayCall(t) == At(t, "idle") /\ pc[Owner] \notin DestroyStates

(* Connect of a closed client: init() and a connection attempt, on a new loop  *)
(* thread.  The attempt may fail at once; then there is no thread.             *)
ConnectClosed ==
  /\ MayCall(Owner) /\ isclosed /\ connects < MaxConnects
  /\ isclosed' = FALSE
  /\ async' = "open" /\ asyncSent' = FALSE
  /\ tcpData' = "ctx" /\ timer' = "stopped"
  /\ attemptOk' = FALSE /\ connects' = connects + 1
  /\ \/ /\ tcp' = "connecting" /\ connectPending' = TRUE /\ peerGone' = FALSE
        /\ loop' = "running"
        /\ Goto(Owner, "connectWait")
        /\ connectResult' = "none"
        /\ UNCHANGED refusals
     \/ /\ refusals < MaxRefusals /\ refusals' = refusals + 1
        /\ tcp' = "opened"
        /\ connectResult' = "failed"
        /\ UNCHANGED <<pc, loop, connectPending, peerGone>>
  /\ UNCHANGED <<rest, isuseraskforclosed, isreconnecting, connectstatus, bufferVars,
                 writeVars, halted, sends, drops>>

(* The loop thread is blocked in its poll with nothing in flight that could    *)
(* wake it: closing the handles posts nothing.                                 *)
NothingWakesLoop ==
  loop = "running" /\ tcp = "opened" /\ timer # "armed" /\ ~asyncSent

(* Connect of a client that is not closed: closeinl() runs here, in the user's *)
(* thread; init() does nothing, and connecting the handle that is now closing  *)
(* fails.                                                                      *)
ConnectOpen ==
  /\ MayCall(Owner) /\ ~isclosed /\ connects < MaxConnects
  /\ CloseInl
  /\ halted' = IF loop = "draining" THEN "undefined" ELSE "no"
  /\ loop' \in IF NothingWakesLoop THEN {loop, "stuck"} ELSE {loop}
  /\ connectResult' = "failed" /\ attemptOk' = FALSE /\ connects' = connects + 1
  /\ UNCHANGED <<pc, rest, isclosed, isuseraskforclosed, connectstatus, bufferVars,
                 asyncSent, connectPending, peerGone, writeVars, sends, drops,
                 refusals>>

(* Connect waits until the status is no longer CONNECT_DIS, at most 10 s.      *)
ConnectWaited ==
  /\ At(Owner, "connectWait")
  /\ IF connectstatus = "DIS" THEN Goto(Owner, "connectTimeout")
                              ELSE Goto(Owner, "connectCheck")
  /\ UNCHANGED <<rest, connectResult, fieldVars, bufferVars, loop, asyncVars, tcpVars,
                 timer, writeVars, attemptOk, halted, countVars>>

ConnectTimeout ==
  /\ At(Owner, "connectTimeout")
  /\ connectstatus' = "TIMEOUT"
  /\ Goto(Owner, "connectCheck")
  /\ UNCHANGED <<rest, connectResult, isclosed, isuseraskforclosed, isreconnecting,
                 bufferVars, loop, asyncVars, tcpVars, timer, writeVars, attemptOk,
                 halted, countVars>>

(* Mutant: only an error makes Connect return false.                           *)
NotFailed == connectstatus # "ERROR"

(* The test Connect's return value depends on.                                 *)
Finished == connectstatus = "FINISH"

ConnectReturn ==
  /\ At(Owner, "connectCheck")
  /\ connectResult' = IF Finished THEN "ok" ELSE "failed"
  /\ Goto(Owner, "idle")
  /\ UNCHANGED <<rest, fieldVars, bufferVars, loop, asyncVars, tcpVars, timer, writeVars,
                 attemptOk, halted, countVars>>

(* Mutant: Send does not wake the loop again after its last write.             *)
NoWakeAfterWrite == UNCHANGED <<asyncVars, halted>>

(* Send wakes the loop again when it has stored its message.                   *)
WakeAfterWrite == AsyncSend

(* Send, up to its first uv_async_send.                                        *)
Send(t) ==
  /\ MayCall(t) /\ async # "none" /\ sends < MaxSends
  /\ AsyncSend
  /\ sends' = sends + 1
  /\ rest' = [rest EXCEPT ![t] = Message(sends + 1)]
  /\ Goto(t, "sendCheck")
  /\ UNCHANGED <<connectResult, fieldVars, bufferVars, loop, tcpVars, timer, writeVars,
                 attemptOk, connects, drops, refusals>>

(* The condition of Send's loop.                                               *)
SendCheck(t) ==
  /\ At(t, "sendCheck")
  /\ Goto(t, IF isuseraskforclosed THEN "sendWake" ELSE "sendWrite")
  /\ UNCHANGED <<rest, connectResult, fieldVars, bufferVars, loop, asyncVars, tcpVars,
                 timer, writeVars, attemptOk, halted, countVars>>

(* Mutant: the next write starts again at the first byte: data, len - iret.    *)
RemainderRestarts(left, n) == SubSeq(left, 1, Len(left) - n)

(* Mutant: what did not fit is forgotten.                                      *)
RemainderForgotten(left, n) == <<>>

(* data + iret, len - iret                                                     *)
Remainder(left, n) == SubSeq(left, n + 1, Len(left))

(* The body of Send's loop, under the mutex.                                   *)
SendWrite(t) ==
  LET n == Buffer!Accepted(queue, Len(rest[t])) IN
  /\ At(t, "sendWrite")
  /\ queue' = queue \o SubSeq(rest[t], 1, n)
  /\ rest' = [rest EXCEPT ![t] = Remainder(rest[t], n)]
  /\ Goto(t, IF n < Len(rest[t]) THEN "sendCheck" ELSE "sendWake")
  /\ UNCHANGED <<connectResult, fieldVars, pool, loop, asyncVars, tcpVars, timer,
                 writeVars, attemptOk, halted, countVars>>

(* The second uv_async_send, and the return.                                   *)
SendReturn(t) ==
  /\ At(t, "sendWake")
  /\ WakeAfterWrite
  /\ rest' = [rest EXCEPT ![t] = <<>>]
  /\ Goto(t, "idle")
  /\ UNCHANGED <<connectResult, fieldVars, bufferVars, loop, tcpVars, timer, writeVars,
                 attemptOk, countVars>>

(* Close tests isclosed_, also as the first statement of the destructor, which *)
(* goes on with uv_thread_join.  A client is not destroyed while another       *)
(* thread is in it.                                                            *)
Close(t) ==
  /\ MayCall(t)
  /\ \/ ~isclosed /\ Goto(t, "closeAsk")
     \/ /\ t = Owner /\ \A u \in Callers : pc[u] = "idle"
        /\ Goto(t, IF isclosed THEN "destroyJoin" ELSE "destroyAsk")
  /\ UNCHANGED <<rest, connectResult, fieldVars, bufferVars, loop, asyncVars, tcpVars,
                 timer, writeVars, attemptOk, halted, countVars>>

(* Close sets its flag; the loop may have ended since the test.                *)
CloseAsk(t) ==
  /\ \/ At(t, "closeAsk") /\ Goto(t, "closeWake")
     \/ At(t, "destroyAsk") /\ Goto(t, "destroyWake")
  /\ isuseraskforclosed' = TRUE
  /\ UNCHANGED <<rest, connectResult, isclosed, isreconnecting, connectstatus, bufferVars,
                 loop, asyncVars, tcpVars, timer, writeVars, attemptOk, halted, countVars>>

(* Mutant: Close only sets the flag.                                           *)
NoWakeForClose == UNCHANGED <<asyncVars, halted>>

WakeForClose == AsyncSend

CloseReturn(t) ==
  /\ \/ At(t, "closeWake") /\ Goto(t, "idle")
     \/ At(t, "destroyWake") /\ Goto(t, "destroyJoin")
  /\ WakeForClose
  /\ UNCHANGED <<rest, connectResult, fieldVars, bufferVars, loop, tcpVars, timer,
                 writeVars, attemptOk, countVars>>

(* uv_thread_join, on an uninitialised thread handle if Connect made none.     *)
DestroyJoin ==
  /\ At(Owner, "destroyJoin")
  /\ \/ loop = "ended" /\ Goto(Owner, "gone") /\ UNCHANGED halted
     \/ loop = "none" /\ halted' = "undefined" /\ UNCHANGED pc
  /\ UNCHANGED <<rest, connectResult, fieldVars, bufferVars, loop, asyncVars, tcpVars,
                 timer, writeVars, attemptOk, countVars>>

UserStep(t) ==
  \/ Send(t) \/ SendCheck(t) \/ SendWrite(t) \/ SendReturn(t)
  \/ Close(t) \/ CloseAsk(t) \/ CloseReturn(t)

OwnerStep ==
  \/ ConnectClosed \/ ConnectOpen
  \/ ConnectWaited \/ ConnectTimeout \/ ConnectReturn
  \/ DestroyJoin

--------------------------------------------------------------------------------
(* The callbacks, on the loop thread.                                          *)

LoopAt(place) == halted = "no" /\ loop = place

UserUnchanged == UNCHANGED <<userVars, queue, isclosed, isuseraskforclosed,
                             sends, connects>>

(* Mutant: a connection that is there again does not end the reconnection.     *)
TimerKeepsRunning == timer

(* StopReconnect: uv_timer_stop.                                               *)
TimerStopped == IF timer = "armed" THEN "stopped" ELSE timer

(* AfterConnect(status = 0).                                                   *)
AfterConnectOk ==
  /\ LoopAt("running") /\ connectPending /\ tcp = "connecting"
  /\ tcp' = "connected" /\ connectPending' = FALSE
  /\ connectstatus' = "FINISH" /\ attemptOk' = TRUE
  /\ IF isreconnecting
     THEN isreconnecting' = ReconnectWanted /\ tcpData' = "ctx" /\ timer' = TimerStopped
     ELSE UNCHANGED <<isreconnecting, tcpData, timer>>
  /\ UserUnchanged
  /\ UNCHANGED <<pool, loop, asyncVars, peerGone, writeVars, halted, drops,
                 refusals>>

(* AfterConnect(status # 0), also for the attempt a close cancels.             *)
AfterConnectFail ==
  /\ LoopAt("running") /\ connectPending
  /\ \/ tcp = "closing" /\ UNCHANGED <<tcp, refusals>>
     \/ /\ tcp = "connecting" /\ refusals < MaxRefusals
        /\ tcp' = "opened" /\ refusals' = refusals + 1
  /\ connectPending' = FALSE
  /\ connectstatus' = "ERROR"
  /\ timer' = IF isreconnecting THEN "armed" ELSE timer
  /\ UserUnchanged
  /\ UNCHANGED <<isreconnecting, pool, loop, asyncVars, tcpData, peerGone, writeVars,
                 attemptOk, halted, drops>>

(* Outside: the peer ends the connection.                                      *)
PeerCloses ==
  /\ halted = "no" /\ tcp = "connected" /\ ~peerGone /\ drops < MaxDrops
  /\ peerGone' = TRUE /\ drops' = drops + 1
  /\ UserUnchanged
  /\ UNCHANGED <<isreconnecting, connectstatus, pool, loop, asyncVars, tcp, tcpData,
                 connectPending, timer, writeVars, attemptOk, halted, refusals>>

(* AfterRecv(nread >= 0) calls send_inl, which does nothing for an empty       *)
(* buffer.                                                                     *)
AfterRecvData ==
  /\ LoopAt("running") /\ tcp = "connected" /\ queue # <<>>
  /\ loop' = "draining"
  /\ UserUnchanged
  /\ UNCHANGED <<isreconnecting, connectstatus, pool, asyncVars, tcpVars, timer,
                 writeVars, attemptOk, halted, drops, refusals>>

(* AfterRecv(nread < 0): StartReconnect, and close the handle.                 *)
AfterRecvEnd ==
  /\ LoopAt("running") /\ tcp = "connected" /\ peerGone
  /\ isreconnecting' = TRUE /\ tcpData' = "client"
  /\ tcp' = "closing"
  /\ UserUnchanged
  /\ UNCHANGED <<connectstatus, pool, loop, asyncVars, connectPending, peerGone, timer,
                 writeVars, attemptOk, halted, drops, refusals>>

(* Mutant: a write request goes back to the list however long the list is.     *)
RecycledAlways == pool + 1

(* Where a completed write's request goes: the free list, or free().           *)
Recycled == IF pool > MaxList THEN pool ELSE pool + 1

(* AfterSend(status = 0): recycle the request, then send_inl.                  *)
AfterSendOk ==
  /\ LoopAt("running") /\ inflight # <<>>
  /\ wire' = wire \o Head(inflight) /\ inflight' = Tail(inflight)
  /\ pool' = Recycled
  /\ loop' = "draining"
  /\ UserUnchanged
  /\ UNCHANGED <<isreconnecting, connectstatus, asyncVars, tcpVars, timer, lost, attemptOk,
                 halted, drops, refusals>>

(* AfterSend(status < 0): the data is dropped.                                 *)
AfterSendError ==
  /\ LoopAt("running") /\ inflight # <<>>
  /\ tcp = "closing" \/ peerGone
  /\ lost' = lost \cup BytesOf(Head(inflight)) /\ inflight' = Tail(inflight)
  /\ pool' = Recycled
  /\ UserUnchanged
  /\ UNCHANGED <<isreconnecting, connectstatus, loop, asyncVars, tcpVars, timer, wire,
                 attemptOk, halted, drops, refusals>>

(* Mutant: a write is refused while another one is in flight.                  *)
WritableOnlyWhenQuiet == tcp = "connected" /\ inflight = <<>>

(* uv_write fails at once (UV_EPIPE) on a handle that is not connected.        *)
Writable == tcp = "connected"

(* Mutant: a request is taken from the list without looking whether it has one. *)
TakenBlindly == pool - 1

(* The list after a request was taken from it, or allocated.                   *)
Taken == IF pool = 0 THEN 0 ELSE pool - 1

(* One turn of the loop in send_inl: take what the buffer holds, under the     *)
(* mutex, and write it.  A request comes from the list, or is allocated; it    *)
(* goes back to the list if the write is refused.                              *)
DrainWrite ==
  LET n == Buffer!Available(queue, Capacity)
      chunk == SubSeq(queue, 1, n) IN
  /\ LoopAt("draining") /\ queue # <<>>
  /\ queue' = SubSeq(queue, n + 1, Len(queue))
  /\ \/ /\ Writable
        /\ inflight' = Append(inflight, chunk)
        /\ pool' = Taken
        /\ UNCHANGED lost
     \/ /\ ~Writable
        /\ lost' = lost \cup BytesOf(chunk)
        /\ pool' = Taken + 1
        /\ UNCHANGED inflight
  /\ UNCHANGED <<userVars, fieldVars, loop, asyncVars, tcpVars, timer, wire, attemptOk,
                 halted, countVars>>

DrainEnd ==
  /\ LoopAt("draining") /\ queue = <<>>
  /\ loop' = "running"
  /\ UNCHANGED <<userVars, fieldVars, bufferVars, asyncVars, tcpVars, timer, writeVars,
                 attemptOk, halted, countVars>>

(* The wakeup of uv_async_send: AsyncCB, unless the handle is closing.         *)
AsyncCB ==
  /\ LoopAt("running") /\ asyncSent
  /\ asyncSent' = FALSE
  /\ \/ /\ async = "open" /\ isuseraskforclosed
        /\ CloseInl /\ UNCHANGED loop
     \/ /\ async = "open" /\ ~isuseraskforclosed
        /\ loop' = "draining"
        /\ UNCHANGED <<isreconnecting, tcpData, async, tcp, timer>>
     \/ /\ async = "closing"
        /\ UNCHANGED <<isreconnecting, tcpData, async, tcp, timer, loop>>
  /\ UserUnchanged
  /\ UNCHANGED <<connectstatus, pool, connectPending, peerGone, writeVars, attemptOk,
                 halted, drops, refusals>>

(* ReconnectTimer while an attempt is in flight initialises the handle under   *)
(* it.                                                                         *)
ReconnectTimerDuringAttempt ==
  /\ LoopAt("running") /\ timer = "armed" /\ isreconnecting
  /\ connectPending
  /\ halted' = "undefined"
  /\ UserUnchanged
  /\ UNCHANGED <<isreconnecting, connectstatus, pool, loop, asyncVars, tcpVars, timer,
                 writeVars, attemptOk, drops, refusals>>

(* Mutant: the handle keeps the data of the reconnection.                      *)
ReinitKeepsData == tcpData

(* The data pointer after uv_tcp_init.                                         *)
ReinitData == "ctx"

(* ReconnectTimer: initialise the handle, closed or not, and start an attempt; *)
(* when that fails at once, close the handle and wait for the timer again.  A  *)
(* timer is due only after the endgames of the iteration that armed it.        *)
ReconnectTimer ==
  /\ LoopAt("running") /\ timer = "armed" /\ isreconnecting
  /\ ~connectPending /\ tcp # "closing"
  /\ tcpData' = ReinitData /\ peerGone' = FALSE
  /\ \/ tcp' = "connecting" /\ connectPending' = TRUE /\ UNCHANGED refusals
     \/ /\ refusals < MaxRefusals /\ refusals' = refusals + 1
        /\ tcp' = "closing" /\ UNCHANGED connectPending
  /\ UserUnchanged
  /\ UNCHANGED <<isreconnecting, connectstatus, pool, loop, asyncVars, timer, writeVars,
                 attemptOk, halted, drops>>

(* Mutant: the handle's data is expected to be what it is for the other        *)
(* callbacks.                                                                  *)
RetryUnlessReconnecting == tcpData = "ctx" /\ isreconnecting

(* The test of AfterClientClose for starting the timer.  It takes the data for *)
(* the TCPClient; if it is the context, what is read as client_handle_ is the  *)
(* loop pointer of the handle, so that the test fails.                         *)
RetryAfterClose == tcpData = "client" /\ isreconnecting

(* The endgame of the tcp handle, once no request of it is pending, and        *)
(* AfterClientClose.                                                           *)
CloseTcp ==
  /\ LoopAt("running") /\ tcp = "closing" /\ ~connectPending /\ inflight = <<>>
  /\ tcp' = "closed"
  /\ timer' = IF RetryAfterClose THEN "armed" ELSE timer
  /\ UserUnchanged
  /\ UNCHANGED <<isreconnecting, connectstatus, pool, loop, asyncVars, tcpData,
                 connectPending, peerGone, writeVars, attemptOk, halted, drops,
                 refusals>>

(* The endgames of the other two handles.                                      *)
CloseAsync ==
  /\ LoopAt("running") /\ async = "closing" /\ ~asyncSent
  /\ async' = "closed"
  /\ UserUnchanged
  /\ UNCHANGED <<isreconnecting, connectstatus, pool, loop, asyncSent, tcpVars, timer,
                 writeVars, attemptOk, halted, drops, refusals>>

CloseTimer ==
  /\ LoopAt("running") /\ timer = "closing"
  /\ timer' = "closed"
  /\ UserUnchanged
  /\ UNCHANGED <<isreconnecting, connectstatus, pool, loop, asyncVars, tcpVars, writeVars,
                 attemptOk, halted, drops, refusals>>

(* uv__loop_alive: an active or closing handle is left (an idle tcp handle and *)
(* a stopped timer are not active).                                            *)
LoopAlive ==
  \/ async \in {"open", "closing"}
  \/ tcp \in {"connecting", "connected", "closing"}
  \/ timer \in {"armed", "closing"}

(* uv_run returns, and run() goes on.                                          *)
LoopReturns ==
  /\ LoopAt("running") /\ ~LoopAlive
  /\ loop' = "returned"
  /\ UNCHANGED <<userVars, fieldVars, bufferVars, asyncVars, tcpVars, timer, writeVars,
                 attemptOk, halted, countVars>>

RunEnds ==
  /\ LoopAt("returned")
  /\ isclosed' = TRUE
  /\ loop' = "ended"
  /\ UNCHANGED <<userVars, isuseraskforclosed, isreconnecting, connectstatus, bufferVars,
                 asyncVars, tcpVars, timer, writeVars, attemptOk, halted, countVars>>

AfterConnect == AfterConnectOk \/ AfterConnectFail
AfterSend    == AfterSendOk \/ AfterSendError
SendInl      == DrainWrite \/ DrainEnd
TimerFires   == ReconnectTimer \/ ReconnectTimerDuringAttempt

LoopStep ==
  \/ AfterConnect \/ AfterRecvData \/ AfterRecvEnd \/ AfterSend \/ SendInl
  \/ AsyncCB \/ TimerFires
  \/ CloseTcp \/ CloseAsync \/ CloseTimer
  \/ LoopReturns \/ RunEnds

--------------------------------------------------------------------------------
Next ==
  \/ \E t \in Callers : UserStep(t)
  \/ OwnerStep
  \/ LoopStep
  \/ PeerCloses

Spec == Init /\ [][Next]_vars

(* A call that has begun goes on: its thread is scheduled.                     *)
CallsGoOn ==
  /\ \A t \in Callers : /\ WF_vars(SendCheck(t) \/ SendWrite(t) \/ SendReturn(t))
                         /\ WF_vars(CloseAsk(t) \/ CloseReturn(t))
  /\ WF_vars(ConnectWaited \/ ConnectTimeout \/ ConnectReturn \/ DestroyJoin)

(* The loop thread runs every callback that is due: libuv keeps completions,   *)
(* timers and endgames in queues it empties in every iteration.  A connection  *)
(* attempt and a write are answered; a peer that is gone is noticed.  Other    *)
(* callbacks disable one that is due only finitely often here (send_inl runs   *)
(* only for data, and data is bounded), so weak fairness is enough.            *)
LoopGoesOn ==
  /\ WF_vars(AfterConnect) /\ WF_vars(AfterRecvEnd) /\ WF_vars(AfterSend)
  /\ WF_vars(SendInl) /\ WF_vars(AsyncCB) /\ WF_vars(TimerFires)
  /\ WF_vars(CloseTcp) /\ WF_vars(CloseAsync) /\ WF_vars(CloseTimer)
  /\ WF_vars(LoopReturns \/ RunEnds)

FairSpec == Spec /\ CallsGoOn /\ LoopGoesOn

--------------------------------------------------------------------------------
(* Properties.                                                                 *)

(* The bytes on their way, oldest first: written, in flight, in the buffer.    *)
Stream == wire \o FlattenSeq(inflight) \o queue

(* A client whose Connect has created the loop thread.                         *)
HasThread == loop # "none"

(* No byte is written twice, and the bytes of one message stay in order,       *)
(* through partial writes into the send buffer, the cutting of the buffer into *)
(* writes and the completions (Send, send_inl, AfterSend).                     *)
StreamIntact ==
  /\ \A i, j \in DOMAIN Stream :
       i < j /\ Stream[i][1] = Stream[j][1] => Stream[i][2] < Stream[j][2]
  /\ BytesOf(Stream) \cap (lost \cup UNION {BytesOf(rest[t]) : t \in Callers}) = {}

(* A byte given to Send is on its way, was dropped by a failed write, or has   *)
(* still to be stored by a Send that has not returned, until Close cuts the    *)
(* Sends short.                                                                *)
NothingVanishes ==
  isuseraskforclosed \/
    \A m \in 1 .. sends : BytesOf(Message(m)) \subseteq
      BytesOf(Stream) \cup lost \cup UNION {BytesOf(rest[t]) : t \in Callers}

(* Whatever the threads, the mutex and the completions do in between, the      *)
(* client is a pipe for the bytes of its messages: accepted in order, each     *)
(* once, delivered in the order of acceptance, and given up only while there   *)
(* is no connection - before it is there, after the peer ended it, or after    *)
(* the handle was closed (Send, send_inl, AfterSend).                          *)
Pipe == INSTANCE BytePipe
          WITH Messages <- 1 .. MaxSends,
               waiting <- FlattenSeq(inflight) \o queue, delivered <- wire,
               dropped <- lost, connected <- (tcp = "connected" /\ ~peerGone)
ImplementsPipe == Pipe!Spec

(* No wakeup is lost: while bytes are in the buffer, the loop is taking them   *)
(* out, is about to be woken, or a Send is on its way to wake it.  A second    *)
(* Connect closes the handles over what the buffer holds, and Close ends it    *)
(* all (Send, send_inl, AsyncCB).                                              *)
NoWakeupLost ==
  queue # <<>> /\ HasThread /\ connects = 1 /\ ~isuseraskforclosed =>
    \/ loop = "draining" \/ asyncSent
    \/ \E t \in Callers : pc[t] \in SendStates
    \/ halted # "no"

(* When isclosed_ is set, which is what IsClosed tells the user and what lets  *)
(* Connect initialise the handles again, every handle has been closed, no      *)
(* request is in flight and no reconnection is wanted.                         *)
ClosedMeansDead ==
  isclosed => /\ async \in {"none", "closed"}
              /\ tcp \in {"none", "closed"}
              /\ timer \in {"none", "closed"}
              /\ ~connectPending /\ inflight = <<>> /\ ~isreconnecting

(* A client that is reconnecting always has what will try again: the timer, or *)
(* the close callback of the old connection that starts it; and the timer runs *)
(* only for a client that is reconnecting and not closing.                     *)
ReconnectHasNextStep ==
  /\ isreconnecting => \/ timer = "armed"
                       \/ tcp = "closing" /\ tcpData = "client"
  /\ timer = "armed" => isreconnecting /\ async = "open"

(* AfterConnect and AfterRecv take the handle's data for a TcpClientCtx, which *)
(* StartReconnect replaces by the TCPClient: whenever one of them can run, the *)
(* data is what it expects.  (AfterClientClose, which takes it for the         *)
(* TCPClient, is not among them: after closeinl() it finds the context.)       *)
HandleDataFits == connectPending \/ tcp = "connected" => tcpData = "ctx"

(* The list of free write requests stays bounded, also by the refused writes,  *)
(* which send_inl puts back without looking at MAXLISTSIZE.                    *)
PoolBounded == pool <= MaxList + 1

(* The first Connect returns true only if its attempt has connected.           *)
ConnectHonest == connects = 1 /\ connectResult = "ok" => attemptOk

(* closeinl() has closed the handles, and the thread has not ended.            *)
ClosingDown == async \in {"closing", "closed"} /\ ~isclosed

(* What the loop has still to do then: run the callbacks of what is in flight, *)
(* empty the buffer into writes that fail, and close the handles.              *)
WorkLeft ==
  LET One(condition) == IF condition THEN 1 ELSE 0
  IN  Len(queue) + 2 * Len(inflight) + One(connectPending) + One(asyncSent)
        + One(async = "closing") + One(tcp = "closing") + One(timer = "closing")
        + (CASE loop = "draining" -> 3 [] loop = "running" -> 2 [] loop = "returned" -> 1
             [] OTHER -> 0)

(* Once it is closing, every callback brings the loop nearer to its end, and   *)
(* nothing but a Send that was under way gives it more to do: no callback      *)
(* restarts the timer, connects or writes (CloseWalkCB, AfterConnect,          *)
(* AfterSend, AfterClientClose, uv_run).                                       *)
ClosingProgresses ==
  [][ClosingDown => /\ LoopStep => WorkLeft' < WorkLeft
                    /\ WorkLeft' > WorkLeft => \E t \in Callers : SendWrite(t)]_vars

(* A Send of a message that fits the buffer ends, whatever else is going on.   *)
SendTerminates ==
  \A t \in Callers :
    pc[t] \in SendStates /\ HasThread ~> pc[t] \notin SendStates \/ halted # "no"

(* Connect has been called once.  A second call closes the handles of a client *)
(* that is not closed, in the user's thread and without waking the loop; of a  *)
(* closed one it opens new handles, and the old request to close, which        *)
(* nothing clears, counts for them only at the next wakeup.                    *)
FirstConnect == connects = 1

(* What Send stored is taken out of the buffer: no wakeup is lost, until Close *)
(* or a second Connect (Send, AsyncCB, send_inl).                              *)
BufferDrains ==
  queue # <<>> /\ HasThread /\ FirstConnect
    ~> queue = <<>> \/ isuseraskforclosed \/ ~FirstConnect \/ halted # "no"

(* After Close the loop of the first Connect ends, whatever was in flight, and *)
(* IsClosed tells so (Close, AsyncCB, closeinl, run).                          *)
CloseCompletes ==
  isuseraskforclosed /\ HasThread /\ FirstConnect
    ~> isclosed \/ ~FirstConnect \/ halted # "no"

(* A lost connection is there again, once the attempts stop failing, or the    *)
(* client is closed.                                                           *)
ReconnectResolves == isreconnecting ~> ~isreconnecting \/ halted # "no"
================================================================================
