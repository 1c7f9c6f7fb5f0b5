# A TLA+ development of MyUvpp

MyUvpp is a small C++ networking code base over libuv. It holds three layers:

* `src/reference/` - a TCP client and a TCP server library (2014-2015), each with its own
  event-loop thread, a byte-stream packetizer, a circular send buffer and thin mutex wrappers;
* `src/uvpp/` - a header-only C++ wrapper of libuv handles that keeps the user's callbacks in
  a table beside the handle;
* `src/libuv_cpp/` - an echo server and a console client built on `uvpp`.

libuv itself is vendored (`src/libuv-1.x1`, headers again in `src/include`, a binary in
`src/lib`). The build is a Visual Studio project, so libuv behaves as its Windows backend does
(`src/libuv-1.x1/src/win`). Paths below are relative to `src/`.

This directory states what the code promises, models it in TLA+, checks the models with TLC on small
instances and proves their invariants and refinements with TLAPS for every size. The plan at the end
says what is done and what could follow.

## Inventory

### `reference/`: library code with two kinds of threads

**PodCircularBuffer** (`include/pod_circularbuffer.h`). State: an array, a read and a write
position, an `empty` and a `full` flag. Operations: `write` and `read` (both partial: they
return how many items they moved), `clear`, `size`. Callers hold a mutex. Hard: equal positions
mean empty or full, writes and reads wrap around the end of the array, and the wrapped position
must stop at the other one. Correct when: it is a bounded FIFO queue.

**TCPClient** (`tcpclient.cpp`, `include/tcpclient.h`). State: the loop with an async handle, a
TCP handle and a reconnect timer; `connectstatus_`, `isclosed_`, `isuseraskforclosed_`,
`isreconnecting_`; the send buffer (a PodCircularBuffer under a mutex) and a free list of write
requests. Operations of user threads: `Connect`, `Send`, `Close`, the destructor. Callbacks of
the loop thread: `AfterConnect`, `AfterRecv`, `AfterSend`, `AsyncCB`, `ReconnectTimer`,
`AfterClientClose`, and the end of `run`. The two sides share the fields above without a lock
and the buffer under one; a user thread reaches the loop only by `uv_async_send`. Hard: every
interleaving of the two sides; closing while a connect, a write or a reconnection is in flight;
a 10 s timeout of `Connect` that races the answer; wakeups that are merged or consumed early;
connection loss and retry. Correct when: the byte stream has no gap, repetition or reordering;
no handle is used after it was closed or left open when `IsClosed()` says closed; a lost
connection is always going to be retried; calls return and `Close` completes.

**TCPServer and AcceptClient** (`tcpserver.cpp`, `include/tcpserver.h`). State: the loop with an
async handle and the listener; `startstatus_`, `isclosed_`, `isuseraskforclosed_`;
`clients_list_` (id to AcceptClient) under `mutex_clients_`; free lists of client contexts and of
write requests. A context owns a TCP handle, a read buffer and a PacketSync, and is recycled
from one connection to the next. Operations of user threads: `Start`, `SetRecvCB`, `Close`, the
destructor. Callbacks: `StartThread`, `AcceptConnection`, `AfterRecv`, `GetPacket`, `AfterSend`,
`AsyncCloseCB`, `CloseWalkCB`, `AfterClientClose` with `SubClientClosed`, `RecycleTcpHandle`.
Hard: who owns a context, in particular when a call of libuv fails half-way; closing the server
while clients are closing; restarting it while the thread of the last run is still leaving; what
a recycled context remembers. Correct when: every context has exactly one owner, every client
that disappears is reported exactly once, `IsClosed()` is honest, `Close` completes.

**PacketSync** (`include/packet_sync.h`) finds the frames in the received bytes: head byte,
34-byte header with the length of the data, data, tail byte; a frame that turns out to be none is
parsed again behind its first byte. State: two buffers that grow with what a header announces, the
last header, where it was found, and whether one is in hand. The check value is not used: MD5 is
commented out. Operations: `Start`, `recvdata`. Hard: pieces that end anywhere, bytes that are
parsed twice from two different buffers, a loop that must go on with buffered bytes and must not
go on for ever, one packetizer for many connections. Correct when: whatever the pieces, the user
gets the frames of the stream, each when it is complete.
**The codecs** (`include/net_base.h`) convert integers and headers to bytes. Hard: byte order,
sign extension. Correct when: what is decoded is what was encoded.

**thread_uv.h**, **tcpserverprotocolprocess.h**, **tcpcon_ctx.hpp**: one-line wrappers of libuv's
threads and locks, an abstract class for user code, an unused structure. The `test_*.cpp` drivers
are commented out; they show which threads and callbacks call the library.

### `uvpp/` and `libuv_cpp/`: a single-threaded wrapper and its users

**Handle, Stream, Tcp, Timer, Loop, callbacks** (`uvpp/*.hpp`). State: a heap-allocated libuv
handle, a `m_will_close` flag, and a table with one slot per kind of callback, allocated with the
handle. Hard: the lifetime of the handle against the wrapper's destructor and the close callback,
when libuv links all handles of a loop into a list; a callback that destroys the object whose handle
it was stored in. Correct when: what libuv may still use is there, and nothing is freed twice.

**CSimpleSvr with ClientCtx and TcpConn** (`libuv_cpp/Server.*`, `TcpConn.*`, `main.cpp` with
`classsvr`). State: the map of clients by number, a counter. Callbacks: `on_new_connected`,
`OnRecv`, `OnWriteFinished`, the close callback. Hard: erasing a client inside its own close
callback, while a write is in flight; an accept that fails. Correct when: every callback finds its
context, a client is in the map exactly as long as it lives, and one whose peer is gone is
forgotten. **EchoSvrConn** repeats ClientCtx and nobody makes one; the main of the console
**Client** sleeps in a loop of its own and never runs libuv's, so that no callback of it is ever
called.

**ring_buffer** (`libuv_cpp/Uti/ring_buffer.hpp`) is included by no other file; **Connection.hpp**
is a sketch no target builds.

### libuv

Third-party code. Only what the client and the server rely on is modelled, from the vendored source,
inside the modules of those who use it: `uv_async_send` sets a flag that is cleared when the
callback runs, and asserts that the handle is not closing (`async.c:75`); `uv_close` of a closing
handle is `assert(0)` (`handle.c:71`); a handle's close callback runs in its endgame, when no
request of it is pending, and an async handle's only after its pending wakeup; the loop ends when no
active or closing handle is left (`core.c:465`); a write on a handle that is not writable is
refused; a listener that cannot queue an accept stops listening before it tells the callback
(`tcp.c:1128`), still reports connections it had accepted before, and an accept of one of these runs
into an assertion (`tcp.c:403`; `SimpleServer` lets it succeed or fail instead, as in a build
without assertions); the handles of a loop are a list linked through the handles (`queue.h`); after a
read that filled its buffer libuv reads again and reports 0 bytes when nothing is there
(`tcp.c:1041`).

## Modules

| module | what it is |
| --- | --- |
| `BoundedFifo` | abstract: a bounded queue with partial writes and reads |
| `PodCircularBuffer` | the circular buffer; refines `BoundedFifo` |
| `PodCircularBufferProofs` | its theorems |
| `BytePipe` | abstract: bytes that are accepted, delivered in order, or given up without a connection |
| `TCPClient` | the client; uses the send buffer through the operators of `BoundedFifo`, refines `BytePipe` |
| `TCPClientClaims` | sentences of the comments that the client does not keep |
| `MCTCPClient` | model values for TLC |
| `TCPClientProofs` | the client's theorems |
| `Sessions` | abstract: clients join a server that is up, leave and are reported |
| `TCPServer` | the server, its clients and their contexts; refines `Sessions` |
| `TCPServerProofs` | the server's theorems |
| `TCPServerClaims` | a sentence of the comments that the server does not keep |
| `MCTCPServer` | model values for TLC |
| `NetBase` | the codecs, as functions on bytes |
| `SequenceLemmas` | induction over numbers, and lemmas about flattened and cut sequences |
| `NetBaseProofs` | theorems about the codecs |
| `FrameStream` | abstract: bytes arrive, the frames in them are delivered in order |
| `PacketSync` | the packetizer; refines `FrameStream` |
| `FrameStreamProofs` | what the frames of a stream are, for every stream |
| `PacketSyncProofs` | the packetizer's theorems |
| `MCPacketSync` | streams that the peers send, and wider ints for the codecs |
| `Registry` | abstract: members under numbers that nobody had before |
| `UvppHandle` | a handle of `uvpp`, its table of callbacks, the loop's list of handles |
| `SimpleServer` | CSimpleSvr on `UvppHandle`; its table refines `Registry` |
| `SimpleServerProofs` | its theorems |

`TCPClient` and `PodCircularBuffer` compose through `BoundedFifo`: the client's model is checked
against the queue, and the circular buffer is proved to implement that queue for every capacity, so
the client needs no model of positions and flags. In the same way `PacketSync` is checked, and
proved, to implement `FrameStream`; what the client and the server do with packets depends on
nothing but which ones are delivered, so their models only say that some are. `PacketSync` covers
the packetizer's life across the connections of both.

### How state and actions correspond to the code

*PodCircularBuffer.* The variables are the class's fields; `returned` is what the last call gave
back, so that the refinement covers results and not just contents. `write` and `read` are split
into the branches of the code (before the end, across the end, into the gap). An item is a
member of a set `Item`. The initial contents of the array are arbitrary, as `new T[n]` leaves them.

*TCPClient.* `pc[t]` says where thread `t` is in its call: a user thread is cut at every access to a
field the loop thread also uses (for `Send`: the test of `isuseraskforclosed_`, each locked write
into the buffer, each `uv_async_send`; for `Close`: the test of `isclosed_`, the request, the
`uv_async_send`; for `Connect`: the initialisation, the wait, the timeout, the return value). One
call is coarser: a `Connect` of a client that is not closed (`ConnectOpen`) is one step up to its
wait, although `closeinl` and `init` each read `isclosed_`. A callback is one step, except that the
loop of `send_inl` releases the mutex between writes and is cut there (`loop = "draining"`). A byte
is a pair of a message and an offset, so that order, loss and repetition are visible. `queue` is the
content of the send buffer, `inflight` the buffers of writes in flight, `wire` the bytes written.
`tcpData` is the handle's `data` pointer, which `StartReconnect` redirects from the context to the
client. History: `lost` (bytes of failed writes) and `attemptOk` (this Connect's attempt has
connected).

*TCPServer.* Contexts are members of `Contexts`; per context there is the state of its handle, the
AcceptClient its `parent_acceptclient` points to (by id), and the number of writes in flight. Of the
packets that arrive only those that are answered matter, for the write requests. `avai` is the free
list in order, since it is used as a queue; `pool` is the length of the list of write requests. The
mutex is a recursive critical section; apart from `closeinl` every holder releases it in the same
step, so the model keeps only `leaked`, the run whose thread keeps it for good. `clearing` holds the
loop threads that have set `isclosed_` and not yet cleared `isuseraskforclosed_`. `Close` is cut as
in the client. `StartOpen`, a `Start` of a server that is not closed, is where the model ends
(`halted = "foreign"`); it does so also after a `Start` that failed and left no thread, where the
code goes on in a defined way. History:
`accepted` and `reported` ids. The user's close callback is assumed set.

*PacketSync.* The buffers hold positions of the received stream instead of bytes, so that the
properties can ask where a delivered byte came from; `stream` maps a position to its byte. Every
branch of the loop of `recvdata` is an action: filling the read buffer and finding no head
(`NoHead`), a head without all of its header (`HeaderIncomplete`), a header that is none
(`InvalidHeader`), a header (`ValidHeader`), then the body from either buffer (`WaitForBody`,
`FillBody`) and its last byte (`WrongTail` with `PutBack`, `RightTail` with `Behind`). `left` is
what `recvdata` has not consumed of its argument. `truepacketlen` and `getdatalen` are the lengths
of `read` and `packet`; `readLen` and `packLen` are what is allocated. `peer` and `border` (where
connections begin) are the environment.

*NetBase.* Bytes are digits of base `ByteBase`, an int has `IntLen` of them: the conversions are
those of the code for any width, and the runs use small ones. `FrameStream` defines with them what a
frame of a byte sequence is, by one pass over the whole sequence.

*UvppHandle and SimpleServer.* A handle is a record: is its memory there, its state in the loop,
`m_will_close`, and which entries of its table are filled. `queue` is the loop's list of handles, in
order, without libuv's internal one. A `ClientCtx` is a member of `Clients`, numbered in the order
they are made, with the handle of the same number. Every callback is one step. A step of libuv that
reads or writes through freed memory (`InsertBreaks`, `RemoveBreaks`, `Exit`) sets `undefined`, and
the server does nothing more. What the outside decides is free: whether bind, listen and accept
succeed, what peers send, when they leave.

In the models of the client and the server `halted` is set when an assertion of libuv fails or when
the program does something neither libuv nor C++ defines (joining a thread that was never created,
initialising a handle twice), and then no step is possible. Properties are about everything up to
that point, and the violation runs are about getting there.

## Runs

| run | checks | size |
| --- | --- | --- |
| `pod_buffer` | types, `ImplementsFifo` | 4 cells, 2 items, counts to 5: 1784 states |
| `client_safety` | types, `StreamIntact`, `NothingVanishes`, `ImplementsPipe`, `NoWakeupLost`, `HandleDataFits`, `PoolBounded`, `ConnectHonest` | 2 threads, 2 messages of 3 bytes, buffer of 2, 1 Connect, 1 loss, 1 refusal: 3.4 M states |
| `client_again` | `ClosedMeansDead`, `ReconnectHasNextStep`, `ClosingProgresses` | 2 threads, 3 Connects, 2 refusals: 0.38 M states |
| `client_liveness` | `SendTerminates`, `BufferDrains`, `CloseCompletes`, `ReconnectResolves` | 2 threads, 2 messages that fit, 1 Connect: 0.35 M states |
| `server_safety` | types, `ContextsAccounted`, `FreeMeansQuiet`, `HandlesHaveClient`, `ClosedMeansDead`, `ImplementsSessions`, `ListsBounded`, `StartHonest` | 2 threads, 2 runs, 2 connections, 2 contexts, 2 answers, 1 failure: 2.3 M states |
| `server_liveness` | `CloseCompletes`, `GoneClientsReported` | 1 thread, 2 runs, 2 connections: 0.34 M states |
| `packet_sync` | types, `DeliveredAtOnce`, `NoFrameLost`, `ImplementsFrameStream`, `RecvdataProgresses`, `RecvdataReturns`, `CodecsInvert` | 2 connections, 4 streams of up to 18 bytes, every cutting into pieces: 81 k states |
| `simple_server` | types, `CallbacksFindContext`, `TableHoldsContexts`, `QueueLivesUntilFailure`, `ImplementsRegistry`, `GoneClientsLeave` | 3 clients, 1 piece of data each: 44 k states |
| `client_threads`, `client_long_send`, `server_mutex`, `packet_whole` | one violated sentence each, see Findings | the smallest instance that shows it |

What the passing runs show, in words:

* **The byte stream** (`StreamIntact`, `NothingVanishes`, `ImplementsPipe`): through partial stores
  by two interleaved threads, the cutting of the buffer into writes and completions with and without
  error, no byte is written twice or out of its message's order, and none disappears without being
  dropped by a failed write. The whole is a pipe (`BytePipe`): the bytes of a message enter in their
  order and without a gap, what entered is delivered in the order it entered, and a stretch of it is
  given up only while there is no connection. Completions are taken in the order the writes were
  issued.
* **Wakeups** (`NoWakeupLost`, `BufferDrains`): as long as nobody has asked to close and no `Send`
  is under way, bytes in the buffer are being taken out by the loop or a wakeup is on its way,
  although libuv merges wakeups and the first one of a `Send` may be answered before anything is
  stored. This holds until there is a second `Connect`, and both formulas say so. After one it does
  not: that call closes the handles while bytes are in the buffer, the wakeup runs into the closing
  handle, and after a third `Connect` those bytes wait for the next `Send`.
* **Closing** (`ClosedMeansDead`, both modules): the flag that lets `Connect` or `Start` initialise
  the handles again is set only when every handle has run its close callback and nothing is in
  flight. `CloseCompletes`: once asked for, and with a loop thread there, closing ends - in the
  first run of a server and after the first `Connect` of a client, and both formulas say so. The
  server's is checked with two runs: in the second one, `closeinl` waits for ever for the mutex the
  first has kept (see Findings), and the thread of the first may clear the request. A second
  `Connect` closes the handles in the user's thread without waking the loop; and one after a
  completed close opens handles whose close was, by the flag that nothing clears, asked for long
  ago, and which stay open until the next wakeup. `ClosingProgresses`: after `closeinl` of the
  client every callback leaves less to do, and nothing but a `Send` that was under way gives the
  loop more - no callback of the reconnection that was in flight opens, connects or writes again.
* **Reconnection** (`ReconnectHasNextStep`, `HandleDataFits`, `ReconnectResolves`): there is always
  a next step, the timer does not survive a close, and `AfterConnect` and `AfterRecv` never find a
  handle whose `data` is not the context they cast it to. `AfterClientClose`, which casts it to the
  client, does: see "Other disagreements".
* **Ownership of contexts** (`ContextsAccounted`, `FreeMeansQuiet`, `HandlesHaveClient`): every
  allocated context belongs to one client, to one place in the free list, or to the close callback
  that will recycle it - also after a failed `uv_accept` or `uv_read_start`; nothing is in flight
  for a free context; a handle that can still receive, or is being closed as the handle of a client,
  always finds its AcceptClient in the map. The exception that is left - a free context whose handle
  is open - is told under "Other disagreements".
* **Sessions** (`ImplementsSessions`, `GoneClientsReported`): whatever calls of libuv fail, clients
  join only while the server is up, each with a number above all earlier ones, each is reported in
  the step in which it leaves the map, and the server counts as closed only when all have left; a
  client whose peer is gone does get reported.
* **Bounded lists, honest results** (`PoolBounded`, `ListsBounded`, `ConnectHonest`, `StartHonest`):
  the free lists stay within MAXLISTSIZE + 1 although some paths do not look at the limit; the first
  `Connect` or `Start` never claims success it does not have, despite the timeout race.

* **Packets** (`ImplementsFrameStream`, `DeliveredAtOnce`, `NoFrameLost`, `RecvdataProgresses`,
  `RecvdataReturns`): the loop with its two buffers computes what one pass over the whole stream
  does. When `recvdata` returns, the user has every frame that is complete - the loop condition,
  which also looks at buffered bytes, is exactly right: without that a frame would wait for the next
  call, and if a header alone were enough the loop would spin. Every turn leaves less to do, those
  that put bytes back included, so that the number of turns is bounded by the bytes in hand. A
  damaged frame, or head bytes between frames, cost no frame behind them. No copy runs over a buffer
  (types). Headers survive the codecs, negative ints included; a 64-bit number does exactly if the
  top bit of its fifth byte on the wire is clear.
* **The uvpp server** (`CallbacksFindContext`, `TableHoldsContexts`, `GoneClientsLeave`): a context
  and its handle live until the close callback, which libuv runs after the last write callback; the
  erase inside that callback frees each of them once. Numbers are never given twice, and a client
  whose peer is gone leaves the table.
* **Freed handles** (`QueueLivesUntilFailure`): only a failed accept, or the end of `main`, puts
  freed memory into the loop's list. Both happen: see "Other disagreements".

### Why the bounds are enough

Messages are longer than the buffer in `client_safety`, so partial stores, two threads taking turns,
and draining between parts all happen with two threads and two messages; a third adds no new pair of
actors. One lost connection and one refused attempt give a reconnection that fails, is retried and
succeeds, with a Close at each point of it; `client_again` uses two refusals and three Connects so
that a Connect can follow a close, a failed attempt, and a still running loop. MaxList = 0 makes
both sides of the limit reachable with two entries. Two contexts and two connections let the server
recycle one and free the other, use a context for a second connection, and close while one client is
closing and another reads; two runs let a second `Start` meet what the first left behind, in
`server_liveness` too. Two answers bring the list of write requests over its limit.

The streams of `packet_sync` are whole frames one behind the other, a frame with head and tail bytes
in its data, stray bytes before and behind a frame, a header that announces more than is there - so
that it takes the next frame for its data, has a wrong tail, and both buffers have to grow - and one
that announces a negative length. With ints of one byte a header has six bytes and every stream is
cut at every place, in every combination; wider headers give longer streams and no new branch. Two
connections leave every kind of remainder for a second one to meet. The codecs are evaluated with
ints of two bytes of two bits, for all values of an int and of a 64-bit number. Three clients of
`simple_server` are a neighbour on either side in the loop's list; the third also finds the remains
of two others. One piece of data gives reads with and without an empty one behind.

Every action and every disjunct of the next-state relations is taken in these runs.

`CHECK_DEADLOCK FALSE` is set where a system stops by design: after the destructor, after an
assertion, when the peers have sent everything, or when the bounds are used up.

### Fairness

`FairSpec` is weak fairness, per user thread and per kind of callback: a thread inside a call is
scheduled, and a callback whose event has happened is run. That is what `uv_run` does: each turn
processes all timers that are due, all requests that completed and all endgames, so no callback
waits for ever behind others; and the operating system answers a connection attempt and completes a
write. Nothing that the outside decides is fair: no peer need connect, send or end the connection,
no user need call anything, and no attempt need fail. Weak fairness is enough because an enabled
callback stays enabled until it runs, with two exceptions that the specification deals with:
`SendWrite` of a thread is disabled while the buffer is full, but then the loop's drain is enabled
and fair; and the timer is due only after the endgames of its turn. The number of sends, losses and
refusals is bounded, so `ReconnectResolves` says: once attempts stop failing, the connection comes
back or the client is closed.

`PacketFairSpec` says that a call of `recvdata` is executed. `FairSpec` of `SimpleServer` says that
libuv reports the end of a connection, the end of a write and the end of a close; data and new
connections need not come.

### Assumptions

Writes complete in the order they were issued. A client or server is not destroyed while another
thread is inside a call of it. Addresses given to `Connect` and `Start` can be parsed. libuv is
built with its assertions. `uv_thread_create` succeeds. `uv_tcp_init` with an unspecified family
cannot fail (`tcp.c`), so the code's test of it is not a branch of the models. `uv_read_start` of a
connected or accepted handle does not fail in the vendored backend either: the client's branch for
it (`tcpclient.cpp:283`) is left out, the server's is modelled (`ReadFails`), because its cleanup
path differs from every other. `Send` is not called before the first `Connect`, when its
`uv_async_send` would meet a handle nobody has initialised. The tail byte is below
0x80 (`TailAssumption`; for others see below), an announced length is below INT_MAX and the memory
for it is there. A host is big- or little-endian and libuv's peers use the same codecs.

## Findings

Each of these is a run whose property quotes the repository and which TLC refutes.

* `client_threads` (`tcpclient.cpp:505`): `Close` and `Send` call `uv_async_send` as long as
  `isclosed_` is not set, also when the loop is closing the handle after an earlier `Close`; libuv's
  assertion stops the program. The header says any thread may call. `TCPServer::Close`
  (`tcpserver.cpp:430`) does the same.
* `client_long_send` (`tcpclient.cpp:310`): `Send` wakes the loop before its first store and after
  its last. If the loop answers the first wakeup before anything was stored, a message longer than
  the free space fills the buffer and waits for room that nobody makes. `SendTerminates` holds for
  messages that fit.
* `server_mutex` (`tcpserver.cpp:85`): `closeinl` locks `mutex_clients_` and never unlocks it.
  `SetRecvCB` waits for ever, and so does the loop thread of a restarted server: at its first
  connection, or, when it is asked to close before one comes, in its own `closeinl`. Closing a
  restarted server therefore never completes, which is why `CloseCompletes` of the server speaks of
  the first run only.
* `packet_whole` (`packet_sync.h:62`): `Start` resets nothing of the parser, and a reconnection does
  not even call it. The frame a peer left unfinished is completed with the first bytes of the next
  connection and given to the user, who gets a packet that nobody sent, and the frames of the new
  connection that it swallowed are lost. The comment at `net_base.h:132` says head and tail detect
  whether a packet is whole.

### Other disagreements

The models reach these too; each contradicts a sentence of the repository, and no run repeats it.

* `Connect` or `Start` again, without a `Close` that has completed, closes handles in the caller's
  thread (`tcpclient.cpp:169`, `tcpserver.cpp:184`); the headers (line 18) say every libuv operation
  is done in the loop thread. (`ConnectOpen`; `StartOpen` with `halted = "foreign"`.)
* Two threads' messages are mixed when one does not fit the buffer, since `Send` releases the mutex
  between its parts (`tcpclient.cpp:310`); the header offers `send` to other threads.
* `connectstatus_` and `startstatus_` are never reset: a second `Connect` or `Start` finds the old
  result and returns true at once (`tcpclient.cpp:198`, "thread to wait for succeed connect" at line
  191).
* A `Connect` whose `uv_tcp_connect` fails at once leaves no thread and `isclosed_` false: `Close`
  never completes (`tcpclient.cpp:184`; `tcpclient.h:71` "call IsClosed to verify real closed"). A
  `Start` that cannot bind does the same. The liveness properties therefore ask for a thread
  (`HasThread`).
* After a failed attempt, `ReconnectTimer` initialises a handle nobody closed (`tcpclient.cpp:532`;
  "close before reconnect" at line 373). In libuv this links the handle into the loop's list a
  second time. A first `Close` still finds every handle, because the TCP handle is the last of the
  list and `uv_walk` moves the list as a whole; for a client connected again the list can lose its
  async handle, and `Close` would not complete. The list is inside libuv and is not modelled.
* `AfterClientClose` casts the handle's `data` to `TCPClient` (`tcpclient.cpp:409`), but `closeinl`
  has put the context there (`StopReconnect`, line 519), against the comments of `TcpClientCtx`
  ("data filed store this", `tcpserver.h:49`). What it then reads as `client_handle_` lies behind
  the virtual table's pointer and is the `loop` pointer of the handle, which is never the handle: in
  the layout of this build the test fails and nothing happens (`RetryAfterClose`).
* The thread of a finished run clears `isuseraskforclosed_` after it has set `isclosed_`
  (`tcpserver.cpp:249`); the `Close` of a server started in between is forgotten.
* A context whose `uv_accept` failed goes to the free list with an open handle (`tcpserver.cpp:286`;
  "the handle on TcpClientCtx had closed" at line 359), and the next connection initialises it over
  itself (`AcceptOver`).
* After a refused attempt, a second `Connect` closes the handles from the caller's thread while the
  loop sleeps in its poll with nothing in flight; they stay closing for ever, `isclosed_` never
  becomes true and every later `Connect` fails (`tcpclient.cpp:124`; "Fully close a loop" at line
  398).
* A client whose end of stream was seen, and whose close callback is due, is closed again by
  `closeinl` (`tcpserver.cpp:535`): `uv_close` runs into `assert(0)`
  (`libuv-1.x1/src/win/handle.c:71`). (`CloseInl` with `halted = "closedTwice"`.)
* `CharToInt64` adds `charnum[4] << 24` as an int (`net_base.h:126`): a 64-bit number with the top
  bit of that byte set comes back with its upper half one too small, while the comment says it
  converts back. Nothing calls it.
* The tail byte is compared as a signed char with an unsigned one (`packet_sync.h:143`): with a tail
  of 0x80 or more no frame is ever accepted, although both bytes can be chosen ("可自定义",
  `net_base.h:141`).
* A failed accept destroys a `ClientCtx` that was not closed, with its handle in the loop's list
  (`libuv_cpp/Server.cpp:39`); libuv says of `uv_close` "This MUST be called on each handle before
  memory is released" (`libuv-1.x1/docs/src/handle.rst:131`). The next connection, or the next
  close, writes to freed memory. (`InsertBreaks`, `RemoveBreaks`.)
* The end of `main` does the same to the listener, and `uv_loop_close` reads it (`main.cpp:235`,
  `uv-common.c:633`). (`Exit`.)
* A read of 0 bytes closes the connection (`libuv_cpp/Server.hpp:39`), although it "does *not*
  indicate an error or EOF" (`libuv-1.x1/docs/src/stream.rst:45`). libuv reports one after a message
  that fills the 64 KB buffer exactly. (`RecvNothing`.)
* `SendTo` is given a temporary string, whose bytes `uv_write` may read after it is gone
  (`libuv_cpp/Server.cpp:60`, `uvpp/stream.hpp:100`). It is so in every execution; and the buffers
  that `read_start` allocates are freed by nobody (`stream.hpp:47`).
* `recvcb_` of an AcceptClient, which `SetRecvCB` sets, is called by nobody.

## Proofs

Eight modules hold theorems; each says what it is for at its top. All of them hold for every value
of the constants that the named assumptions allow - TLC evaluates these assumptions in every run -
and for behaviours of any length. Every invariant and every action property that a passing run
checks is stated by a theorem, and so are the five refinements. `CodecsInvert`, which TLC evaluates
for one choice of widths, is proved for all of them, in two theorems.

**The circular buffer** (`PodCircularBufferProofs`): the positions stay in the array and the flags
agree with them (`TypeCorrect`, `FlagsCorrect`), and `Refinement`: `Spec => ImplementsFifo`. The
abstract queue is the function that reads `Size` cells from the read position on, modulo the
capacity. The inductive invariant is the type invariant with `FlagsAgree` (stated beside the proof)
- equal positions exactly when one flag is set, never both - without which the size is ambiguous.
Each branch of `write` appends and each branch of `read` removes exactly the items it returns;
lemmas state what `Stored` and `Fetched` do to the cells before, inside and after the moved block.

**The client's handles** (`TCPClientProofs`): `TypeCorrect`, `ClosedIsDead`,
`ReconnectionNeverStalls`, `CallbacksFindContext`, `FirstConnectIsHonest`, `PoolStaysBounded`. The
safety invariants are not inductive alone: they need one another and `HandlesExist` (while the
client is not closed its three handles exist, and a loop that has ended has closed them),
`HandlesCloseTogether` (the timer is open as long as the async handle is, and once that is closing
nothing is open), `RequestsFit` (a connect in flight belongs to a handle that is connecting or
closing, a write to one that is connected or closing) and `ReconnectNeedsOpen`. Their conjunction is
`IInv`. Honesty and boundedness have invariants of their own.

**The client's bytes** (`StreamStaysIntact`, `NoByteVanishes`, `ClientIsPipe`): for messages
and buffers of any length and any number of threads. `StreamIntact` says nothing of bytes still to
be stored; the inductive `BytesApart` does: the bytes on their way are `Ordered`, what a `Send` has
still to store is, and lies, message by message, behind all that was stored before; no two threads
have bytes of one message; no message is newer than the number of sends. `RestsFit` ties what is
left of a message to the place its thread is at, so that a `Send` which returns has nothing left
unless the user asked to close. Each step either moves a block of bytes from one part of the path to
the next (`SendWrite`, the drain, `AfterSend`), where lemmas about concatenation and cutting say
what becomes of the order, or leaves the bytes alone. `ClientIsPipe` maps these steps to those of
`BytePipe`: a store is `Accept`, a completion `Deliver`, a failed or refused write `GiveUp` of one
stretch of the waiting bytes, a drain that issues a write no step at all. That a store accepts the
next bytes of its message, and not later ones, needs one more invariant, `SendsContinue`: what a
`Send` has still to store begins where the bytes of its message that were accepted end.

**The client's wakeups and closing** (`WakeupsAreNotLost`, `ClosingNeverTurnsBack`). The first needs
`FirstLife`: until there is a second `Connect` only a `Close` closes the handles, so that the flag of
the async handle is never taken by a callback that does nothing. The second gives closing a measure:
one for each handle that has to run its close callback, for a wakeup and for a connect in flight, two
for a write, one for a byte in the buffer, and the phase of the loop; each callback is shown to lower
it. A write counts two because its completion may start a turn of `send_inl`.

**The server** (`TCPServerProofs`): a theorem for each safety property of the run, and three more.
`IInv` is `Phases`, which handles and flags go together in each phase of the life of the loop, with
`Bookkeeping`: the run's invariants about contexts, reports and lists, `HandlesOwned` (only an
allocated context has a handle, that of a context in the map is reading or closing, and writes are
in flight only on such a handle; an open one has no client), `ParentsMatch` and `IdsUsedOnce`. No
part is inductive without the others: that a context is not given away twice needs that only closing
handles come back, which needs that a reader has its client.

`ServerKeepsSessions` takes the map, `isclosed_` and the reports to the variables of `Sessions`:
`StartClosed` raises the server, `RunEnds` lowers it, an accepted client joins and a close callback
makes one leave; every other step leaves the three alone. That the last client has left when
`isclosed_` is set is `HandlesOwned` with the closed handles of that phase; that a number is above
all earlier ones, and one of those the bounds allow, is `IdsFit`. `ReportedOnce`, the invariant that
is left of this when history is looked at instead of steps, is proved on its own
(`ClientsReportedOnce`).

For closing there are two theorems. `ClosingNeverTurnsBack`: after `closeinl` every callback lowers
some part of what is left - the phase of the loop, the wakeup and the server's handles, the writes
and the handle of each context - and no step of anyone raises any part. `ClosingIsNeverStuck`: until
the loop is left there is a callback that can run. Both need `LockKept`: the mutex that `closeinl`
never releases is held by the very thread that closes, which therefore gets past it in the close
callbacks of its clients; the next run's thread does not (see Findings). No run checks these two with
the others; they were checked by TLC in the instance of `server_safety` before they were proved.

**The uvpp server** (`SimpleServerProofs`): types, `CallbacksAreSafe`, `ContextsAreInTable`,
`OnlyFailureBreaksQueue`, and `ServerIsRegistry`: it implements `Registry`. The invariant:
`ClientsLive` (the phases in the life of a client, its handle and its table of callbacks),
`TableFits` (numbers in the table are below the counter), `QueueFits` (the loop's list begins with
the listener, holds every handle in use and none twice, and of the clients that got a number only
living ones), `OverMeansEmpty` and `UndefinedHasReason`.

**The frames of a stream** (`FrameStreamProofs`): what `Frames` computes. `FramesLieApart`: each
frame found is one, and no two share a byte. `FramesAreFinal`: the frames of a stream begin those of
every longer one, so that what was delivered stays right. The key is `Scanned`, a description of a
scan without recursion - the frames found so far, and every position between them is dead, that is,
no later byte can make a frame start there - which is shown to survive more bytes and to determine
what `Frames` finds.

**The packetizer** (`PacketSyncProofs`): `TypeCorrect` (among it that no copy leaves its buffer, for
any bytes), `FramesDeliveredAtOnce`, `NoFrameIsLost`, `KeepsPromise`: it implements `FrameStream`,
and `TurnsAreBounded`. The invariant says that the two buffers are the last bytes of the stream that
were consumed (`BuffersFit`), what is in hand in each state of the parser (`NothingInHand`,
`HeaderInHand`), that a call returns only when it has to wait for more (`IdleMeansDone`) and, as the
part that carries the refinement, `ScanIsRight`: what was delivered is what a scan of the stream up
to the parser's position finds. Each branch of the loop is shown to move that position over dead
bytes, or over one frame.

`TurnsAreBounded` needs the parser's position once more. The measure counts three for each byte that
lies behind it, one for each byte not yet copied, and the part of the loop. A branch that moves the
position pays for everything else, a wrong tail included, since it begins again one byte further on;
the branches that do not move it copy bytes or go on to the next part. The case in between, a search
that finds an incomplete header at the very first byte, must have copied something: that is
`RoomForHeader`, by which the read buffer always has room for a header.

**The codecs** (`NetBaseProofs`): `HeadersSurvive`, for every width of byte and int, either byte
order, every int and every header; and `LongsSurviveBelow`: `CharToInt64` inverts exactly the
numbers whose fifth byte has its top bit clear (for an even number of values of a byte; 256 is one).
The bytes of a number and the sums of its bytes are related by induction over the bytes.

**Induction** (`SequenceLemmas`). The library's induction theorems take an operator as a parameter,
which the provers cannot instantiate. The order of the naturals is well-founded, though, and a
non-empty set has a least element in a well-founded order: both are facts about sets, from which
`Induction` follows as one. With it the functions that are defined by recursion (`Weight`, the sums
in `Unsigned`, `FramesFrom`, and the fold in `FlattenSeq`) are shown to exist and to satisfy their
equations, and what they compute is proved.

Only model-checked:

* liveness: `SendTerminates`, `BufferDrains`, `CloseCompletes` (both), `ReconnectResolves`,
  `RecvdataReturns`, `GoneClientsReported`, `GoneClientsLeave`. They rest on fairness, and the
  provers cannot deal with ENABLED. For closing, for `recvdata` and for wakeups the safety half of
  the argument is proved: the measures and `NoWakeupLost` above;
* `CodecsInvert` as the run states it, for one instance of the codecs; its two halves are proved for
  every instance;
* the four violated sentences, which are counterexamples.

## Not modelled

The user's callbacks, in particular calls of `Send` from a callback; socket options; IPv6 variants,
which differ in the address only; logging; MD5, which is commented out. `TCPServer::broadcast` is
private and has no caller. Of `uvpp`: `Timer`, `connect`, `shutdown`, moved handles, addresses and
error names, which no built program uses beyond one call. `EchoSvrConn` and the console `Client`
(see the inventory). `ring_buffer.hpp`, which no file includes. `Connection.hpp`, which no target
builds. The wrappers of `thread_uv.h`, one call each.

libuv itself: it makes up more than nine tenths of the repository's lines, is third-party code with
backends for systems this build does not use, and is modelled only where the programs depend on what
it does. Its event loop on Windows sits on an I/O completion port; its file, process, terminal, pipe
and name functions are used by nothing here.

## Plan

Done: `BoundedFifo`, `PodCircularBuffer`; `TCPClient` and its claims; `TCPServer` with AcceptClient;
`NetBase`, `FrameStream`, `PacketSync`; `Registry`, `UvppHandle`, `SimpleServer`; and the theorems
about all of them.

Also done: the pipe of bytes that the client implements, the sessions that the server implements,
and the measures by which a closing client, a closing server and a call of `recvdata` end.

What could follow:

1. Measures for the two other liveness properties with a bound: a `Send` of a message that fits, and
   the reports of clients whose peers are gone.
2. Models of what the inventory leaves out, if it comes into use: callbacks that call `Send`, and the
   console client with a loop that runs.
