------------------------------- MODULE TCPServer -------------------------------
(* The TCP server of src/reference/tcpserver.cpp: the threads that call Start, *)
(* SetRecvCB, Close and the destructor, and the thread each Start creates,     *)
(* which runs the libuv loop with the accepted clients.  A callback is one     *)
(* step; a user thread is cut at every access to a field it shares with the    *)
(* loop.  Of what a packetizer delivers (module PacketSync) only the packets   *)
(* that are answered matter here.  libuv's handles behave as in its Windows    *)
(* backend (src/libuv-1.x1/src/win), built with its assertions.                *)
EXTENDS Integers, Sequences, FiniteSets

CONSTANTS
  Callers,      \* the user's threads
  Owner,        \* the one that starts and destroys the server
  Contexts,     \* the TcpClientCtx structures malloc can return
  MaxList,      \* MAXLISTSIZE
  MaxStarts,    \* bound: threads that Start creates
  MaxConns,     \* bound: connections the peers make
  MaxAnswers,   \* bound: packets that the server answers
  MaxFailures   \* bound: calls of libuv that fail

ASSUME CallersAssumption == Owner \in Callers /\ IsFiniteSet(Callers)
ASSUME ContextsAssumption == IsFiniteSet(Contexts) /\ MaxList \in Nat
ASSUME BoundsAssumption == {MaxStarts, MaxConns, MaxAnswers, MaxFailures} \subseteq Nat

VARIABLES
  \* the user's threads
  pc,                 \* where each of them is in its call
  startResult,        \* what the last Start returned
  \* fields of the TCPServer
  isclosed,           \* isclosed_
  isuseraskforclosed, \* isuseraskforclosed_
  startstatus,        \* startstatus_
  leaked,             \* the run whose thread locked mutex_clients_ for good, or 0
  clients,            \* clients_list_: pairs of a client's id and its context
  avai,               \* avai_tcphandle_
  pool,               \* how many free write requests writeparam_list_ holds
  nextId,             \* s_id of GetAvailaClientID
  \* the loop thread and the handles of its loop
  loop,               \* what the loop thread is doing
  clearing,           \* the runs that are over and have not ended their thread
  async, asyncSent,   \* async_handle_close_, and its async_sent flag
  listener,           \* tcp_handle_
  backlog,            \* connections that wait to be accepted
  \* the contexts
  allocated,          \* those malloc has returned and free has not had back
  handle,             \* tcphandle of each context
  parent,             \* its parent_acceptclient, as the id of the client
  writes,             \* how many writes it has in flight
  \* the peers
  peerEnd,            \* how the peer of a context has ended the connection
  \* history
  accepted,           \* the ids of the clients that were in clients_list_
  reported,           \* the ids closedcb_ was called for, in order
  halted,             \* the program was stopped by an assertion of libuv, or
                      \* goes on in a way the code and libuv do not define
  starts, conns, answers, failures

userVars    == <<pc, startResult>>
fieldVars   == <<isclosed, isuseraskforclosed, startstatus>>
clientVars  == <<clients, accepted, reported>>
listVars    == <<avai, pool>>
threadVars  == <<loop, clearing>>
serverVars  == <<async, asyncSent, listener, backlog>>
contextVars == <<allocated, handle, parent, writes>>
countVars   == <<starts, conns, answers, failures>>

vars == <<userVars, fieldVars, leaked, clientVars, listVars, nextId, threadVars,
          serverVars, contextVars, peerEnd, halted, countVars>>

StartStates   == {"startWait", "startTimeout", "startCheck"}
DestroyStates == {"destroyAsk", "destroyWake", "destroyJoin", "gone"}

Members(seq) == {seq[i] : i \in DOMAIN seq}

(* The contexts clients_list_ leads to.                                        *)
Held == {x[2] : x \in clients}

UserTypes ==
  /\ pc \in [Callers -> {"idle", "recvLock", "closeAsk", "closeWake"}
                        \cup StartStates \cup DestroyStates]
  /\ startResult \in {"none", "ok", "failed"}

FieldTypes ==
  /\ isclosed \in BOOLEAN /\ isuseraskforclosed \in BOOLEAN
  /\ startstatus \in {"DIS", "FINISH", "TIMEOUT"}
  /\ leaked \in Nat

ListTypes ==
  /\ clients \subseteq Nat \X Contexts /\ avai \in Seq(Contexts)
  /\ pool \in Nat /\ nextId \in Nat

ThreadTypes ==
  /\ loop \in {"none", "starting", "running", "blocked", "returned", "ended"}
  /\ clearing \subseteq Nat

ServerTypes ==
  /\ async \in {"none", "open", "closing", "closed"} /\ asyncSent \in BOOLEAN
  /\ listener \in {"none", "open", "listening", "closing", "closed"}
  /\ backlog \in Nat

ContextTypes ==
  /\ allocated \subseteq Contexts
  /\ handle \in [Contexts -> {"none", "open", "reading", "closing", "closed"}]
  /\ parent \in [Contexts -> Nat]
  /\ writes \in [Contexts -> Nat]

PeerTypes ==
  /\ peerEnd \in [Contexts -> {"no", "eof", "reset"}]

HistoryTypes ==
  /\ accepted \subseteq Nat /\ reported \in Seq(Nat)
  /\ halted \in {"no", "assert", "closedTwice", "foreign", "undefined"}
  /\ starts \in Nat /\ conns \in Nat /\ answers \in Nat /\ failures \in Nat

(* Every variable has its type.                                                *)
TypeOK ==
  /\ UserTypes /\ FieldTypes /\ ListTypes /\ ThreadTypes /\ ServerTypes
  /\ ContextTypes /\ PeerTypes /\ HistoryTypes

Init ==
  /\ pc = [t \in Callers |-> "idle"] /\ startResult = "none"
  /\ isclosed = TRUE /\ isuseraskforclosed = FALSE /\ startstatus = "DIS"
  /\ leaked = 0 /\ clients = {} /\ avai = <<>> /\ pool = 0 /\ nextId = 0
  /\ loop = "none" /\ clearing = {}
  /\ async = "none" /\ asyncSent = FALSE /\ listener = "none" /\ backlog = 0
  /\ allocated = {}
  /\ handle = [c \in Contexts |-> "none"]
  /\ parent = [c \in Contexts |-> 0]
  /\ writes = [c \in Contexts |-> 0]
  /\ peerEnd = [c \in Contexts |-> "no"]
  /\ accepted = {} /\ reported = <<>>
  /\ halted = "no"
  /\ starts = 0 /\ conns = 0 /\ answers = 0 /\ failures = 0

--------------------------------------------------------------------------------
(* The user's threads.                                                         *)

At(t, place) == halted = "no" /\ pc[t] = place

Goto(t, place) == pc' = [pc EXCEPT ![t] = place]

MayCall(t) == At(t, "idle") /\ pc[Owner] \notin DestroyStates

(* uv_async_send asserts that the handle is not closing; the flag stays set    *)
(* when it is closed.                                                          *)
AsyncSend ==
  IF async = "open"
  THEN asyncSent' = TRUE /\ UNCHANGED <<async, halted>>
  ELSE halted' = "assert" /\ UNCHANGED <<async, asyncSent>>

(* Start of a closed server: init, bind, listen, and a new loop thread.        *)
(* Without the address there is no thread.                                     *)
StartClosed ==
  /\ MayCall(Owner) /\ isclosed /\ starts < MaxStarts
  /\ isclosed' = FALSE
  /\ async' = "open" /\ asyncSent' = FALSE
  /\ \/ /\ listener' = "listening" /\ backlog' = 0
        /\ loop' = "starting" /\ starts' = starts + 1
        /\ Goto(Owner, "startWait") /\ startResult' = "none"
        /\ UNCHANGED failures
     \/ /\ failures < MaxFailures /\ failures' = failures + 1
        /\ listener' = "open" /\ startResult' = "failed"
        /\ UNCHANGED <<pc, backlog, loop, starts>>
  /\ UNCHANGED <<isuseraskforclosed, startstatus, leaked, clientVars, listVars, nextId,
                 clearing, contextVars, peerEnd, halted, conns, answers>>

(* Start of a server that is not closed: closeinl() and libuv calls on closing *)
(* handles, in the caller's thread.  Also a Start after one that has failed    *)
(* and left no thread, which goes on in a defined way: it is not followed.     *)
StartOpen ==
  /\ MayCall(Owner) /\ ~isclosed
  /\ halted' = "foreign"
  /\ UNCHANGED <<userVars, fieldVars, leaked, clientVars, listVars, nextId, threadVars,
                 serverVars, contextVars, peerEnd, countVars>>

(* Start waits until the status is no longer START_DIS, at most 10 s.          *)
StartWaited ==
  /\ At(Owner, "startWait")
  /\ Goto(Owner, IF startstatus = "DIS" THEN "startTimeout" ELSE "startCheck")
  /\ UNCHANGED <<startResult, fieldVars, leaked, clientVars, listVars, nextId, threadVars,
                 serverVars, contextVars, peerEnd, halted, countVars>>

StartTimeout ==
  /\ At(Owner, "startTimeout")
  /\ startstatus' = "TIMEOUT"
  /\ Goto(Owner, "startCheck")
  /\ UNCHANGED <<startResult, isclosed, isuseraskforclosed, leaked, clientVars, listVars,
                 nextId, threadVars, serverVars, contextVars, peerEnd, halted, countVars>>

(* Mutant: any answer but START_DIS will do.                                   *)
Answered == startstatus # "DIS"

(* The test Start's return value depends on.                                   *)
Finished == startstatus = "FINISH"

StartReturn ==
  /\ At(Owner, "startCheck")
  /\ startResult' = IF Finished THEN "ok" ELSE "failed"
  /\ Goto(Owner, "idle")
  /\ UNCHANGED <<fieldVars, leaked, clientVars, listVars, nextId, threadVars, serverVars,
                 contextVars, peerEnd, halted, countVars>>

(* SetRecvCB waits for mutex_clients_.                                         *)
SetRecvCB(t) ==
  /\ MayCall(t)
  /\ Goto(t, "recvLock")
  /\ UNCHANGED <<startResult, fieldVars, leaked, clientVars, listVars, nextId, threadVars,
                 serverVars, contextVars, peerEnd, halted, countVars>>

(* With the mutex, it sets a field of the client nobody reads.                 *)
SetRecvCBReturn(t) ==
  /\ At(t, "recvLock") /\ leaked = 0
  /\ Goto(t, "idle")
  /\ UNCHANGED <<startResult, fieldVars, leaked, clientVars, listVars, nextId, threadVars,
                 serverVars, contextVars, peerEnd, halted, countVars>>

(* Close tests isclosed_, also as the first statement of the destructor, which *)
(* goes on with uv_thread_join.  A server is not destroyed while another       *)
(* thread is in it.                                                            *)
Close(t) ==
  /\ MayCall(t)
  /\ \/ ~isclosed /\ Goto(t, "closeAsk")
     \/ /\ t = Owner /\ \A u \in Callers : pc[u] = "idle"
        /\ Goto(t, IF isclosed THEN "destroyJoin" ELSE "destroyAsk")
  /\ UNCHANGED <<startResult, fieldVars, leaked, clientVars, listVars, nextId, threadVars,
                 serverVars, contextVars, peerEnd, halted, countVars>>

(* Close sets its flag; the loop may have ended since the test.                *)
CloseAsk(t) ==
  /\ \/ At(t, "closeAsk") /\ Goto(t, "closeWake")
     \/ At(t, "destroyAsk") /\ Goto(t, "destroyWake")
  /\ isuseraskforclosed' = TRUE
  /\ UNCHANGED <<startResult, isclosed, startstatus, leaked, clientVars, listVars, nextId,
                 threadVars, serverVars, contextVars, peerEnd, halted, countVars>>

(* Mutant: Close only sets the flag.                                           *)
NoWakeForClose == UNCHANGED <<async, asyncSent, halted>>

WakeForClose == AsyncSend

CloseReturn(t) ==
  /\ \/ At(t, "closeWake") /\ Goto(t, "idle")
     \/ At(t, "destroyWake") /\ Goto(t, "destroyJoin")
  /\ WakeForClose
  /\ UNCHANGED <<startResult, fieldVars, leaked, clientVars, listVars, nextId, threadVars,
                 listener, backlog, contextVars, peerEnd, countVars>>

(* uv_thread_join of the last run's thread.  Without one, or with an earlier   *)
(* thread that will still use the server, the program is undefined.            *)
DestroyJoin ==
  /\ At(Owner, "destroyJoin")
  /\ \/ loop = "ended" /\ clearing = {} /\ Goto(Owner, "gone") /\ UNCHANGED halted
     \/ /\ loop = "none" \/ (loop = "ended" /\ starts \notin clearing /\ clearing # {})
        /\ halted' = "undefined" /\ UNCHANGED pc
  /\ UNCHANGED <<startResult, fieldVars, leaked, clientVars, listVars, nextId, threadVars,
                 serverVars, contextVars, peerEnd, countVars>>

UserStep(t) ==
  SetRecvCB(t) \/ SetRecvCBReturn(t) \/ Close(t) \/ CloseAsk(t) \/ CloseReturn(t)

OwnerStep ==
  \/ StartClosed \/ StartOpen \/ StartWaited \/ StartTimeout \/ StartReturn
  \/ DestroyJoin

--------------------------------------------------------------------------------
(* The peers.                                                                  *)

PeerConnects ==
  /\ halted = "no" /\ listener = "listening" /\ conns < MaxConns
  /\ backlog' = backlog + 1 /\ conns' = conns + 1
  /\ UNCHANGED <<userVars, fieldVars, leaked, clientVars, listVars, nextId, threadVars,
                 async, asyncSent, listener, contextVars, peerEnd, halted, starts, answers,
                 failures>>

PeerCloses(c) ==
  /\ halted = "no" /\ handle[c] = "reading" /\ peerEnd[c] = "no"
  /\ \E how \in {"eof", "reset"} : peerEnd' = [peerEnd EXCEPT ![c] = how]
  /\ UNCHANGED <<userVars, fieldVars, leaked, clientVars, listVars, nextId, threadVars,
                 serverVars, contextVars, halted, countVars>>

--------------------------------------------------------------------------------
(* The loop thread.                                                            *)

LoopAt(place) == halted = "no" /\ loop = place

UserUnchanged == UNCHANGED <<userVars, fieldVars, clearing, starts, conns>>

(* mutex_clients_ is recursive, but only for the thread that holds it.         *)
MayLock == leaked \in {0, starts}

StartThread ==
  /\ LoopAt("starting")
  /\ startstatus' = "FINISH" /\ loop' = "running"
  /\ UNCHANGED <<userVars, isclosed, isuseraskforclosed, leaked, clientVars, listVars,
                 nextId, clearing, serverVars, contextVars, peerEnd, halted, countVars>>

(* AcceptConnection(status # 0): libuv has stopped listening.  Connections it  *)
(* has taken already are still reported.                                       *)
ListenBreaks ==
  /\ LoopAt("running") /\ listener = "listening" /\ failures < MaxFailures
  /\ listener' = "open" /\ backlog' \in 0 .. backlog /\ failures' = failures + 1
  /\ UserUnchanged
  /\ UNCHANGED <<leaked, clientVars, listVars, nextId, loop, async, asyncSent, contextVars,
                 peerEnd, halted, answers>>

(* Mutant: the context that is used again stays in the list.                   *)
FrontKept == avai

(* The list after its first context was taken, or a new one allocated.         *)
FrontTaken == IF avai = <<>> THEN <<>> ELSE Tail(avai)

(* AcceptConnection(0) has a context for the connection.                       *)
AcceptDue(c) ==
  /\ LoopAt("running") /\ listener \in {"open", "listening"} /\ backlog > 0
  /\ IF avai = <<>> THEN c \in Contexts \ allocated ELSE c = Head(avai)

(* uv_tcp_init and uv_accept may be called.                                    *)
Accepting(c) == AcceptDue(c) /\ listener = "listening" /\ handle[c] # "open"

(* Mutant: the AcceptClient is not written into the context.                   *)
ParentForgotten(id) == 0

(* parent_acceptclient, which AcceptClient::init sets.                         *)
ParentOf(id) == id

(* AcceptConnection(0): the client is in the map and reads, unless another     *)
(* thread holds the mutex for ever.  A new context has a new packetizer; a     *)
(* recycled one keeps its own.                                                 *)
AcceptOk(c) ==
  /\ Accepting(c)
  /\ backlog' = backlog - 1 /\ nextId' = nextId + 1
  /\ avai' = FrontTaken /\ allocated' = allocated \cup {c}
  /\ handle' = [handle EXCEPT ![c] = "reading"]
  /\ parent' = [parent EXCEPT ![c] = ParentOf(nextId + 1)]
  /\ peerEnd' = [peerEnd EXCEPT ![c] = "no"]
  /\ IF MayLock
     THEN /\ clients' = clients \cup {<<nextId + 1, c>>}
          /\ accepted' = accepted \cup {nextId + 1}
          /\ UNCHANGED loop
     ELSE loop' = "blocked" /\ UNCHANGED <<clients, accepted>>
  /\ UserUnchanged
  /\ UNCHANGED <<leaked, reported, pool, async, asyncSent, listener, writes, halted, answers,
                 failures>>

(* uv_accept fails: the context goes to the list, its handle is not closed.    *)
AcceptFails(c) ==
  /\ Accepting(c) /\ failures < MaxFailures
  /\ backlog' = backlog - 1 /\ nextId' = nextId + 1 /\ failures' = failures + 1
  /\ avai' = Append(FrontTaken, c) /\ allocated' = allocated \cup {c}
  /\ handle' = [handle EXCEPT ![c] = "open"]
  /\ parent' = [parent EXCEPT ![c] = 0]
  /\ UserUnchanged
  /\ UNCHANGED <<leaked, clientVars, pool, loop, async, asyncSent, listener, writes, peerEnd,
                 halted, answers>>

(* Mutant: the context is recycled at once, as after a failed uv_accept.       *)
BackAtOnce(list, c) == Append(list, c)

(* It is recycled when it is closed, by RecycleTcpHandle.                      *)
BackWhenClosed(list, c) == list

(* uv_read_start fails: the handle is closed.                                  *)
ReadFails(c) ==
  /\ Accepting(c) /\ failures < MaxFailures
  /\ backlog' = backlog - 1 /\ nextId' = nextId + 1 /\ failures' = failures + 1
  /\ avai' = BackWhenClosed(FrontTaken, c) /\ allocated' = allocated \cup {c}
  /\ handle' = [handle EXCEPT ![c] = "closing"]
  /\ parent' = [parent EXCEPT ![c] = 0]
  /\ UserUnchanged
  /\ UNCHANGED <<leaked, clientVars, pool, loop, async, asyncSent, listener, writes, peerEnd,
                 halted, answers>>

(* uv_tcp_init of a handle that is in the loop already; or uv_accept, which    *)
(* asserts that libuv still listens (uv_tcp_queue_accept).                     *)
AcceptOver(c) ==
  /\ AcceptDue(c) /\ ~Accepting(c)
  /\ halted' = IF handle[c] = "open" THEN "undefined" ELSE "assert"
  /\ UserUnchanged
  /\ UNCHANGED <<leaked, clientVars, listVars, nextId, loop, serverVars, contextVars,
                 peerEnd, answers, failures>>

AcceptConnection(c) == AcceptOk(c) \/ AcceptFails(c) \/ ReadFails(c) \/ AcceptOver(c)

(* Mutant: requests are taken from the list without looking whether it has them. *)
TakenBlindly(n) == pool - n

(* The list of write requests after n were taken from it, or allocated.        *)
Taken(n) == IF pool < n THEN 0 ELSE pool - n

(* AfterRecv(nread > 0): of the packets that are complete with what arrives n  *)
(* are answered (GetPacket, sendinl).                                          *)
AfterRecvData(c) ==
  /\ LoopAt("running") /\ handle[c] = "reading" /\ peerEnd[c] = "no"
  /\ \E n \in 1 .. (MaxAnswers - answers) :
       /\ answers' = answers + n
       /\ writes' = [writes EXCEPT ![c] = @ + n]
       /\ pool' = Taken(n)
  /\ UserUnchanged
  /\ UNCHANGED <<leaked, clientVars, avai, nextId, loop, serverVars, allocated, handle,
                 parent, peerEnd, halted, failures>>

(* Mutant: only the end of the stream closes the client.                       *)
EofClosesClient(how) == how = "eof"

(* Which ends of the stream close the client.                                  *)
ClosesClient(how) == how # "no"

(* AfterRecv(nread < 0): AcceptClient::Close.                                  *)
AfterRecvEnd(c) ==
  /\ LoopAt("running") /\ handle[c] = "reading" /\ ClosesClient(peerEnd[c])
  /\ handle' = [handle EXCEPT ![c] = "closing"]
  /\ UserUnchanged
  /\ UNCHANGED <<leaked, clientVars, listVars, nextId, loop, serverVars, allocated, parent,
                 writes, peerEnd, halted, answers, failures>>

(* AfterSend, whatever the status.                                             *)
AfterSend(c) ==
  /\ LoopAt("running") /\ writes[c] > 0
  /\ writes' = [writes EXCEPT ![c] = @ - 1]
  /\ pool' = IF pool > MaxList THEN pool ELSE pool + 1
  /\ UserUnchanged
  /\ UNCHANGED <<leaked, clientVars, avai, nextId, loop, serverVars, allocated, handle,
                 parent, peerEnd, halted, answers, failures>>

(* Mutant: the list takes every context.                                       *)
NeverFull == FALSE

(* The list takes no more contexts.                                            *)
ListFull == Len(avai) > MaxList

(* A context whose handle is closed is freed, or goes to the list.             *)
Recycle(c) ==
  IF ListFull
  THEN /\ allocated' = allocated \ {c} /\ handle' = [handle EXCEPT ![c] = "none"]
       /\ UNCHANGED avai
  ELSE /\ avai' = Append(avai, c) /\ handle' = [handle EXCEPT ![c] = "closed"]
       /\ UNCHANGED allocated

(* The endgame of a context's handle, once no write of it is in flight.        *)
Endgame(c) == LoopAt("running") /\ handle[c] = "closing" /\ writes[c] = 0

(* Mutant: the client stays in the map.                                        *)
KeptIn(id, c) == clients

(* clients_list_ after the client was erased.                                  *)
ErasedFrom(id, c) == clients \ {<<id, c>>}

(* AfterClientClose and SubClientClosed.                                       *)
SubClientClosed(c) ==
  LET id == parent[c] IN
  /\ Endgame(c) /\ <<id, c>> \in clients
  /\ IF MayLock
     THEN /\ clients' = ErasedFrom(id, c) /\ reported' = Append(reported, id)
          /\ Recycle(c)
          /\ UNCHANGED loop
     ELSE loop' = "blocked" /\ UNCHANGED <<clients, reported, avai, allocated, handle>>
  /\ UserUnchanged
  /\ UNCHANGED <<leaked, accepted, pool, nextId, serverVars, parent, writes, peerEnd,
                 halted, answers, failures>>

(* RecycleTcpHandle, for a connection that could not be read; AfterServerClose *)
(* for a handle that could not be accepted.                                    *)
RecycleTcpHandle(c) ==
  /\ Endgame(c) /\ c \notin Held
  /\ IF c \in Members(avai)
     THEN handle' = [handle EXCEPT ![c] = "closed"] /\ UNCHANGED <<avai, allocated>>
     ELSE Recycle(c)
  /\ UserUnchanged
  /\ UNCHANGED <<leaked, clientVars, pool, nextId, loop, serverVars, parent, writes,
                 peerEnd, halted, answers, failures>>

(* Mutant: CloseWalkCB passes over handles that are not active.                *)
WalkedIfActive(h) == IF h \in {"none", "closed", "open"} THEN h ELSE "closing"

(* CloseWalkCB: close a handle of the loop that is not closing.                *)
Walked(h) == IF h \in {"none", "closed"} THEN h ELSE "closing"

(* closeinl(): lock the mutex and close every client, then every handle.  A    *)
(* client whose handle is closing already is closed twice.                     *)
CloseInl ==
  IF ~MayLock
  THEN loop' = "blocked" /\ UNCHANGED <<leaked, async, listener, backlog, handle, halted>>
  ELSE /\ leaked' = starts
       /\ async' = "closing" /\ listener' = Walked(listener) /\ backlog' = 0
       /\ handle' = [c \in Contexts |-> Walked(handle[c])]
       /\ halted' = IF \E x \in clients : handle[x[2]] = "closing" THEN "closedTwice" ELSE "no"
       /\ UNCHANGED loop

(* The wakeup of uv_async_send: AsyncCloseCB, unless the handle is closing.    *)
AsyncCloseCB ==
  /\ LoopAt("running") /\ asyncSent
  /\ asyncSent' = FALSE
  /\ IF async = "open" /\ isuseraskforclosed
     THEN CloseInl
     ELSE UNCHANGED <<leaked, async, listener, backlog, handle, halted, loop>>
  /\ UserUnchanged
  /\ UNCHANGED <<clientVars, listVars, nextId, allocated, parent, writes, peerEnd,
                 answers, failures>>

(* The endgames of the server's own handles.                                   *)
CloseListener ==
  /\ LoopAt("running") /\ listener = "closing"
  /\ listener' = "closed"
  /\ UserUnchanged
  /\ UNCHANGED <<leaked, clientVars, listVars, nextId, loop, async, asyncSent, backlog,
                 contextVars, peerEnd, halted, answers, failures>>

CloseAsync ==
  /\ LoopAt("running") /\ async = "closing" /\ ~asyncSent
  /\ async' = "closed"
  /\ UserUnchanged
  /\ UNCHANGED <<leaked, clientVars, listVars, nextId, loop, asyncSent, listener, backlog,
                 contextVars, peerEnd, halted, answers, failures>>

(* uv__loop_alive: an active or closing handle is left.                        *)
LoopAlive ==
  \/ async \in {"open", "closing"}
  \/ listener \in {"listening", "closing"}
  \/ \E c \in Contexts : handle[c] \in {"reading", "closing"}

(* uv_run returns, and StartThread goes on: isclosed_, then the request and    *)
(* closedcb_.  Start can come in between.                                      *)
LoopReturns ==
  /\ LoopAt("running") /\ ~LoopAlive
  /\ loop' = "returned"
  /\ UserUnchanged
  /\ UNCHANGED <<leaked, clientVars, listVars, nextId, serverVars, contextVars, peerEnd,
                 halted, answers, failures>>

RunEnds ==
  /\ LoopAt("returned")
  /\ isclosed' = TRUE
  /\ loop' = "ended" /\ clearing' = clearing \cup {starts}
  /\ UNCHANGED <<userVars, isuseraskforclosed, startstatus, leaked, clientVars, listVars,
                 nextId, serverVars, contextVars, peerEnd, halted, countVars>>

ThreadEnds(run) ==
  /\ halted = "no" /\ run \in clearing
  /\ isuseraskforclosed' = FALSE
  /\ clearing' = clearing \ {run}
  /\ UNCHANGED <<userVars, isclosed, startstatus, leaked, clientVars, listVars, nextId, loop,
                 serverVars, contextVars, peerEnd, halted, countVars>>

ContextStep(c) ==
  \/ AcceptConnection(c) \/ AfterRecvData(c) \/ AfterRecvEnd(c) \/ AfterSend(c)
  \/ SubClientClosed(c) \/ RecycleTcpHandle(c)

LoopStep ==
  \/ StartThread \/ ListenBreaks \/ AsyncCloseCB \/ CloseListener \/ CloseAsync
  \/ LoopReturns \/ RunEnds

--------------------------------------------------------------------------------
Next ==
  \/ \E t \in Callers : UserStep(t)
  \/ OwnerStep
  \/ LoopStep
  \/ \E c \in Contexts : ContextStep(c) \/ PeerCloses(c)
  \/ \E run \in clearing : ThreadEnds(run)
  \/ PeerConnects

Spec == Init /\ [][Next]_vars

(* A call that has begun goes on: its thread is scheduled.                     *)
CallsGoOn ==
  /\ \A t \in Callers : WF_vars(SetRecvCBReturn(t) \/ CloseAsk(t) \/ CloseReturn(t))
  /\ WF_vars(StartWaited \/ StartTimeout \/ StartReturn \/ DestroyJoin)

(* The loop thread runs every callback that is due.                            *)
LoopGoesOn ==
  /\ WF_vars(StartThread) /\ WF_vars(AsyncCloseCB)
  /\ WF_vars(CloseListener) /\ WF_vars(CloseAsync)
  /\ WF_vars(LoopReturns \/ RunEnds)
  /\ \A c \in Contexts :
       /\ WF_vars(AfterRecvEnd(c)) /\ WF_vars(AfterSend(c))
       /\ WF_vars(SubClientClosed(c) \/ RecycleTcpHandle(c))
  /\ WF_vars(\E c \in Contexts : AcceptConnection(c))
  /\ \A run \in 1 .. MaxStarts : WF_vars(ThreadEnds(run))

FairSpec == Spec /\ CallsGoOn /\ LoopGoesOn

--------------------------------------------------------------------------------
(* Properties.                                                                 *)

(* Every context that was allocated has exactly one owner: a client of the map, *)
(* one place in the free list, or the close callback that will recycle it; and *)
(* no freed context has one (AcceptConnection, SubClientClosed,                *)
(* RecycleTcpHandle).                                                          *)
ContextsAccounted ==
  /\ \A x, y \in clients : x[2] = y[2] => x = y
  /\ \A i, j \in DOMAIN avai : avai[i] = avai[j] => i = j
  /\ Held \cap Members(avai) = {}
  /\ Held \cup Members(avai) \subseteq allocated
  /\ loop # "blocked" =>
       \A c \in allocated \ (Held \cup Members(avai)) : handle[c] = "closing"

(* A context in the free list is not in use: nobody reads into it, no write of *)
(* it is in flight, and its handle is not closing unless the server is.        *)
FreeMeansQuiet ==
  \A c \in Members(avai) :
    /\ handle[c] # "reading" /\ writes[c] = 0
    /\ handle[c] = "closing" => async # "open"

(* AfterRecv and AfterClientClose go from the handle's context to its          *)
(* AcceptClient: while a handle can call them, that client is in the map and   *)
(* holds this context.                                                         *)
HandlesHaveClient ==
  loop # "blocked" =>
    \A c \in Contexts :
      handle[c] = "reading" \/ (handle[c] = "closing" /\ parent[c] # 0)
        => <<parent[c], c>> \in clients

(* When isclosed_ is set, which lets Start initialise the handles again, every *)
(* handle is closed, no client is left and no write is in flight.              *)
ClosedMeansDead ==
  isclosed => /\ async \in {"none", "closed"} /\ listener \in {"none", "closed"}
              /\ clients = {}
              /\ \A c \in Contexts : handle[c] \in {"none", "closed"} /\ writes[c] = 0

(* The map, the close callbacks of the clients and isclosed_ keep the promise  *)
(* of Sessions: whatever fails, nobody joins a closed server, every client is  *)
(* reported as it leaves, and none is left when the server counts as closed    *)
(* (AcceptConnection, SubClientClosed, StartThread).                           *)
Registered == INSTANCE Sessions
                WITH Ids <- 1 .. MaxConns, up <- ~isclosed, open <- {x[1] : x \in clients}
ImplementsSessions == Registered!Spec

(* Both free lists stay bounded, also by the contexts AcceptConnection puts    *)
(* back without looking at MAXLISTSIZE.                                        *)
ListsBounded == Len(avai) <= MaxList + 1 /\ pool <= MaxList + 1

(* The first Start returns true only if its thread has begun to run the loop.  *)
StartHonest == starts = 1 /\ startResult = "ok" => loop \notin {"none", "starting"}

(* A server whose Start has created a thread that has not ended.               *)
HasThread == loop \in {"starting", "running", "returned"}

(* After Close of the first run the loop ends, whatever its clients were       *)
(* doing.  The first run locks mutex_clients_ for good: in a later one the     *)
(* loop's own closeinl blocks for ever, and the end of the run before may      *)
(* clear the request.                                                          *)
CloseCompletes ==
  starts = 1 /\ isuseraskforclosed /\ HasThread ~> isclosed \/ halted # "no"

(* A client whose peer has gone is closed, its writes are waited for, and it   *)
(* is reported to the user.                                                    *)
GoneClientsReported ==
  \A c \in Contexts, id \in 1 .. MaxConns :
    <<id, c>> \in clients /\ peerEnd[c] # "no"
      ~> id \in Members(reported) \/ halted # "no"
================================================================================
