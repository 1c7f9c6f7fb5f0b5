----------------------------- MODULE SimpleServer ----------------------------
(***************************************************************************)
(* The server program src/libuv_cpp/main.cpp builds with classsvr: a       *)
(* CSimpleSvr on the uvpp layer (UvppHandle).  One thread runs the loop;   *)
(* every callback of libuv is one step, in any order libuv's Windows       *)
(* backend (src/libuv-1.x1/src/win) may produce.  Handle 0 listens, the    *)
(* others belong to the ClientCtx objects in the order they are made.      *)
(***************************************************************************)
EXTENDS UvppHandle

CONSTANTS MaxClients,  \* bound: connections reported
          MaxSends     \* bound: pieces of data each peer sends

ASSUME ServerAssumption == MaxClients \in Nat /\ MaxSends \in Nat /\ Handles = 0 .. MaxClients

Clients == 1 .. MaxClients

VARIABLES
    loop,       \* what main does: "start", "run" in uv_run, "over" after it, "exit"
    listening,  \* the listener: "no", "yes", "broken" when it accepts only what was queued
    made,       \* ClientCtx objects made so far
    nextId,     \* the static counter of alloc_client_id
    allClient,  \* m_all_Client
    context,    \* of each ClientCtx: "none", "live" or "destroyed"
    id,         \* its m_id, -1 when it never got one
    writing,    \* its write is in flight
    peer,       \* its peer: "none", "connected" or "gone"
    unread,     \* what the peer has sent and the server not read
    full        \* the last read has filled its buffer

serverVars == <<loop, listening, made, nextId, allClient, context, id>>
peerVars == <<writing, peer, unread, full>>
vars == <<handle, queue, undefined, serverVars, peerVars>>

Init ==
    /\ handle = [h \in Handles |-> IF h = 0 THEN Constructed ELSE NoHandle]
    /\ queue = <<0>> /\ undefined = FALSE
    /\ loop = "start" /\ listening = "no" /\ made = 0 /\ nextId = 0
    /\ allClient = <<>>
    /\ context = [c \in Clients |-> "none"] /\ id = [c \in Clients |-> -1]
    /\ writing = [c \in Clients |-> FALSE] /\ peer = [c \in Clients |-> "none"]
    /\ unread = [c \in Clients |-> 0] /\ full = [c \in Clients |-> FALSE]

------------------------------------------------------------------------------

(* CSimpleSvr::start.  Whether bind and listen succeed is not looked at. *)
Start ==
    /\ loop = "start"
    /\ loop' = "run" /\ listening' \in {"no", "yes"}
    /\ handle' = [handle EXCEPT ![0] = Store(@, "Listen")]
    /\ UNCHANGED <<queue, undefined, made, nextId, allClient, context, id, peerVars>>

(* the loop runs, and what it does is still defined *)
Running == loop = "run" /\ ~undefined

(* on_new_connected begins: make_unique<ClientCtx>. *)
NewContext(c) ==
    /\ Running /\ listening # "no" /\ made < MaxClients
    /\ c = made + 1 /\ made' = c
    /\ Insertable /\ queue' = Inserted(c)
    /\ UNCHANGED <<loop, undefined>>

(* Mutant: the next number is the size of the table. *)
AllocByCount == Cardinality(DOMAIN allClient)

AllocClientId == nextId

(* Accepted: SetReadCb, SetCloseCb, SendTo and the insertion, which does
   nothing when the key is there, so that the new context is destroyed. *)
Accepted(c) ==
    LET new == [Store(Store(Constructed, "ReadStart"), "Write") EXCEPT !.state = "reading"]
        taken == AllocClientId \in DOMAIN allClient
    IN  /\ NewContext(c)
        /\ id' = [id EXCEPT ![c] = AllocClientId] /\ nextId' = nextId + 1
        /\ allClient' = IF taken THEN allClient
                        ELSE [i \in DOMAIN allClient \cup {AllocClientId} |->
                                 IF i = AllocClientId THEN c ELSE allClient[i]]
        /\ handle' = [handle EXCEPT ![c] = IF taken THEN Destroyed(new) ELSE new]
        /\ context' = [context EXCEPT ![c] = IF taken THEN "destroyed" ELSE "live"]
        /\ writing' = [writing EXCEPT ![c] = TRUE]
        /\ peer' = [peer EXCEPT ![c] = "connected"]
        /\ UNCHANGED <<listening, unread, full>>

(* accept fails, for this connection, or because the listener is broken: that
   is reported once, and an error status only logged.  The context goes out of
   scope. *)
AcceptFails(c) ==
    /\ NewContext(c)
    /\ listening' \in {listening, "broken"}
    /\ handle' = [handle EXCEPT ![c] = Destroyed(Constructed)]
    /\ context' = [context EXCEPT ![c] = "destroyed"]
    /\ UNCHANGED <<nextId, allClient, id, peerVars>>

(* uv_tcp_init writes to the last handle of the queue, which is freed. *)
InsertBreaks ==
    /\ Running /\ listening # "no" /\ made < MaxClients /\ ~Insertable
    /\ undefined' = TRUE
    /\ UNCHANGED <<handle, queue, serverVars, peerVars>>

------------------------------------------------------------------------------
(* ClientCtx::OnRecv, with len > 0, len = 0 or len < 0. *)

(* Mutant: only an empty read ends the connection. *)
EndsWhenEmpty(len) == len = 0

Ends(len) == len <= 0

(* Mutant: the context is erased without waiting for the close callback. *)
RecvEndsAtOnce(c, len) == IF Ends(len) THEN FreeHandle(handle[c]) ELSE handle[c]

AfterRecv(c, len) == IF Ends(len) THEN Closed(handle[c]) ELSE handle[c]

OnRecv(c, len) ==
    /\ Running /\ handle[c].state = "reading"
    /\ handle' = [handle EXCEPT ![c] = AfterRecv(c, len)]
    /\ UNCHANGED <<queue, undefined, serverVars, writing, peer>>

RecvData(c) ==
    /\ unread[c] > 0 /\ OnRecv(c, 1)
    /\ unread' = [unread EXCEPT ![c] = @ - 1]
    /\ \E b \in BOOLEAN : full' = [full EXCEPT ![c] = b]

(* After a read that filled its buffer libuv reads again and reports, when
   nothing is there, 0 bytes. *)
RecvNothing(c) ==
    /\ full[c] /\ unread[c] = 0 /\ peer[c] = "connected" /\ OnRecv(c, 0)
    /\ full' = [full EXCEPT ![c] = FALSE] /\ UNCHANGED unread

(* EOF, or an error, which may overtake data *)
RecvEnd(c) ==
    /\ peer[c] = "gone" /\ OnRecv(c, -1)
    /\ UNCHANGED <<unread, full>>

(* OnWriteFinished, of a write that succeeded, failed or was cancelled *)
WriteFinished(c) ==
    /\ Running /\ writing[c]
    /\ writing' = [writing EXCEPT ![c] = FALSE]
    /\ UNCHANGED <<handle, queue, undefined, serverVars, peer, unread, full>>

------------------------------------------------------------------------------

(* Mutant: the close callback erases nothing. *)
NotErased(i) == allClient

(* close_cb: m_all_Client.erase(client_id) *)
Erased(i) == Restrict(allClient, DOMAIN allClient \ {i})

(* the end of libuv's endgame: the requests are done, the handle leaves the
   queue, the close callback destroys the context it was made for, and the
   lambda of Handle::close frees the handle. *)
MayClose(c) == Running /\ handle[c].state = "closing" /\ ~writing[c]

CloseCallback(c) ==
    LET destroyed == {allClient[i] : i \in DOMAIN allClient \ DOMAIN Erased(id[c])}
    IN  /\ MayClose(c) /\ Removable(c)
        /\ queue' = Removed(c)
        /\ allClient' = Erased(id[c])
        /\ context' = [d \in Clients |-> IF d \in destroyed THEN "destroyed" ELSE context[d]]
        /\ handle' =
             [h \in Handles |->
                 LET after == IF h \in destroyed THEN Destroyed(handle[h]) ELSE handle[h]
                 IN  IF h = c THEN FreeHandle([after EXCEPT !.state = "closed"]) ELSE after]
        /\ UNCHANGED <<undefined, loop, listening, made, nextId, id, peerVars>>

(* QUEUE_REMOVE writes to a neighbour that is freed. *)
RemoveBreaks(c) ==
    /\ MayClose(c) /\ ~Removable(c)
    /\ undefined' = TRUE
    /\ UNCHANGED <<handle, queue, serverVars, peerVars>>

------------------------------------------------------------------------------

LoopAlive == \/ listening = "yes"
             \/ \E c \in Clients : handle[c].state \in {"reading", "closing"} \/ writing[c]

(* uv_run and start return. *)
LoopEnds ==
    /\ Running /\ ~LoopAlive
    /\ loop' = "over"
    /\ UNCHANGED <<handle, queue, undefined, listening, made, nextId, allClient, context, id, peerVars>>

(* main returns: the server goes first, its clients and then its listener, which
   nobody has closed; then the loop, and uv_loop_close reads the handle that is
   first in the queue. *)
Exit ==
    LET gone == Range(allClient)
    IN  /\ loop = "over" /\ loop' = "exit"
        /\ handle' = [h \in Handles |-> IF h = 0 \/ h \in gone THEN Destroyed(handle[h]) ELSE handle[h]]
        /\ context' = [c \in Clients |-> IF c \in gone THEN "destroyed" ELSE context[c]]
        /\ allClient' = <<>>
        /\ undefined' = (handle'[Head(queue)].memory = "freed")
        /\ UNCHANGED <<queue, listening, made, nextId, id, peerVars>>

------------------------------------------------------------------------------
(* the peers *)

PeerSends(c) ==
    /\ peer[c] = "connected" /\ unread[c] < MaxSends
    /\ unread' = [unread EXCEPT ![c] = @ + 1]
    /\ UNCHANGED <<handle, queue, undefined, serverVars, writing, peer, full>>

PeerCloses(c) ==
    /\ peer[c] = "connected"
    /\ peer' = [peer EXCEPT ![c] = "gone"]
    /\ UNCHANGED <<handle, queue, undefined, serverVars, writing, unread, full>>

Connections == \E c \in Clients : Accepted(c) \/ AcceptFails(c)

(* what libuv reports of a client *)
ClientEvent(c) ==
    \/ RecvData(c) \/ RecvNothing(c) \/ RecvEnd(c)
    \/ WriteFinished(c) \/ CloseCallback(c) \/ RemoveBreaks(c)

PeerStep(c) == PeerSends(c) \/ PeerCloses(c)

Next ==
    \/ Start \/ Connections \/ InsertBreaks \/ LoopEnds \/ Exit
    \/ \E c \in Clients : ClientEvent(c) \/ PeerStep(c)

Spec == Init /\ [][Next]_vars

(* libuv delivers what it has to report. *)
FairSpec ==
    Spec /\ \A c \in Clients :
                /\ WF_vars(RecvEnd(c))
                /\ WF_vars(WriteFinished(c))
                /\ WF_vars(CloseCallback(c) \/ RemoveBreaks(c))

------------------------------------------------------------------------------

(* The variables have their types, and no handle is freed twice. *)
TypeOK ==
    /\ handle \in [Handles -> HandleType]
    /\ \A h \in Handles : handle[h].memory # "freedTwice"
    /\ queue \in Seq(Handles) /\ undefined \in BOOLEAN
    /\ loop \in {"start", "run", "over", "exit"} /\ listening \in {"no", "yes", "broken"}
    /\ made \in 0 .. MaxClients /\ nextId \in 0 .. made
    /\ DOMAIN allClient \subseteq 0 .. (nextId - 1)
    /\ \A i \in DOMAIN allClient : allClient[i] \in Clients
    /\ context \in [Clients -> {"none", "live", "destroyed"}]
    /\ id \in [Clients -> -1 .. MaxClients]
    /\ writing \in [Clients -> BOOLEAN] /\ full \in [Clients -> BOOLEAN]
    /\ peer \in [Clients -> {"none", "connected", "gone"}]
    /\ unread \in [Clients -> 0 .. MaxSends]

(* Whatever libuv may still report of a client, the handle, the entry of its
   table (the assert of callback.hpp:126) and the ClientCtx the entry is bound
   to are there: a context lives until its close callback, and that comes after
   the last read and the last write (TcpConn.cpp:16, 21; Server.cpp:53-58). *)
CallbacksFindContext ==
    \A c \in Clients :
        /\ handle[c].state = "reading" =>
               Live(c) /\ "ReadStart" \in handle[c].table /\ context[c] = "live"
        /\ handle[c].state = "closing" =>
               Live(c) /\ "Close" \in handle[c].table /\ context[c] = "live"
        /\ writing[c] =>
               Live(c) /\ "Write" \in handle[c].table /\ context[c] = "live"

(* The table of clients holds each living context once, under its own number,
   and a context and its handle live and die together: the erase
   inside the close callback neither leaks a handle nor frees it before the
   callback is over (Server.cpp:53-61, handle.hpp:46-52, 87-88). *)
TableHoldsContexts ==
    /\ \A i \in DOMAIN allClient : context[allClient[i]] = "live" /\ id[allClient[i]] = i
    /\ \A c \in Clients :
           /\ context[c] = "live" => id[c] \in DOMAIN allClient /\ allClient[id[c]] = c /\ Live(c)
           /\ context[c] = "destroyed" => Freed(c)

(* Only two things put freed memory into the loop's handle queue: the context of
   an accept that failed (Server.cpp:39-43), which got no number, and the
   listener at the end of main.  Until one of them has happened nothing the
   program does is undefined. *)
QueueLivesUntilFailure ==
    /\ \A i \in DOMAIN queue :
           Freed(queue[i]) => IF queue[i] = 0 THEN loop = "exit" ELSE id[queue[i]] = -1
    /\ undefined => \E i \in DOMAIN queue : Freed(queue[i])

(* A client whose peer has gone is closed, erased and freed (Server.hpp:39-42,
   Server.cpp:53-56), unless the program became undefined before. *)
GoneClientsLeave ==
    \A c \in Clients :
        peer[c] = "gone" ~> (Freed(c) /\ context[c] = "destroyed") \/ undefined

(* m_all_Client with alloc_client_id implements the promise of Registry. *)
Table == INSTANCE Registry WITH members <- DOMAIN allClient, used <- nextId
ImplementsRegistry == Table!Spec
=============================================================================
