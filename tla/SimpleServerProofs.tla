--------------------------- MODULE SimpleServerProofs --------------------------
(* Proofs about SimpleServer, for every number of clients and of pieces of     *)
(* data: what the callbacks of libuv find, how contexts and handles die        *)
(* together, what may be undefined, and that the table of clients keeps the    *)
(* promise of Registry.                                                        *)
EXTENDS SimpleServer, SequenceTheorems, TLAPS

--------------------------------------------------------------------------------
(* The handle queue.                                                           *)

(* No handle is in the queue twice.                                            *)
Once(seq) == \A i, j \in DOMAIN seq : seq[i] = seq[j] => i = j

Members(seq) == {seq[i] : i \in DOMAIN seq}

(* QUEUE_REMOVE takes out the one place where the handle is.                   *)
LEMMA RemovedFits ==
  ASSUME NEW S, NEW seq \in Seq(S), Once(seq), NEW k \in 2 .. Len(seq)
  PROVE  LET less == RemoveFirst(seq, seq[k]) IN
         /\ less \in Seq(S) /\ less # <<>> /\ less[1] = seq[1]
         /\ Once(less) /\ Members(less) = Members(seq) \ {seq[k]}
<1> DEFINE n == Len(seq)
           less == RemoveFirst(seq, seq[k])
           front == SubSeq(seq, 1, k - 1)
           back == SubSeq(seq, k + 1, n)
<1>1. n \in Nat /\ DOMAIN seq = 1 .. n /\ k \in 2 .. n /\ \A i \in 1 .. n : seq[i] \in S
  BY LenProperties
<1>2. less = front \o back
  <2>1. {i \in 1 .. n : seq[i] = seq[k]} = {k}
    BY <1>1 DEF Once
  <2>2. Min({k}) = k
    BY <1>1 DEF Min
  <2> QED
    BY <1>1, <2>1, <2>2 DEF RemoveFirst, SelectInSeq, RemoveAt
<1>3. front \in Seq(S) /\ Len(front) = k - 1 /\ \A i \in 1 .. k - 1 : front[i] = seq[i]
  BY <1>1, SubSeqProperties
<1>4. back \in Seq(S) /\ Len(back) = n - k /\ \A i \in 1 .. n - k : back[i] = seq[k + i]
  <2>1. k + 1 \in 1 .. n + 1 /\ \A i \in k + 1 .. n : i \in 1 .. n
    BY <1>1
  <2>2. /\ back \in Seq(S)
        /\ Len(back) = IF k + 1 <= n THEN n - (k + 1) + 1 ELSE 0
        /\ \A i \in 1 .. n - (k + 1) + 1 : back[i] = seq[(k + 1) + i - 1]
    BY <1>1, <2>1, SubSeqProperties
  <2>3. n - (k + 1) + 1 = n - k /\ \A i \in 1 .. n - k : (k + 1) + i - 1 = k + i
    BY <1>1
  <2> HIDE DEF n, back
  <2>4. Len(back) = n - k
    BY <1>1, <2>2
  <2>5. \A i \in 1 .. n - k : back[i] = seq[k + i]
    BY <1>1, <2>2, <2>3
  <2> QED
    BY <2>2, <2>4, <2>5
<1> HIDE DEF n, less, front, back
<1>5. /\ less \in Seq(S) /\ Len(less) = n - 1
      /\ \A i \in 1 .. n - 1 : less[i] = IF i < k THEN seq[i] ELSE seq[i + 1]
  <2>1. less \in Seq(S)
    BY <1>2, <1>3, <1>4, ConcatProperties
  <2>2. Len(less) = Len(front) + Len(back)
    BY <1>2, <1>3, <1>4, ConcatProperties
  <2>3. \A i \in 1 .. Len(front) + Len(back) :
          less[i] = IF i <= Len(front) THEN front[i] ELSE back[i - Len(front)]
    BY <1>2, <1>3, <1>4, ConcatProperties
  <2>4. ASSUME NEW i \in 1 .. n - 1, i < k PROVE less[i] = seq[i]
    <3>1. i \in 1 .. Len(front) + Len(back) /\ i <= Len(front) /\ i \in 1 .. k - 1
      BY <1>1, <1>3, <1>4, <2>4
    <3> QED
      BY <1>3, <2>3, <3>1
  <2>5. ASSUME NEW i \in 1 .. n - 1, ~(i < k) PROVE less[i] = seq[i + 1]
    <3>1. less[i] = back[i - (k - 1)] /\ i - (k - 1) \in 1 .. n - k
      BY <1>1, <1>3, <1>4, <2>3, <2>5, SMTT(30)
    <3>2. back[i - (k - 1)] = seq[k + (i - (k - 1))] /\ k + (i - (k - 1)) = i + 1
      BY <1>1, <1>4, <3>1
    <3> QED
      BY <3>1, <3>2
  <2> QED
    BY <1>1, <1>3, <1>4, <2>1, <2>2, <2>4, <2>5
<1>6. DOMAIN less = 1 .. n - 1
  BY <1>1, <1>5, LenProperties
<1>7. less # <<>> /\ less[1] = seq[1]
  BY <1>1, <1>5, EmptySeq
<1>8. Once(less)
  <2>1. ASSUME NEW i \in 1 .. n - 1, NEW j \in 1 .. n - 1, less[i] = less[j], i < j
        PROVE  FALSE
    <3>1. PICK a \in 1 .. n : less[i] = seq[a] /\ a = IF i < k THEN i ELSE i + 1
      BY <1>1, <1>5
    <3>2. PICK b \in 1 .. n : less[j] = seq[b] /\ b = IF j < k THEN j ELSE j + 1
      BY <1>1, <1>5
    <3>3. a = b
      BY <1>1, <2>1, <3>1, <3>2 DEF Once
    <3> QED
      BY <1>1, <2>1, <3>1, <3>2, <3>3
  <2> QED
    BY <1>1, <1>6, <2>1 DEF Once
<1>9. Members(less) = Members(seq) \ {seq[k]}
  <2>1. ASSUME NEW i \in 1 .. n - 1 PROVE less[i] \in Members(seq) /\ less[i] # seq[k]
    <3>1. PICK a \in 1 .. n : less[i] = seq[a] /\ a # k
      BY <1>1, <1>5
    <3>2. seq[a] \in Members(seq)
      BY <1>1 DEF Members
    <3>3. seq[a] # seq[k]
      BY <1>1, <3>1 DEF Once
    <3> QED
      BY <3>1, <3>2, <3>3
  <2>2. ASSUME NEW i \in 1 .. n, seq[i] # seq[k] PROVE seq[i] \in Members(less)
    <3>1. CASE i < k
      BY <1>1, <1>5, <1>6, <3>1, SMTT(30) DEF Members
    <3>2. CASE i > k
      <4>1. i - 1 \in 1 .. n - 1 /\ less[i - 1] = seq[i]
        BY <1>1, <1>5, <3>2
      <4> QED
        BY <1>6, <4>1 DEF Members
    <3> QED
      BY <1>1, <2>2, <3>1, <3>2
  <2>3. Members(seq) \ {seq[k]} \subseteq Members(less)
    BY <1>1, <2>2 DEF Members
  <2>4. Members(less) \subseteq Members(seq) \ {seq[k]}
    BY <1>6, <2>1 DEF Members
  <2> QED
    BY <2>3, <2>4
<1> QED
  BY <1>5, <1>7, <1>8, <1>9 DEF less

(* QUEUE_INSERT_TAIL adds one place.                                           *)
LEMMA InsertedFits ==
  ASSUME NEW S, NEW seq \in Seq(S), seq # <<>>, Once(seq), NEW e \in S, e \notin Members(seq)
  PROVE  LET more == Append(seq, e) IN
         /\ more \in Seq(S) /\ more # <<>> /\ more[1] = seq[1]
         /\ Once(more) /\ Members(more) = Members(seq) \cup {e}
<1> DEFINE more == Append(seq, e)
           n == Len(seq)
<1>1. /\ more \in Seq(S) /\ Len(more) = n + 1
      /\ \A i \in 1 .. n : more[i] = seq[i]
      /\ more[n + 1] = e
  BY AppendProperties
<1>2. DOMAIN more = 1 .. n + 1 /\ DOMAIN seq = 1 .. n /\ n \in Nat \ {0}
  BY <1>1, LenProperties, EmptySeq
<1> HIDE DEF more, n
<1>3. more # <<>> /\ more[1] = seq[1]
  BY <1>1, <1>2, EmptySeq
<1>4. Once(more)
  BY <1>1, <1>2 DEF Once, Members
<1>5. Members(more) = Members(seq) \cup {e}
  <2>1. Members(more) \subseteq Members(seq) \cup {e}
    BY <1>1, <1>2 DEF Members
  <2>2. Members(seq) \subseteq Members(more) /\ e \in Members(more)
    BY <1>1, <1>2 DEF Members
  <2> QED
    BY <2>1, <2>2
<1> QED
  BY <1>1, <1>3, <1>4, <1>5 DEF more

--------------------------------------------------------------------------------
(* What the operations on one handle do.                                       *)

LEMMA StoreFits ==
  ASSUME NEW h \in HandleType, NEW i \in CallbackIds
  PROVE  /\ Store(h, i) \in HandleType
         /\ Store(h, i).memory = h.memory /\ Store(h, i).state = h.state
         /\ Store(h, i).willClose = h.willClose
         /\ Store(h, i).table = h.table \cup {i}
BY DEF Store, HandleType, CallbackIds

LEMMA FreeFits ==
  ASSUME NEW h \in HandleType, h.memory = "live"
  PROVE  /\ FreeHandle(h) \in HandleType
         /\ FreeHandle(h).memory = "freed" /\ FreeHandle(h).state = h.state
         /\ FreeHandle(h).willClose = h.willClose
BY DEF FreeHandle, HandleType

LEMMA CloseFits ==
  ASSUME NEW h \in HandleType, h.state = "reading"
  PROVE  /\ Closed(h) \in HandleType
         /\ Closed(h).memory = h.memory /\ Closed(h).state = "closing"
         /\ Closed(h).willClose = TRUE
         /\ Closed(h).table = h.table \cup {"Close"}
BY DEF Closed, Store, HandleType, CallbackIds, States

LEMMA ConstructedFits ==
  /\ Constructed \in HandleType
  /\ Constructed.memory = "live" /\ Constructed.state = "open" /\ ~Constructed.willClose
BY DEF Constructed, NoHandle, HandleType, States

--------------------------------------------------------------------------------
(* The inductive invariant.                                                    *)

(* The life of a client's context and of its handle: what is living has a      *)
(* handle that is read or is closing, a number and its place in the table; a   *)
(* closing handle has the callback that frees it; what is written is living.   *)
ClientsLive ==
  \A c \in Clients :
    /\ context[c] = "none" <=> c > made
    /\ context[c] = "none" => handle[c] = NoHandle /\ id[c] = -1
    /\ context[c] = "live" <=> handle[c].state \in {"reading", "closing"}
    /\ context[c] = "live" => /\ handle[c].memory = "live"
                              /\ id[c] \in DOMAIN allClient /\ allClient[id[c]] = c
    /\ context[c] = "destroyed" => handle[c].memory = "freed"
    /\ handle[c].state = "reading" =>
         "ReadStart" \in handle[c].table /\ ~handle[c].willClose
    /\ handle[c].state = "closing" =>
         "Close" \in handle[c].table /\ handle[c].willClose
    /\ writing[c] => context[c] = "live" /\ "Write" \in handle[c].table

(* The table leads to living contexts, each under its own number.              *)
TableFits ==
  \A i \in DOMAIN allClient : context[allClient[i]] = "live" /\ id[allClient[i]] = i

(* The listener is never closed; the handle queue begins with it, holds every  *)
(* handle that is in use, and none twice; of the clients that got a number it  *)
(* holds only living ones.                                                     *)
QueueFits ==
  /\ handle[0].memory = IF loop = "exit" THEN "freed" ELSE "live"
  /\ ~handle[0].willClose
  /\ queue # <<>> /\ queue[1] = 0 /\ Once(queue)
  /\ \A h \in Members(queue) :
       h <= made /\ (h # 0 => context[h] = "live" \/ id[h] = -1)
  /\ \A c \in Clients : context[c] = "live" => c \in Members(queue)

(* uv_run returns only when no client is left.                                 *)
OverMeansEmpty ==
  loop \in {"over", "exit"} => \A c \in Clients : context[c] # "live"

(* Undefined behaviour comes from freed memory in the handle queue.            *)
UndefinedHasReason == undefined => \E h \in Members(queue) : Freed(h)

IInv ==
  /\ TypeOK /\ ClientsLive /\ TableFits /\ QueueFits
  /\ OverMeansEmpty /\ UndefinedHasReason

LEMMA InvInit == Init => IInv
<1> SUFFICES ASSUME Init PROVE IInv
  OBVIOUS
<1> USE ServerAssumption DEF Init, Constructed, NoHandle, Clients
<1>1. TypeOK
  <2>1. NoHandle \in HandleType /\ Constructed \in HandleType
    BY DEF HandleType, States
  <2>2. /\ handle \in [Handles -> HandleType]
        /\ \A h \in Handles : handle[h].memory # "freedTwice"
    BY <2>1
  <2>3. queue \in Seq(Handles)
    BY DEF Init
  <2>5. undefined \in BOOLEAN
    BY Zenon DEF Init
  <2>4. DOMAIN allClient = {}
    BY EmptySeq
  <2> QED
    BY <2>2, <2>3, <2>4, <2>5 DEF TypeOK
<1>2. ClientsLive
  BY DEF ClientsLive
<1>3. TableFits
  BY EmptySeq DEF TableFits
<1>4. queue # <<>> /\ queue[1] = 0 /\ Once(queue) /\ Members(queue) = {0}
  BY DEF Once, Members
<1>5. QueueFits
  <2>1. handle[0].memory = "live" /\ ~handle[0].willClose
    <3>1. handle[0] = Constructed
      BY DEF Init
    <3> QED
      BY <3>1, ConstructedFits, Zenon
  <2>2. made = 0 /\ loop = "start" /\ \A c \in Clients : context[c] = "none"
    OBVIOUS
  <2> QED
    BY <1>4, <2>1, <2>2 DEF QueueFits
<1>6. OverMeansEmpty /\ UndefinedHasReason
  BY DEF OverMeansEmpty, UndefinedHasReason
<1> QED
  BY <1>1, <1>2, <1>3, <1>5, <1>6 DEF IInv

--------------------------------------------------------------------------------
(* Every step keeps the invariant.                                             *)

LEMMA StartKeeps == ASSUME IInv, Start PROVE IInv'
<1> USE ServerAssumption DEF IInv, Clients
<1>1. handle[0] \in HandleType /\ 0 \in Handles /\ "Listen" \in CallbackIds
  BY DEF TypeOK, CallbackIds
<1>2. /\ handle' \in [Handles -> HandleType]
      /\ handle'[0].memory = "live" /\ ~handle'[0].willClose
      /\ \A c \in Clients : handle'[c] = handle[c]
  <2>1. handle' = [handle EXCEPT ![0] = Store(handle[0], "Listen")]
    BY DEF Start
  <2>2. handle[0].memory = "live" /\ ~handle[0].willClose
    BY DEF Start, QueueFits
  <2> QED
    BY <1>1, <2>1, <2>2, StoreFits DEF TypeOK
<1>3. UNCHANGED <<queue, undefined, made, nextId, allClient, context, id, peerVars>>
  BY DEF Start
<1>4. loop' = "run" /\ loop = "start" /\ listening' \in {"no", "yes"}
  BY DEF Start
<1>5. TypeOK'
  <2>1. \A h \in Handles : handle'[h].memory # "freedTwice"
    BY <1>2 DEF TypeOK
  <2> QED
    BY <1>2, <1>3, <1>4, <2>1 DEF TypeOK, peerVars
<1>6. ClientsLive' /\ TableFits'
  BY <1>2, <1>3 DEF ClientsLive, TableFits, peerVars
<1>7. QueueFits' /\ OverMeansEmpty'
  BY <1>2, <1>3, <1>4 DEF QueueFits, OverMeansEmpty
<1>8. UndefinedHasReason'
  <2>1. ASSUME NEW h \in Members(queue), Freed(h) PROVE handle'[h] = handle[h]
    <3>1. h \in Handles /\ h # 0
      BY <1>4, <2>1 DEF TypeOK, Members, QueueFits, Freed
    <3> QED
      BY <1>2, <3>1
  <2> QED
    BY <1>3, <2>1 DEF UndefinedHasReason, Freed
<1> QED
  BY <1>5, <1>6, <1>7, <1>8

(* A step that touches only the peers' side and the writes.                    *)
LEMMA PeersKeep ==
  ASSUME IInv, UNCHANGED <<handle, queue, serverVars>>,
         undefined' \in BOOLEAN,
         undefined' => undefined \/ \E h \in Members(queue) : Freed(h),
         writing' \in [Clients -> BOOLEAN], full' \in [Clients -> BOOLEAN],
         peer' \in [Clients -> {"none", "connected", "gone"}],
         unread' \in [Clients -> 0 .. MaxSends],
         \A c \in Clients : writing'[c] => writing[c]
  PROVE  IInv'
<1> USE DEF IInv, serverVars
<1>1. TypeOK'
  BY DEF TypeOK
<1>2. ClientsLive' /\ TableFits' /\ QueueFits' /\ OverMeansEmpty'
  BY DEF ClientsLive, TableFits, QueueFits, OverMeansEmpty
<1>3. UndefinedHasReason'
  BY DEF UndefinedHasReason, Freed
<1> QED
  BY <1>1, <1>2, <1>3

LEMMA WriteFinishedKeeps == ASSUME IInv, NEW c \in Clients, WriteFinished(c) PROVE IInv'
<1>1. TypeOK /\ UndefinedHasReason
  BY DEF IInv
<1>2. writing' = [writing EXCEPT ![c] = FALSE]
  BY DEF WriteFinished
<1>3. writing' \in [Clients -> BOOLEAN] /\ \A d \in Clients : writing'[d] => writing[d]
  BY <1>1, <1>2, Zenon DEF TypeOK
<1>4. UNCHANGED <<handle, queue, undefined, serverVars, peer, unread, full>>
  BY DEF WriteFinished
<1> QED
  BY <1>1, <1>3, <1>4, PeersKeep DEF TypeOK

LEMMA PeerStepKeeps == ASSUME IInv, NEW c \in Clients, PeerStep(c) PROVE IInv'
<1>1. TypeOK /\ MaxSends \in Nat
  BY ServerAssumption DEF IInv
<1>2. CASE PeerSends(c)
  <2>1. unread' \in [Clients -> 0 .. MaxSends]
    BY <1>1, <1>2 DEF TypeOK, PeerSends
  <2>2. UNCHANGED <<handle, queue, undefined, serverVars, writing, peer, full>>
    BY <1>2 DEF PeerSends
  <2> QED
    BY <1>1, <2>1, <2>2, PeersKeep DEF TypeOK
<1>3. CASE PeerCloses(c)
  <2>1. peer' \in [Clients -> {"none", "connected", "gone"}]
    BY <1>1, <1>3 DEF TypeOK, PeerCloses
  <2>2. UNCHANGED <<handle, queue, undefined, serverVars, writing, unread, full>>
    BY <1>3 DEF PeerCloses
  <2> QED
    BY <1>1, <2>1, <2>2, PeersKeep DEF TypeOK
<1> QED
  BY <1>2, <1>3 DEF PeerStep

LEMMA MembersAreHandles == ASSUME IInv PROVE Members(queue) \subseteq Handles
BY DEF IInv, TypeOK, Members

(* What is not live, of the handles made so far, has been freed.               *)
LEMMA MadeIsLiveOrFreed ==
  ASSUME IInv, NEW h \in Members(queue), ~Live(h)
  PROVE  Freed(h)
<1>1. h \in Handles /\ handle[h] \in HandleType /\ h <= made
  BY DEF IInv, TypeOK, QueueFits, Members
<1>2. handle[h].memory # "none"
  <2>1. CASE h = 0
    BY <2>1 DEF IInv, QueueFits
  <2>2. CASE h # 0
    <3>1. h \in Clients /\ context[h] # "none" /\ made \in Int
      BY <1>1, <2>2, ServerAssumption DEF IInv, TypeOK, ClientsLive, Clients
    <3>2. context[h] \in {"live", "destroyed"}
      BY <3>1 DEF IInv, TypeOK
    <3> QED
      BY <3>1, <3>2 DEF IInv, ClientsLive
  <2> QED
    BY <2>1, <2>2
<1>3. handle[h].memory \in {"none", "live", "freed", "freedTwice"}
  BY <1>1 DEF HandleType
<1> QED
  BY <1>2, <1>3 DEF Live, Freed

LEMMA InsertBreaksKeeps == ASSUME IInv, InsertBreaks PROVE IInv'
<1>1. \E h \in Members(queue) : Freed(h)
  <2>1. queue # <<>> /\ queue \in Seq(Handles) /\ ~Live(Last(queue))
    BY DEF IInv, QueueFits, TypeOK, InsertBreaks, Insertable
  <2>2. Len(queue) \in DOMAIN queue
    BY <2>1, LenProperties, EmptySeq
  <2>3. Last(queue) \in Members(queue)
    BY <2>2 DEF Last, Members
  <2> QED
    BY <2>1, <2>3, MadeIsLiveOrFreed
<1>2. UNCHANGED <<handle, queue, serverVars, peerVars>> /\ undefined' = TRUE
  BY DEF InsertBreaks
<1> QED
  BY <1>1, <1>2, PeersKeep DEF IInv, TypeOK, peerVars

LEMMA RemoveBreaksKeeps == ASSUME IInv, NEW c \in Clients, RemoveBreaks(c) PROVE IInv'
<1>1. \E h \in Members(queue) : Freed(h)
  <2>1. queue \in Seq(Handles) /\ ~Removable(c)
    BY DEF IInv, TypeOK, RemoveBreaks
  <2>2. PICK i \in DOMAIN queue : \/ i > 1 /\ ~Live(queue[i - 1])
                                  \/ i < Len(queue) /\ ~Live(queue[i + 1])
    BY <2>1 DEF Removable
  <2>3. DOMAIN queue = 1 .. Len(queue) /\ Len(queue) \in Nat
    BY <2>1, LenProperties
  <2>4. PICK j \in DOMAIN queue : ~Live(queue[j])
    BY <2>2, <2>3
  <2> QED
    BY <2>4, MadeIsLiveOrFreed DEF Members
<1>2. UNCHANGED <<handle, queue, serverVars, peerVars>> /\ undefined' = TRUE
  BY DEF RemoveBreaks
<1> QED
  BY <1>1, <1>2, PeersKeep DEF IInv, TypeOK, peerVars

LEMMA LoopEndsKeeps == ASSUME IInv, LoopEnds PROVE IInv'
<1> USE DEF IInv
<1>1. /\ loop = "run" /\ loop' = "over"
      /\ UNCHANGED <<handle, queue, undefined, listening, made, nextId, allClient,
                     context, id, peerVars>>
  BY DEF LoopEnds, Running
<1>2. \A c \in Clients : context[c] # "live"
  BY DEF LoopEnds, LoopAlive, ClientsLive
<1>3. TypeOK'
  BY <1>1 DEF TypeOK, peerVars
<1>4. ClientsLive' /\ TableFits' /\ QueueFits' /\ OverMeansEmpty'
  BY <1>1, <1>2 DEF ClientsLive, TableFits, QueueFits, OverMeansEmpty, peerVars
<1>5. UndefinedHasReason'
  BY <1>1 DEF UndefinedHasReason, Freed
<1> QED
  BY <1>3, <1>4, <1>5

(* A connection takes a new handle, at the end of the queue.                   *)
LEMMA NewContextFits ==
  ASSUME IInv, NEW c \in Clients, NewContext(c)
  PROVE  /\ loop = "run" /\ ~undefined /\ c = made + 1 /\ made' = c
         /\ c \in Handles /\ c # 0 /\ made \in Nat /\ nextId \in Nat
         /\ handle[c] = NoHandle /\ context[c] = "none" /\ id[c] = -1 /\ ~writing[c]
         /\ c \notin Members(queue)
         /\ queue' \in Seq(Handles) /\ queue' # <<>> /\ queue'[1] = 0
         /\ Once(queue') /\ Members(queue') = Members(queue) \cup {c}
         /\ UNCHANGED <<loop, undefined>>
<1> USE ServerAssumption DEF IInv
<1>1. /\ loop = "run" /\ ~undefined /\ c = made + 1 /\ made' = c
      /\ queue' = Append(queue, c) /\ UNCHANGED <<loop, undefined>>
  BY DEF NewContext, Running, Inserted
<1>2. c \in Handles /\ c # 0 /\ made \in Nat /\ nextId \in Nat
  BY DEF Clients, TypeOK
<1>3. handle[c] = NoHandle /\ context[c] = "none" /\ id[c] = -1 /\ ~writing[c]
  <2>1. context[c] = "none"
    BY <1>1, <1>2 DEF ClientsLive
  <2> QED
    BY <2>1 DEF ClientsLive
<1>4. c \notin Members(queue)
  BY <1>1, <1>2 DEF QueueFits
<1>5. /\ queue' \in Seq(Handles) /\ queue' # <<>> /\ queue'[1] = 0
      /\ Once(queue') /\ Members(queue') = Members(queue) \cup {c}
  <2>1. queue \in Seq(Handles) /\ queue # <<>> /\ queue[1] = 0 /\ Once(queue)
    BY DEF TypeOK, QueueFits
  <2> QED
    BY <1>1, <1>2, <1>4, <2>1, InsertedFits
<1> QED
  BY <1>1, <1>2, <1>3, <1>4, <1>5

LEMMA AcceptedKeeps == ASSUME IInv, NEW c \in Clients, Accepted(c) PROVE IInv'
<1> DEFINE new == [Store(Store(Constructed, "ReadStart"), "Write") EXCEPT !.state = "reading"]
<1>1. NewContext(c)
  BY DEF Accepted
<1>2. /\ loop = "run" /\ ~undefined /\ c = made + 1 /\ made' = c
      /\ c \in Handles /\ c # 0 /\ made \in Nat /\ nextId \in Nat
      /\ handle[c] = NoHandle /\ context[c] = "none" /\ id[c] = -1 /\ ~writing[c]
      /\ c \notin Members(queue)
      /\ queue' \in Seq(Handles) /\ queue' # <<>> /\ queue'[1] = 0
      /\ Once(queue') /\ Members(queue') = Members(queue) \cup {c}
      /\ UNCHANGED <<loop, undefined>>
  BY <1>1, NewContextFits
<1>3. /\ new \in HandleType /\ new.memory = "live" /\ new.state = "reading"
      /\ ~new.willClose /\ "ReadStart" \in new.table /\ "Write" \in new.table
  BY DEF Constructed, NoHandle, Store, HandleType, States, CallbackIds
<1> HIDE DEF new
<1>4. nextId \notin DOMAIN allClient
  BY <1>2 DEF IInv, TypeOK
<1>5. /\ id' = [id EXCEPT ![c] = nextId] /\ nextId' = nextId + 1
      /\ allClient' = [i \in DOMAIN allClient \cup {nextId} |->
                          IF i = nextId THEN c ELSE allClient[i]]
      /\ handle' = [handle EXCEPT ![c] = new]
      /\ context' = [context EXCEPT ![c] = "live"]
      /\ writing' = [writing EXCEPT ![c] = TRUE]
      /\ peer' = [peer EXCEPT ![c] = "connected"]
      /\ UNCHANGED <<listening, unread, full>>
  BY <1>4 DEF Accepted, AllocClientId, new
<1>6. c <= MaxClients /\ MaxClients \in Nat /\ Handles = 0 .. MaxClients /\ Clients = 1 .. MaxClients
  BY ServerAssumption DEF Clients
<1> USE DEF IInv
<1>7. TypeOK'
  <2>1. handle' \in [Handles -> HandleType] /\ \A h \in Handles : handle'[h].memory # "freedTwice"
    BY <1>2, <1>3, <1>5 DEF TypeOK
  <2>2. made' \in 0 .. MaxClients /\ nextId' \in 0 .. made' /\ nextId \in 0 .. made
    BY <1>2, <1>5, <1>6 DEF TypeOK
  <2>3. DOMAIN allClient' \subseteq 0 .. (nextId' - 1)
    BY <1>2, <1>5 DEF TypeOK
  <2>4. \A i \in DOMAIN allClient' : allClient'[i] \in Clients
    BY <1>5 DEF TypeOK
  <2>5. context' \in [Clients -> {"none", "live", "destroyed"}]
    BY <1>5 DEF TypeOK
  <2>6. id' \in [Clients -> -1 .. MaxClients]
    BY <1>2, <1>5, <1>6, <2>2 DEF TypeOK
  <2>7. writing' \in [Clients -> BOOLEAN] /\ full' \in [Clients -> BOOLEAN]
    BY <1>5, Zenon DEF TypeOK
  <2>8. peer' \in [Clients -> {"none", "connected", "gone"}]
    BY <1>5 DEF TypeOK
  <2>9. unread' \in [Clients -> 0 .. MaxSends] /\ listening' \in {"no", "yes", "broken"}
    BY <1>5 DEF TypeOK
  <2>10. queue' \in Seq(Handles) /\ undefined' \in BOOLEAN /\ loop' \in {"start", "run", "over", "exit"}
    BY <1>2 DEF TypeOK
  <2> QED
    BY <2>1, <2>2, <2>3, <2>4, <2>5, <2>6, <2>7, <2>8, <2>9, <2>10 DEF TypeOK
<1>8. /\ handle'[c] = new /\ context'[c] = "live" /\ id'[c] = nextId /\ nextId # -1
      /\ allClient'[nextId] = c /\ DOMAIN allClient' = DOMAIN allClient \cup {nextId}
      /\ \A i \in DOMAIN allClient : allClient'[i] = allClient[i]
      /\ \A d \in Clients \ {c} : /\ handle'[d] = handle[d] /\ context'[d] = context[d]
                                  /\ id'[d] = id[d] /\ writing'[d] = writing[d]
      /\ handle'[0] = handle[0]
  BY <1>2, <1>4, <1>5, <1>6 DEF TypeOK
<1>9. ClientsLive'
  <2> SUFFICES ASSUME NEW d \in Clients
               PROVE  /\ context'[d] = "none" <=> d > made'
                      /\ context'[d] = "none" => handle'[d] = NoHandle /\ id'[d] = -1
                      /\ context'[d] = "live" <=> handle'[d].state \in {"reading", "closing"}
                      /\ context'[d] = "live" =>
                           /\ handle'[d].memory = "live"
                           /\ id'[d] \in DOMAIN allClient' /\ allClient'[id'[d]] = d
                      /\ context'[d] = "destroyed" => handle'[d].memory = "freed"
                      /\ handle'[d].state = "reading" =>
                           "ReadStart" \in handle'[d].table /\ ~handle'[d].willClose
                      /\ handle'[d].state = "closing" =>
                           "Close" \in handle'[d].table /\ handle'[d].willClose
                      /\ writing'[d] => context'[d] = "live" /\ "Write" \in handle'[d].table
    BY DEF ClientsLive
  <2>1. CASE d = c
    BY <1>2, <1>3, <1>8, <2>1
  <2>2. CASE d # c
    <3>1. context[d] = "none" <=> d > made'
      BY <1>2, <1>6, <2>2 DEF ClientsLive
    <3> QED
      BY <1>8, <2>2, <3>1 DEF ClientsLive
  <2> QED
    BY <2>1, <2>2
<1>10. TableFits'
  <2> SUFFICES ASSUME NEW i \in DOMAIN allClient'
               PROVE  context'[allClient'[i]] = "live" /\ id'[allClient'[i]] = i
    BY DEF TableFits
  <2>1. CASE i = nextId
    BY <1>8, <2>1
  <2>2. CASE i # nextId
    <3>1. i \in DOMAIN allClient /\ allClient'[i] = allClient[i] /\ allClient[i] \in Clients
      BY <1>8, <2>2 DEF TypeOK
    <3>2. context[allClient[i]] = "live" /\ id[allClient[i]] = i
      BY <3>1 DEF TableFits
    <3> QED
      BY <1>2, <1>8, <3>1, <3>2, ZenonT(60)
  <2> QED
    BY <2>1, <2>2
<1>11. QueueFits'
  <2>1. handle'[0].memory = "live" /\ ~handle'[0].willClose /\ loop' = "run"
    BY <1>2, <1>8 DEF QueueFits
  <2>2. ASSUME NEW h \in Members(queue')
        PROVE  h <= made' /\ (h # 0 => context'[h] = "live" \/ id'[h] = -1)
    <3>1. CASE h = c
      BY <1>2, <1>6, <1>8, <3>1
    <3>2. CASE h # c
      <4>1. h \in Members(queue) /\ h \in Handles
        BY <1>2, <2>2, <3>2, MembersAreHandles
      <4>2. h <= made /\ (h # 0 => context[h] = "live" \/ id[h] = -1)
        BY <4>1 DEF QueueFits
      <4>3. h <= made'
        BY <1>2, <1>6, <4>1, <4>2
      <4>4. h # 0 => h \in Clients \ {c}
        BY <1>6, <3>2, <4>1
      <4> QED
        BY <1>8, <4>2, <4>3, <4>4
    <3> QED
      BY <3>1, <3>2
  <2>3. \A d \in Clients : context'[d] = "live" => d \in Members(queue')
    BY <1>2, <1>8 DEF QueueFits
  <2> QED
    BY <1>2, <2>1, <2>2, <2>3 DEF QueueFits
<1>12. OverMeansEmpty' /\ UndefinedHasReason'
  BY <1>2 DEF OverMeansEmpty, UndefinedHasReason
<1> QED
  BY <1>7, <1>9, <1>10, <1>11, <1>12

LEMMA AcceptFailsKeeps == ASSUME IInv, NEW c \in Clients, AcceptFails(c) PROVE IInv'
<1> DEFINE new == Destroyed(Constructed)
<1>1. NewContext(c)
  BY DEF AcceptFails
<1>2. /\ loop = "run" /\ ~undefined /\ c = made + 1 /\ made' = c
      /\ c \in Handles /\ c # 0 /\ made \in Nat /\ nextId \in Nat
      /\ handle[c] = NoHandle /\ context[c] = "none" /\ id[c] = -1 /\ ~writing[c]
      /\ c \notin Members(queue)
      /\ queue' \in Seq(Handles) /\ queue' # <<>> /\ queue'[1] = 0
      /\ Once(queue') /\ Members(queue') = Members(queue) \cup {c}
      /\ UNCHANGED <<loop, undefined>>
  BY <1>1, NewContextFits
<1>3. new \in HandleType /\ new.memory = "freed" /\ new.state = "open"
  BY ConstructedFits, FreeFits DEF Destroyed
<1> HIDE DEF new
<1>4. /\ handle' = [handle EXCEPT ![c] = new]
      /\ context' = [context EXCEPT ![c] = "destroyed"]
      /\ listening' \in {listening, "broken"}
      /\ UNCHANGED <<nextId, allClient, id, peerVars>>
  BY DEF AcceptFails, new
<1>5. c <= MaxClients /\ MaxClients \in Nat /\ Handles = 0 .. MaxClients /\ Clients = 1 .. MaxClients
  BY ServerAssumption DEF Clients
<1> USE DEF IInv
<1>6. TypeOK'
  <2>1. handle' \in [Handles -> HandleType] /\ \A h \in Handles : handle'[h].memory # "freedTwice"
    BY <1>2, <1>3, <1>4 DEF TypeOK
  <2>2. made' \in 0 .. MaxClients /\ nextId' \in 0 .. made'
    BY <1>2, <1>4, <1>5 DEF TypeOK
  <2>3. context' \in [Clients -> {"none", "live", "destroyed"}]
    BY <1>4 DEF TypeOK
  <2>4. queue' \in Seq(Handles) /\ undefined' \in BOOLEAN /\ loop' \in {"start", "run", "over", "exit"}
    BY <1>2 DEF TypeOK
  <2>5. listening' \in {"no", "yes", "broken"}
    BY <1>4 DEF TypeOK
  <2> QED
    BY <1>4, <2>1, <2>2, <2>3, <2>4, <2>5 DEF TypeOK, peerVars
<1>7. /\ handle'[c] = new /\ context'[c] = "destroyed" /\ handle'[0] = handle[0]
      /\ \A d \in Clients \ {c} : handle'[d] = handle[d] /\ context'[d] = context[d]
      /\ UNCHANGED <<id, allClient, writing>>
  BY <1>2, <1>4, <1>5 DEF TypeOK, peerVars
<1>8. ClientsLive'
  <2> SUFFICES ASSUME NEW d \in Clients
               PROVE  /\ context'[d] = "none" <=> d > made'
                      /\ context'[d] = "none" => handle'[d] = NoHandle /\ id[d] = -1
                      /\ context'[d] = "live" <=> handle'[d].state \in {"reading", "closing"}
                      /\ context'[d] = "live" =>
                           /\ handle'[d].memory = "live"
                           /\ id[d] \in DOMAIN allClient /\ allClient[id[d]] = d
                      /\ context'[d] = "destroyed" => handle'[d].memory = "freed"
                      /\ handle'[d].state = "reading" =>
                           "ReadStart" \in handle'[d].table /\ ~handle'[d].willClose
                      /\ handle'[d].state = "closing" =>
                           "Close" \in handle'[d].table /\ handle'[d].willClose
                      /\ writing[d] => context'[d] = "live" /\ "Write" \in handle'[d].table
    BY <1>7 DEF ClientsLive
  <2>1. CASE d = c
    BY <1>2, <1>3, <1>5, <1>7, <2>1
  <2>2. CASE d # c
    <3>1. context[d] = "none" <=> d > made'
      BY <1>2, <1>5, <2>2 DEF ClientsLive
    <3> QED
      BY <1>7, <2>2, <3>1 DEF ClientsLive
  <2> QED
    BY <2>1, <2>2
<1>9. TableFits'
  <2> SUFFICES ASSUME NEW i \in DOMAIN allClient
               PROVE  context'[allClient[i]] = "live" /\ id[allClient[i]] = i
    BY <1>7 DEF TableFits
  <2>1. allClient[i] \in Clients /\ context[allClient[i]] = "live" /\ id[allClient[i]] = i
    BY DEF TypeOK, TableFits
  <2> QED
    BY <1>2, <1>7, <2>1
<1>10. QueueFits'
  <2>1. handle'[0].memory = "live" /\ ~handle'[0].willClose /\ loop' = "run"
    BY <1>2, <1>7 DEF QueueFits
  <2>2. ASSUME NEW h \in Members(queue')
        PROVE  h <= made' /\ (h # 0 => context'[h] = "live" \/ id'[h] = -1)
    <3>1. CASE h = c
      BY <1>2, <1>5, <1>7, <3>1
    <3>2. CASE h # c
      <4>1. h \in Members(queue) /\ h \in Handles
        BY <1>2, <2>2, <3>2, MembersAreHandles
      <4>2. h <= made /\ (h # 0 => context[h] = "live" \/ id[h] = -1)
        BY <4>1 DEF QueueFits
      <4>3. h <= made'
        BY <1>2, <1>5, <4>1, <4>2
      <4>4. h # 0 => h \in Clients \ {c}
        BY <1>5, <3>2, <4>1
      <4> QED
        BY <1>7, <4>2, <4>3, <4>4
    <3> QED
      BY <3>1, <3>2
  <2>3. \A d \in Clients : context'[d] = "live" => d \in Members(queue')
    BY <1>2, <1>7 DEF QueueFits
  <2> QED
    BY <1>2, <2>1, <2>2, <2>3 DEF QueueFits
<1>11. OverMeansEmpty' /\ UndefinedHasReason'
  BY <1>2 DEF OverMeansEmpty, UndefinedHasReason
<1> QED
  BY <1>6, <1>8, <1>9, <1>10, <1>11

(* A read, with data or at the end.                                            *)
LEMMA OnRecvKeeps ==
  ASSUME IInv, NEW c \in Clients, NEW len \in Int, OnRecv(c, len),
         full' \in [Clients -> BOOLEAN], unread' \in [Clients -> 0 .. MaxSends]
  PROVE  IInv'
<1> DEFINE new == AfterRecv(c, len)
<1> USE DEF IInv
<1>1. /\ loop = "run" /\ ~undefined /\ handle[c].state = "reading"
      /\ handle' = [handle EXCEPT ![c] = new]
      /\ UNCHANGED <<queue, undefined, serverVars, writing, peer>>
  BY DEF OnRecv, Running
<1>2. c \in Handles /\ 0 \in Handles /\ c # 0 /\ Clients \subseteq Handles
  BY ServerAssumption DEF Clients
<1>3. /\ handle[c] \in HandleType /\ handle[c].memory = "live" /\ context[c] = "live"
      /\ "ReadStart" \in handle[c].table /\ ~handle[c].willClose
  BY <1>1, <1>2 DEF TypeOK, ClientsLive
<1>4. /\ new \in HandleType /\ new.memory = "live" /\ handle[c].table \subseteq new.table
      /\ \/ new.state = "reading" /\ ~new.willClose
         \/ new.state = "closing" /\ "Close" \in new.table /\ new.willClose
  <2>1. CASE Ends(len)
    <3>1. new = Closed(handle[c])
      BY <2>1 DEF AfterRecv
    <3> HIDE DEF new
    <3>2. /\ new \in HandleType /\ new.memory = "live" /\ new.state = "closing"
          /\ new.table = handle[c].table \cup {"Close"}
      BY <1>1, <1>3, <3>1, CloseFits
    <3>3. new.willClose
      BY <1>1, <1>3, <3>1, CloseFits, Zenon
    <3> QED
      BY <3>2, <3>3
  <2>2. CASE ~Ends(len)
    <3>1. new = handle[c]
      BY <2>2 DEF AfterRecv
    <3> HIDE DEF new
    <3> QED
      BY <1>1, <1>3, <3>1
  <2> QED
    BY <2>1, <2>2
<1> HIDE DEF new
<1>5. /\ handle' \in [Handles -> HandleType] /\ handle'[c] = new
      /\ \A h \in Handles \ {c} : handle'[h] = handle[h]
  BY <1>1, <1>2, <1>4 DEF TypeOK
<1>6. TypeOK'
  <2>1. \A h \in Handles : handle'[h].memory # "freedTwice"
    BY <1>4, <1>5 DEF TypeOK
  <2> QED
    BY <1>1, <1>5, <2>1 DEF TypeOK, serverVars
<1>7. ClientsLive'
  <2> SUFFICES ASSUME NEW d \in Clients
               PROVE  /\ context[d] = "none" <=> d > made
                      /\ context[d] = "none" => handle'[d] = NoHandle /\ id[d] = -1
                      /\ context[d] = "live" <=> handle'[d].state \in {"reading", "closing"}
                      /\ context[d] = "live" =>
                           /\ handle'[d].memory = "live"
                           /\ id[d] \in DOMAIN allClient /\ allClient[id[d]] = d
                      /\ context[d] = "destroyed" => handle'[d].memory = "freed"
                      /\ handle'[d].state = "reading" =>
                           "ReadStart" \in handle'[d].table /\ ~handle'[d].willClose
                      /\ handle'[d].state = "closing" =>
                           "Close" \in handle'[d].table /\ handle'[d].willClose
                      /\ writing[d] => context[d] = "live" /\ "Write" \in handle'[d].table
    BY <1>1 DEF ClientsLive, serverVars
  <2>1. CASE d = c
    BY <1>3, <1>4, <1>5, <2>1 DEF ClientsLive
  <2>2. CASE d # c
    <3>1. handle'[d] = handle[d]
      BY <1>2, <1>5, <2>2
    <3> QED
      BY <3>1 DEF ClientsLive
  <2> QED
    BY <2>1, <2>2
<1>8. TableFits' /\ OverMeansEmpty' /\ UndefinedHasReason'
  BY <1>1 DEF TableFits, OverMeansEmpty, UndefinedHasReason, serverVars
<1>9. QueueFits'
  BY <1>1, <1>2, <1>5 DEF QueueFits, serverVars
<1> QED
  BY <1>6, <1>7, <1>8, <1>9

LEMMA ReadKeeps ==
  ASSUME IInv, NEW c \in Clients, RecvData(c) \/ RecvNothing(c) \/ RecvEnd(c)
  PROVE  IInv'
<1>1. /\ full \in [Clients -> BOOLEAN] /\ unread \in [Clients -> 0 .. MaxSends]
      /\ MaxSends \in Nat
  BY ServerAssumption DEF IInv, TypeOK
<1>2. CASE RecvData(c)
  <2>1. unread' \in [Clients -> 0 .. MaxSends]
    BY <1>1, <1>2 DEF RecvData
  <2>2. full' \in [Clients -> BOOLEAN]
    BY <1>1, <1>2, Zenon DEF RecvData
  <2> QED
    BY <1>2, <2>1, <2>2, OnRecvKeeps DEF RecvData
<1>3. CASE RecvNothing(c)
  <2>1. full' \in [Clients -> BOOLEAN]
    BY <1>1, <1>3, Zenon DEF RecvNothing
  <2> QED
    BY <1>1, <1>3, <2>1, OnRecvKeeps DEF RecvNothing
<1>4. CASE RecvEnd(c)
  BY <1>1, <1>4, OnRecvKeeps DEF RecvEnd
<1> QED
  BY <1>2, <1>3, <1>4

(* The close callback destroys one context, the one its handle was made for,   *)
(* and takes the handle out of the queue.                                      *)
LEMMA CloseCallbackFits ==
  ASSUME IInv, NEW c \in Clients, CloseCallback(c)
  PROVE  /\ loop = "run" /\ ~undefined /\ context[c] = "live"
         /\ id[c] \in DOMAIN allClient /\ allClient[id[c]] = c
         /\ ~writing[c] /\ c \in Handles /\ c # 0
         /\ DOMAIN allClient' = DOMAIN allClient \ {id[c]}
         /\ \A i \in DOMAIN allClient' : allClient'[i] = allClient[i]
         /\ context' \in [Clients -> {"none", "live", "destroyed"}]
         /\ context'[c] = "destroyed"
         /\ \A d \in Clients \ {c} : context'[d] = context[d]
         /\ handle' \in [Handles -> HandleType]
         /\ handle'[c].memory = "freed" /\ handle'[c].state = "closed"
         /\ \A h \in Handles \ {c} : handle'[h] = handle[h]
         /\ queue' \in Seq(Handles) /\ queue' # <<>> /\ queue'[1] = 0
         /\ Once(queue') /\ Members(queue') = Members(queue) \ {c}
         /\ UNCHANGED <<undefined, loop, listening, made, nextId, id, peerVars>>
<1> DEFINE destroyed == {allClient[i] : i \in DOMAIN allClient \ DOMAIN Erased(id[c])}
<1> USE DEF IInv
<1>1. /\ loop = "run" /\ ~undefined /\ handle[c].state = "closing" /\ ~writing[c]
      /\ queue' = RemoveFirst(queue, c)
      /\ allClient' = Restrict(allClient, DOMAIN allClient \ {id[c]})
      /\ UNCHANGED <<undefined, loop, listening, made, nextId, id, peerVars>>
  BY DEF CloseCallback, MayClose, Running, Removed, Erased
<1>2. c \in Handles /\ 0 \in Handles /\ c # 0 /\ Clients \subseteq Handles
  BY ServerAssumption DEF Clients
<1>3. /\ context[c] = "live" /\ id[c] \in DOMAIN allClient /\ allClient[id[c]] = c
      /\ handle[c].memory = "live" /\ handle[c].willClose /\ handle[c] \in HandleType
  BY <1>1, <1>2 DEF ClientsLive, TypeOK
<1>4. /\ DOMAIN allClient' = DOMAIN allClient \ {id[c]}
      /\ \A i \in DOMAIN allClient' : allClient'[i] = allClient[i]
  BY <1>1 DEF Restrict
<1>5. destroyed = {c}
  <2>1. DOMAIN Erased(id[c]) = DOMAIN allClient \ {id[c]}
    BY DEF Erased, Restrict
  <2> QED
    BY <1>3, <2>1
<1>6. context' = [d \in Clients |-> IF d \in destroyed THEN "destroyed" ELSE context[d]]
  BY DEF CloseCallback
<1>7. handle' = [h \in Handles |->
                    LET after == IF h \in destroyed THEN Destroyed(handle[h]) ELSE handle[h]
                    IN  IF h = c THEN FreeHandle([after EXCEPT !.state = "closed"]) ELSE after]
  BY DEF CloseCallback
<1> HIDE DEF destroyed
<1>8. /\ context' \in [Clients -> {"none", "live", "destroyed"}]
      /\ context'[c] = "destroyed"
      /\ \A d \in Clients \ {c} : context'[d] = context[d]
  BY <1>5, <1>6 DEF TypeOK
<1>9. \A h \in Handles \ {c} : handle'[h] = handle[h]
  BY <1>5, <1>7
<1>10. /\ handle'[c] \in HandleType
       /\ handle'[c].memory = "freed" /\ handle'[c].state = "closed"
  <2> DEFINE closed == [handle[c] EXCEPT !.state = "closed"]
  <2>1. Destroyed(handle[c]) = handle[c]
    BY <1>3 DEF Destroyed
  <2>2. handle'[c] = FreeHandle(closed)
    BY <1>2, <1>5, <1>7, <2>1
  <2>3. closed \in HandleType /\ closed.memory = "live" /\ closed.state = "closed"
    BY <1>3 DEF HandleType, States
  <2> HIDE DEF closed
  <2> QED
    BY <2>2, <2>3, FreeFits
<1>11. handle' \in [Handles -> HandleType]
  BY <1>7, <1>9, <1>10 DEF TypeOK
<1>12. /\ queue' \in Seq(Handles) /\ queue' # <<>> /\ queue'[1] = 0
       /\ Once(queue') /\ Members(queue') = Members(queue) \ {c}
  <2>1. /\ queue \in Seq(Handles) /\ queue # <<>> /\ queue[1] = 0 /\ Once(queue)
        /\ c \in Members(queue)
    BY <1>3 DEF TypeOK, QueueFits
  <2>2. PICK k \in DOMAIN queue : queue[k] = c
    BY <2>1 DEF Members
  <2>3. k \in 2 .. Len(queue)
    BY <1>2, <2>1, <2>2, LenProperties
  <2> QED
    BY <1>1, <2>1, <2>2, <2>3, RemovedFits
<1> QED
  BY <1>1, <1>2, <1>3, <1>4, <1>8, <1>9, <1>10, <1>11, <1>12

LEMMA CloseCallbackKeeps == ASSUME IInv, NEW c \in Clients, CloseCallback(c) PROVE IInv'
<1> USE DEF IInv
<1>1. /\ loop = "run" /\ ~undefined /\ context[c] = "live"
      /\ id[c] \in DOMAIN allClient /\ allClient[id[c]] = c
      /\ ~writing[c] /\ c \in Handles /\ c # 0
      /\ DOMAIN allClient' = DOMAIN allClient \ {id[c]}
      /\ \A i \in DOMAIN allClient' : allClient'[i] = allClient[i]
      /\ context' \in [Clients -> {"none", "live", "destroyed"}]
      /\ context'[c] = "destroyed"
      /\ \A d \in Clients \ {c} : context'[d] = context[d]
      /\ handle' \in [Handles -> HandleType]
      /\ handle'[c].memory = "freed" /\ handle'[c].state = "closed"
      /\ \A h \in Handles \ {c} : handle'[h] = handle[h]
      /\ queue' \in Seq(Handles) /\ queue' # <<>> /\ queue'[1] = 0
      /\ Once(queue') /\ Members(queue') = Members(queue) \ {c}
      /\ UNCHANGED <<undefined, loop, listening, made, nextId, id, peerVars>>
  BY CloseCallbackFits
<1>2. 0 \in Handles /\ Handles = Clients \cup {0}
  BY ServerAssumption DEF Clients
<1>3. TypeOK'
  <2>1. \A h \in Handles : handle'[h].memory # "freedTwice"
    BY <1>1 DEF TypeOK
  <2>2. /\ DOMAIN allClient' \subseteq 0 .. (nextId - 1)
        /\ \A i \in DOMAIN allClient' : allClient'[i] \in Clients
    BY <1>1 DEF TypeOK
  <2> QED
    BY <1>1, <2>1, <2>2 DEF TypeOK, peerVars
<1>4. ClientsLive'
  <2> SUFFICES ASSUME NEW d \in Clients
               PROVE  /\ context'[d] = "none" <=> d > made
                      /\ context'[d] = "none" => handle'[d] = NoHandle /\ id[d] = -1
                      /\ context'[d] = "live" <=> handle'[d].state \in {"reading", "closing"}
                      /\ context'[d] = "live" =>
                           /\ handle'[d].memory = "live"
                           /\ id[d] \in DOMAIN allClient' /\ allClient'[id[d]] = d
                      /\ context'[d] = "destroyed" => handle'[d].memory = "freed"
                      /\ handle'[d].state = "reading" =>
                           "ReadStart" \in handle'[d].table /\ ~handle'[d].willClose
                      /\ handle'[d].state = "closing" =>
                           "Close" \in handle'[d].table /\ handle'[d].willClose
                      /\ writing[d] => context'[d] = "live" /\ "Write" \in handle'[d].table
    BY <1>1 DEF ClientsLive, peerVars
  <2>1. CASE d = c
    <3>1. ~(d > made)
      BY <1>1, <2>1 DEF ClientsLive
    <3> QED
      BY <1>1, <2>1, <3>1
  <2>2. CASE d # c
    <3>1. handle'[d] = handle[d] /\ context'[d] = context[d]
      BY <1>1, <1>2, <2>2
    <3>2. ASSUME context[d] = "live"
          PROVE  id[d] \in DOMAIN allClient' /\ allClient'[id[d]] = d
      <4>1. id[d] \in DOMAIN allClient /\ allClient[id[d]] = d
        BY <3>2 DEF ClientsLive
      <4>2. id[d] # id[c]
        BY <1>1, <2>2, <4>1
      <4> QED
        BY <1>1, <4>1, <4>2
    <3> QED
      BY <3>1, <3>2 DEF ClientsLive
  <2> QED
    BY <2>1, <2>2
<1>5. TableFits'
  <2> SUFFICES ASSUME NEW i \in DOMAIN allClient'
               PROVE  context'[allClient'[i]] = "live" /\ id[allClient'[i]] = i
    BY <1>1 DEF TableFits
  <2>1. i \in DOMAIN allClient /\ i # id[c] /\ allClient'[i] = allClient[i]
    BY <1>1
  <2>2. /\ allClient[i] \in Clients /\ context[allClient[i]] = "live"
        /\ id[allClient[i]] = i
    BY <2>1 DEF TypeOK, TableFits
  <2>3. allClient[i] # c
    BY <2>1, <2>2
  <2> QED
    BY <1>1, <2>1, <2>2, <2>3
<1>6. QueueFits'
  <2>1. handle'[0] = handle[0]
    BY <1>1, <1>2
  <2>2. ASSUME NEW h \in Members(queue')
        PROVE  h <= made /\ (h # 0 => context'[h] = "live" \/ id[h] = -1)
    <3>1. h \in Members(queue) /\ h # c /\ h \in Handles
      BY <1>1, MembersAreHandles
    <3> QED
      BY <1>1, <1>2, <3>1 DEF QueueFits
  <2>3. \A d \in Clients : context'[d] = "live" => d \in Members(queue')
    BY <1>1 DEF QueueFits
  <2> QED
    BY <1>1, <2>1, <2>2, <2>3 DEF QueueFits
<1>7. OverMeansEmpty' /\ UndefinedHasReason'
  BY <1>1 DEF OverMeansEmpty, UndefinedHasReason
<1> QED
  BY <1>3, <1>4, <1>5, <1>6, <1>7

(* When main returns no client is left, and only the listener is freed.        *)
LEMMA ExitFits ==
  ASSUME IInv, Exit
  PROVE  /\ loop = "over" /\ loop' = "exit" /\ DOMAIN allClient = {} /\ DOMAIN allClient' = {}
         /\ handle' = [h \in Handles |-> IF h = 0 THEN FreeHandle(handle[0]) ELSE handle[h]]
         /\ UNCHANGED <<context, queue, listening, made, nextId, id, peerVars>>
<1> USE DEF IInv
<1>1. loop = "over" /\ loop' = "exit" /\ allClient' = <<>>
  BY DEF Exit
<1>2. DOMAIN allClient = {}
  BY <1>1, ZenonT(60) DEF TypeOK, TableFits, OverMeansEmpty
<1>3. Range(allClient) = {}
  BY <1>2 DEF Range
<1>4. ~handle[0].willClose /\ 0 \in Handles
  BY ServerAssumption DEF QueueFits
<1>5. handle' = [h \in Handles |-> IF h = 0 \/ h \in Range(allClient)
                                   THEN Destroyed(handle[h]) ELSE handle[h]]
  BY DEF Exit
<1>6. handle' = [h \in Handles |-> IF h = 0 THEN FreeHandle(handle[0]) ELSE handle[h]]
  BY <1>3, <1>4, <1>5 DEF Destroyed
<1>7. context' = context
  <2>1. context' = [c \in Clients |-> IF c \in Range(allClient) THEN "destroyed" ELSE context[c]]
    BY DEF Exit
  <2> QED
    BY <1>3, <2>1 DEF TypeOK
<1>8. DOMAIN allClient' = {}
  BY <1>1, EmptySeq
<1> QED
  BY <1>1, <1>2, <1>6, <1>7, <1>8 DEF Exit

LEMMA ExitKeeps == ASSUME IInv, Exit PROVE IInv'
<1> USE DEF IInv
<1>1. /\ loop = "over" /\ loop' = "exit" /\ DOMAIN allClient = {} /\ DOMAIN allClient' = {}
      /\ handle' = [h \in Handles |-> IF h = 0 THEN FreeHandle(handle[0]) ELSE handle[h]]
      /\ UNCHANGED <<context, queue, listening, made, nextId, id, peerVars>>
  BY ExitFits
<1>2. 0 \in Handles /\ \A c \in Clients : c \in Handles /\ c # 0
  BY ServerAssumption DEF Clients
<1>3. handle[0] \in HandleType /\ handle[0].memory = "live" /\ ~handle[0].willClose
  BY <1>1, <1>2 DEF TypeOK, QueueFits
<1>4. /\ handle' \in [Handles -> HandleType]
      /\ handle'[0].memory = "freed" /\ ~handle'[0].willClose
      /\ \A c \in Clients : handle'[c] = handle[c]
      /\ \A h \in Handles : h # 0 => handle'[h] = handle[h]
  BY <1>1, <1>2, <1>3, FreeFits DEF TypeOK
<1>5. TypeOK'
  <2>1. \A h \in Handles : handle'[h].memory # "freedTwice"
    BY <1>4 DEF TypeOK
  <2>2. undefined' \in BOOLEAN
    BY Zenon DEF Exit
  <2> QED
    BY <1>1, <1>4, <2>1, <2>2 DEF TypeOK, peerVars
<1>6. ClientsLive'
  <2>1. \A c \in Clients : context[c] # "live"
    BY <1>1 DEF OverMeansEmpty
  <2> QED
    BY <1>1, <1>4, <2>1 DEF ClientsLive, peerVars
<1>7. TableFits' /\ OverMeansEmpty'
  BY <1>1 DEF TableFits, OverMeansEmpty
<1>8. QueueFits'
  BY <1>1, <1>4 DEF QueueFits
<1>9. UndefinedHasReason'
  <2>1. 0 \in Members(queue)
    BY LenProperties, EmptySeq DEF QueueFits, TypeOK, Members
  <2> QED
    BY <1>1, <1>4, <2>1 DEF UndefinedHasReason, Freed
<1> QED
  BY <1>5, <1>6, <1>7, <1>8, <1>9

LEMMA InvNext == IInv /\ [Next]_vars => IInv'
<1> SUFFICES ASSUME IInv, [Next]_vars PROVE IInv'
  OBVIOUS
<1>1. CASE Start
  BY <1>1, StartKeeps
<1>2. CASE Connections
  BY <1>2, AcceptedKeeps, AcceptFailsKeeps DEF Connections
<1>3. CASE InsertBreaks
  BY <1>3, InsertBreaksKeeps
<1>4. CASE LoopEnds
  BY <1>4, LoopEndsKeeps
<1>5. CASE Exit
  BY <1>5, ExitKeeps
<1>6. ASSUME NEW c \in Clients, ClientEvent(c) PROVE IInv'
  BY <1>6, ReadKeeps, WriteFinishedKeeps, CloseCallbackKeeps, RemoveBreaksKeeps
     DEF ClientEvent
<1>7. ASSUME NEW c \in Clients, PeerStep(c) PROVE IInv'
  BY <1>7, PeerStepKeeps
<1>8. CASE UNCHANGED vars
  BY <1>8, PeersKeep DEF vars, peerVars, IInv, TypeOK
<1> QED
  BY <1>1, <1>2, <1>3, <1>4, <1>5, <1>6, <1>7, <1>8 DEF Next

LEMMA Invariant == Spec => []IInv
BY InvInit, InvNext, PTL DEF Spec

--------------------------------------------------------------------------------
(* The theorems.                                                               *)

(* The variables have their types, and no handle is freed twice: neither by    *)
(* the close callback, which erases the context inside of itself, nor by main. *)
THEOREM TypeCorrect == Spec => []TypeOK
BY Invariant, PTL DEF IInv

(* Whatever libuv may still report of a client, its handle, the entry of its   *)
(* table and its context are there, for every number of clients.               *)
THEOREM CallbacksAreSafe == Spec => []CallbacksFindContext
<1>1. IInv => CallbacksFindContext
  <2> SUFFICES ASSUME IInv, NEW c \in Clients
               PROVE  /\ handle[c].state = "reading" =>
                           Live(c) /\ "ReadStart" \in handle[c].table /\ context[c] = "live"
                      /\ handle[c].state = "closing" =>
                           Live(c) /\ "Close" \in handle[c].table /\ context[c] = "live"
                      /\ writing[c] =>
                           Live(c) /\ "Write" \in handle[c].table /\ context[c] = "live"
    BY DEF CallbacksFindContext
  <2> QED
    BY DEF IInv, ClientsLive, Live
<1> QED
  BY <1>1, Invariant, PTL

(* The table of clients holds each living context once, under its number, and  *)
(* a context and its handle live and die together.                             *)
THEOREM ContextsAreInTable == Spec => []TableHoldsContexts
<1>1. IInv => TableHoldsContexts
  BY DEF IInv, TableFits, ClientsLive, TableHoldsContexts, Live, Freed
<1> QED
  BY <1>1, Invariant, PTL

(* Freed memory in the loop's handle queue is that of a failed accept, or of   *)
(* the listener at the end; without it nothing undefined happens.              *)
THEOREM OnlyFailureBreaksQueue == Spec => []QueueLivesUntilFailure
<1>1. IInv => QueueLivesUntilFailure
  <2> SUFFICES ASSUME IInv PROVE QueueLivesUntilFailure
    OBVIOUS
  <2>1. ASSUME NEW i \in DOMAIN queue, Freed(queue[i])
        PROVE  IF queue[i] = 0 THEN loop = "exit" ELSE id[queue[i]] = -1
    <3>1. queue[i] \in Members(queue) /\ queue[i] \in Handles
      BY MembersAreHandles DEF Members
    <3>2. CASE queue[i] = 0
      BY <2>1, <3>2 DEF IInv, QueueFits, Freed
    <3>3. CASE queue[i] # 0
      <4>1. queue[i] \in Clients
        BY <3>1, <3>3, ServerAssumption DEF Clients
      <4> QED
        BY <2>1, <3>1, <3>3, <4>1 DEF IInv, QueueFits, ClientsLive, Freed
    <3> QED
      BY <3>2, <3>3
  <2>2. undefined => \E i \in DOMAIN queue : Freed(queue[i])
    BY DEF IInv, UndefinedHasReason, Members
  <2> QED
    BY <2>1, <2>2 DEF QueueLivesUntilFailure
<1> QED
  BY <1>1, Invariant, PTL

(* m_all_Client with alloc_client_id implements Registry: a new number for     *)
(* every client that joins, and one client at a time leaves.                   *)
THEOREM ServerIsRegistry == Spec => ImplementsRegistry
<1>1. Init => Table!Init
  <2>1. Init => DOMAIN allClient = {} /\ nextId = 0
    BY EmptySeq DEF Init
  <2> QED
    BY <2>1 DEF Table!Init
<1>2. IInv /\ [Next]_vars => [Table!Join \/ Table!Leave]_<<DOMAIN allClient, nextId>>
  <2> SUFFICES ASSUME IInv, [Next]_vars
               PROVE  [Table!Join \/ Table!Leave]_<<DOMAIN allClient, nextId>>
    OBVIOUS
  <2>1. ASSUME NEW c \in Clients, Accepted(c) PROVE Table!Join
    <3>1. nextId \notin DOMAIN allClient
      BY DEF IInv, TypeOK
    <3>2. /\ nextId' = nextId + 1
          /\ allClient' = [i \in DOMAIN allClient \cup {nextId} |->
                              IF i = nextId THEN c ELSE allClient[i]]
      BY <2>1, <3>1 DEF Accepted, AllocClientId
    <3>3. (DOMAIN allClient)' = DOMAIN allClient \cup {nextId}
      BY <3>2
    <3> QED
      BY <3>2, <3>3 DEF Table!Join
  <2>2. ASSUME NEW c \in Clients, CloseCallback(c) PROVE Table!Leave
    BY <2>2, CloseCallbackFits DEF Table!Leave
  <2>3. CASE Exit
    <3>1. DOMAIN allClient = {} /\ DOMAIN allClient' = {} /\ nextId' = nextId
      BY <2>3, ExitFits
    <3> QED
      BY <3>1
  <2>4. CASE Start \/ InsertBreaks \/ LoopEnds \/ UNCHANGED vars
    BY <2>4 DEF Start, InsertBreaks, LoopEnds, vars, serverVars
  <2>5. ASSUME NEW c \in Clients,
               \/ AcceptFails(c) \/ RecvData(c) \/ RecvNothing(c) \/ RecvEnd(c)
               \/ WriteFinished(c) \/ RemoveBreaks(c) \/ PeerStep(c)
        PROVE  UNCHANGED <<allClient, nextId>>
    BY <2>5 DEF AcceptFails, RecvData, RecvNothing, RecvEnd, OnRecv, WriteFinished,
                RemoveBreaks, PeerStep, PeerSends, PeerCloses, serverVars
  <2> QED
    BY <2>1, <2>2, <2>3, <2>4, <2>5 DEF Next, Connections, ClientEvent
<1> QED
  BY <1>1, <1>2, Invariant, PTL DEF Spec, ImplementsRegistry, Table!Spec
================================================================================
