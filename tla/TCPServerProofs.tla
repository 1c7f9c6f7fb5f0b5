---------------------------- MODULE TCPServerProofs ----------------------------
(* Proofs about TCPServer, for every number of threads and contexts, every     *)
(* MAXLISTSIZE and every bound: the types; what ties the free list, the map of *)
(* clients, the handles and the closing of the server together; that the       *)
(* server keeps the promise of Sessions; and that closing never turns back and *)
(* is never stuck.                                                             *)
EXTENDS TCPServer, SequenceTheorems, TLAPS

--------------------------------------------------------------------------------
(* Lists.                                                                      *)

(* No item is in the list twice.                                               *)
Once(seq) == \A i, j \in DOMAIN seq : seq[i] = seq[j] => i = j

LEMMA MembersEmpty == Members(<<>>) = {} /\ Once(<<>>)
BY DEF Members, Once

(* What Append adds to a list.                                                 *)
LEMMA MembersAppend ==
  ASSUME NEW S, NEW seq \in Seq(S), NEW e \in S
  PROVE  /\ Append(seq, e) \in Seq(S)
         /\ Len(Append(seq, e)) = Len(seq) + 1
         /\ Members(Append(seq, e)) = Members(seq) \cup {e}
         /\ Once(seq) /\ e \notin Members(seq) => Once(Append(seq, e))
<1> DEFINE more == Append(seq, e)
<1>1. /\ more \in Seq(S) /\ Len(more) = Len(seq) + 1
      /\ \A i \in 1 .. Len(seq) : more[i] = seq[i]
      /\ more[Len(seq) + 1] = e
  BY AppendProperties
<1>2. DOMAIN more = 1 .. Len(seq) + 1 /\ DOMAIN seq = 1 .. Len(seq) /\ Len(seq) \in Nat
  BY <1>1, LenProperties
<1> HIDE DEF more
<1>3. Members(more) = Members(seq) \cup {e}
  <2>1. Members(more) \subseteq Members(seq) \cup {e}
    BY <1>1, <1>2 DEF Members
  <2>2. Members(seq) \subseteq Members(more)
    BY <1>1, <1>2 DEF Members
  <2>3. e \in Members(more)
    BY <1>1, <1>2 DEF Members
  <2> QED
    BY <2>1, <2>2, <2>3
<1>4. Once(seq) /\ e \notin Members(seq) => Once(more)
  BY <1>1, <1>2 DEF Once, Members
<1> QED
  BY <1>1, <1>3, <1>4 DEF more

(* What is left of a list without its first item.                              *)
LEMMA MembersTail ==
  ASSUME NEW S, NEW seq \in Seq(S), seq # <<>>, Once(seq)
  PROVE  /\ Tail(seq) \in Seq(S)
         /\ Len(Tail(seq)) = Len(seq) - 1
         /\ Head(seq) \in Members(seq)
         /\ Members(Tail(seq)) = Members(seq) \ {Head(seq)}
         /\ Once(Tail(seq))
<1> DEFINE rest == Tail(seq)
           n == Len(seq)
<1>1. /\ rest \in Seq(S) /\ Len(rest) = n - 1
      /\ \A i \in 1 .. Len(rest) : rest[i] = seq[i + 1]
  BY HeadTailProperties
<1>2. /\ n \in Nat \ {0} /\ DOMAIN seq = 1 .. n /\ DOMAIN rest = 1 .. n - 1
  BY <1>1, LenProperties, EmptySeq
<1>3. Head(seq) = seq[1]
  OBVIOUS
<1> HIDE DEF rest, n
<1>4. Head(seq) \in Members(seq)
  BY <1>2, <1>3 DEF Members
<1>5. Members(rest) \subseteq Members(seq) \ {Head(seq)}
  BY <1>1, <1>2, <1>3, SMTT(30) DEF Members, Once
<1>6. Members(seq) \ {Head(seq)} \subseteq Members(rest)
  <2> SUFFICES ASSUME NEW i \in 1 .. n, seq[i] # seq[1] PROVE seq[i] \in Members(rest)
    BY <1>2, <1>3 DEF Members
  <2>1. i - 1 \in 1 .. n - 1 /\ seq[i] = rest[i - 1]
    BY <1>1, <1>2
  <2> QED
    BY <1>2, <2>1 DEF Members
<1>7. Once(rest)
  BY <1>1, <1>2, SMTT(30) DEF Once
<1> QED
  BY <1>1, <1>4, <1>5, <1>6, <1>7 DEF rest, n

--------------------------------------------------------------------------------
(* Type correctness.                                                           *)

LEMMA FrontType == avai \in Seq(Contexts) => FrontTaken \in Seq(Contexts)
BY HeadTailProperties, EmptySeq DEF FrontTaken

LEMMA TypeInit == Init => TypeOK
<1> SUFFICES ASSUME Init PROVE TypeOK
  OBVIOUS
<1>1. UserTypes /\ FieldTypes /\ ThreadTypes /\ ServerTypes /\ ContextTypes /\ PeerTypes
  BY DEF Init, UserTypes, FieldTypes, ThreadTypes, ServerTypes, ContextTypes, PeerTypes
<1>2. ListTypes /\ HistoryTypes
  BY EmptySeq DEF Init, ListTypes, HistoryTypes
<1> QED
  BY <1>1, <1>2 DEF TypeOK

LEMMA TypeUser ==
  ASSUME TypeOK, NEW t \in Callers, UserStep(t)
  PROVE  TypeOK'
<1>1. CASE SetRecvCB(t)
  <2>1. UserTypes'
    BY <1>1 DEF SetRecvCB, Goto, StartStates, DestroyStates, userVars, TypeOK, UserTypes
  <2>2. FieldTypes' /\ ListTypes' /\ ThreadTypes' /\ ServerTypes' /\ ContextTypes' /\
    PeerTypes' /\ HistoryTypes'
    BY <1>1 DEF SetRecvCB, fieldVars, clientVars, listVars, threadVars, serverVars,
      contextVars, countVars, TypeOK, FieldTypes, ListTypes, ThreadTypes, ServerTypes,
      ContextTypes, PeerTypes, HistoryTypes
  <2> QED
    BY <2>1, <2>2 DEF TypeOK
<1>2. CASE SetRecvCBReturn(t)
  <2>1. UserTypes'
    BY <1>2 DEF SetRecvCBReturn, Goto, StartStates, DestroyStates, userVars, TypeOK,
      UserTypes
  <2>2. FieldTypes' /\ ListTypes' /\ ThreadTypes' /\ ServerTypes' /\ ContextTypes' /\
    PeerTypes' /\ HistoryTypes'
    BY <1>2 DEF SetRecvCBReturn, fieldVars, clientVars, listVars, threadVars, serverVars,
      contextVars, countVars, TypeOK, FieldTypes, ListTypes, ThreadTypes, ServerTypes,
      ContextTypes, PeerTypes, HistoryTypes
  <2> QED
    BY <2>1, <2>2 DEF TypeOK
<1>3. CASE Close(t)
  <2>1. UserTypes'
    BY <1>3 DEF Close, Goto, StartStates, DestroyStates, userVars, TypeOK, UserTypes
  <2>2. FieldTypes'
    BY <1>3 DEF Close, fieldVars, TypeOK, FieldTypes
  <2>3. ListTypes' /\ ThreadTypes' /\ ServerTypes' /\ ContextTypes' /\ PeerTypes' /\
    HistoryTypes'
    BY <1>3 DEF Close, clientVars, listVars, threadVars, serverVars, contextVars,
      countVars, TypeOK, ListTypes, ThreadTypes, ServerTypes, ContextTypes, PeerTypes,
      HistoryTypes
  <2> QED
    BY <2>1, <2>2, <2>3 DEF TypeOK
<1>4. CASE CloseAsk(t)
  <2>1. UserTypes' /\ FieldTypes'
    BY <1>4 DEF CloseAsk, Goto, StartStates, DestroyStates, TypeOK, UserTypes, FieldTypes
  <2>2. ListTypes' /\ ThreadTypes' /\ ServerTypes' /\ ContextTypes' /\ PeerTypes' /\
    HistoryTypes'
    BY <1>4 DEF CloseAsk, clientVars, listVars, threadVars, serverVars, contextVars,
      countVars, TypeOK, ListTypes, ThreadTypes, ServerTypes, ContextTypes, PeerTypes,
      HistoryTypes
  <2> QED
    BY <2>1, <2>2 DEF TypeOK
<1>5. CASE CloseReturn(t)
  <2>1. UserTypes'
    BY <1>5 DEF CloseReturn, WakeForClose, AsyncSend, Goto, StartStates, DestroyStates,
      userVars, TypeOK, UserTypes
  <2>2. ServerTypes'
    BY <1>5 DEF CloseReturn, WakeForClose, AsyncSend, serverVars, TypeOK, ServerTypes
  <2>3. HistoryTypes'
    BY <1>5 DEF CloseReturn, WakeForClose, AsyncSend, clientVars, countVars, TypeOK,
      HistoryTypes
  <2>4. FieldTypes' /\ ListTypes' /\ ThreadTypes' /\ ContextTypes' /\ PeerTypes'
    BY <1>5 DEF CloseReturn, fieldVars, clientVars, listVars, threadVars, contextVars,
      TypeOK, FieldTypes, ListTypes, ThreadTypes, ContextTypes, PeerTypes
  <2> QED
    BY <2>1, <2>2, <2>3, <2>4 DEF TypeOK
<1> QED
  BY <1>1, <1>2, <1>3, <1>4, <1>5 DEF UserStep

LEMMA TypeOwner ==
  ASSUME TypeOK, OwnerStep
  PROVE  TypeOK'
<1>1. CASE StartClosed
  <2>1. UserTypes'
    BY <1>1, CallersAssumption DEF StartClosed, Goto, StartStates, DestroyStates,
      userVars, TypeOK, UserTypes
  <2>2. FieldTypes'
    BY <1>1 DEF StartClosed, fieldVars, TypeOK, FieldTypes
  <2>3. ThreadTypes'
    BY <1>1 DEF StartClosed, threadVars, TypeOK, ThreadTypes
  <2>4. ServerTypes'
    <3>1. async' = "open" /\ asyncSent' = FALSE
      BY <1>1 DEF StartClosed
    <3>2. listener' \in {"listening", "open"} /\ backlog' \in {0, backlog}
      BY <1>1 DEF StartClosed
    <3>3. asyncSent' \in BOOLEAN
      BY <3>1, Zenon
    <3> QED
      BY <3>1, <3>2, <3>3 DEF ServerTypes, TypeOK
  <2>5. HistoryTypes'
    BY <1>1 DEF StartClosed, clientVars, countVars, TypeOK, HistoryTypes
  <2>6. ListTypes' /\ ContextTypes' /\ PeerTypes'
    BY <1>1 DEF StartClosed, clientVars, listVars, contextVars, TypeOK, ListTypes,
      ContextTypes, PeerTypes
  <2> QED
    BY <2>1, <2>2, <2>3, <2>4, <2>5, <2>6 DEF TypeOK
<1>2. CASE StartOpen
  <2>1. HistoryTypes'
    BY <1>2 DEF StartOpen, clientVars, countVars, TypeOK, HistoryTypes
  <2>2. UserTypes' /\ FieldTypes' /\ ListTypes' /\ ThreadTypes' /\ ServerTypes' /\
    ContextTypes' /\ PeerTypes'
    BY <1>2 DEF StartOpen, userVars, fieldVars, clientVars, listVars, threadVars,
      serverVars, contextVars, TypeOK, UserTypes, FieldTypes, ListTypes, ThreadTypes,
      ServerTypes, ContextTypes, PeerTypes
  <2> QED
    BY <2>1, <2>2 DEF TypeOK
<1>3. CASE StartWaited
  <2>1. UserTypes'
    BY <1>3, CallersAssumption DEF StartWaited, Goto, StartStates, DestroyStates,
      userVars, TypeOK, UserTypes
  <2>2. FieldTypes' /\ ListTypes' /\ ThreadTypes' /\ ServerTypes' /\ ContextTypes' /\
    PeerTypes' /\ HistoryTypes'
    BY <1>3 DEF StartWaited, fieldVars, clientVars, listVars, threadVars, serverVars,
      contextVars, countVars, TypeOK, FieldTypes, ListTypes, ThreadTypes, ServerTypes,
      ContextTypes, PeerTypes, HistoryTypes
  <2> QED
    BY <2>1, <2>2 DEF TypeOK
<1>4. CASE StartTimeout
  <2>1. UserTypes'
    BY <1>4, CallersAssumption DEF StartTimeout, Goto, StartStates, DestroyStates,
      userVars, TypeOK, UserTypes
  <2>2. FieldTypes'
    BY <1>4 DEF StartTimeout, fieldVars, TypeOK, FieldTypes
  <2>3. ListTypes' /\ ThreadTypes' /\ ServerTypes' /\ ContextTypes' /\ PeerTypes' /\
    HistoryTypes'
    BY <1>4 DEF StartTimeout, clientVars, listVars, threadVars, serverVars, contextVars,
      countVars, TypeOK, ListTypes, ThreadTypes, ServerTypes, ContextTypes, PeerTypes,
      HistoryTypes
  <2> QED
    BY <2>1, <2>2, <2>3 DEF TypeOK
<1>5. CASE StartReturn
  <2>1. UserTypes'
    BY <1>5, CallersAssumption DEF StartReturn, Goto, StartStates, DestroyStates,
      userVars, TypeOK, UserTypes
  <2>2. FieldTypes' /\ ListTypes' /\ ThreadTypes' /\ ServerTypes' /\ ContextTypes' /\
    PeerTypes' /\ HistoryTypes'
    BY <1>5 DEF StartReturn, fieldVars, clientVars, listVars, threadVars, serverVars,
      contextVars, countVars, TypeOK, FieldTypes, ListTypes, ThreadTypes, ServerTypes,
      ContextTypes, PeerTypes, HistoryTypes
  <2> QED
    BY <2>1, <2>2 DEF TypeOK
<1>6. CASE DestroyJoin
  <2>1. UserTypes'
    BY <1>6, CallersAssumption DEF DestroyJoin, Goto, StartStates, DestroyStates,
      userVars, TypeOK, UserTypes
  <2>2. HistoryTypes'
    BY <1>6 DEF DestroyJoin, clientVars, countVars, TypeOK, HistoryTypes
  <2>3. FieldTypes' /\ ListTypes' /\ ThreadTypes' /\ ServerTypes' /\ ContextTypes' /\
    PeerTypes'
    BY <1>6 DEF DestroyJoin, fieldVars, clientVars, listVars, threadVars, serverVars,
      contextVars, TypeOK, FieldTypes, ListTypes, ThreadTypes, ServerTypes, ContextTypes,
      PeerTypes
  <2> QED
    BY <2>1, <2>2, <2>3 DEF TypeOK
<1> QED
  BY <1>1, <1>2, <1>3, <1>4, <1>5, <1>6 DEF OwnerStep

LEMMA TypeLoop ==
  ASSUME TypeOK, LoopStep
  PROVE  TypeOK'
<1>1. CASE StartThread
  <2>1. FieldTypes'
    BY <1>1 DEF StartThread, fieldVars, UserUnchanged, TypeOK, FieldTypes
  <2>2. ThreadTypes'
    BY <1>1 DEF StartThread, threadVars, UserUnchanged, TypeOK, ThreadTypes
  <2>3. UserTypes' /\ ListTypes' /\ ServerTypes' /\ ContextTypes' /\ PeerTypes' /\
    HistoryTypes'
    BY <1>1 DEF StartThread, UserUnchanged, userVars, fieldVars, clientVars, listVars,
      serverVars, contextVars, countVars, TypeOK, UserTypes, ListTypes, ServerTypes,
      ContextTypes, PeerTypes, HistoryTypes
  <2> QED
    BY <2>1, <2>2, <2>3 DEF TypeOK
<1>2. CASE ListenBreaks
  <2>1. ServerTypes'
    BY <1>2 DEF ListenBreaks, serverVars, UserUnchanged, TypeOK, ServerTypes
  <2>2. HistoryTypes'
    BY <1>2 DEF ListenBreaks, clientVars, countVars, UserUnchanged, TypeOK, HistoryTypes
  <2>3. UserTypes' /\ FieldTypes' /\ ListTypes' /\ ThreadTypes' /\ ContextTypes' /\
    PeerTypes'
    BY <1>2 DEF ListenBreaks, UserUnchanged, userVars, fieldVars, clientVars, listVars,
      threadVars, contextVars, TypeOK, UserTypes, FieldTypes, ListTypes, ThreadTypes,
      ContextTypes, PeerTypes
  <2> QED
    BY <2>1, <2>2, <2>3 DEF TypeOK
<1>3. CASE AsyncCloseCB
  <2>1. FieldTypes'
    BY <1>3 DEF AsyncCloseCB, CloseInl, Walked, fieldVars, UserUnchanged, TypeOK,
      FieldTypes, HistoryTypes
  <2>2. ThreadTypes'
    BY <1>3 DEF AsyncCloseCB, CloseInl, Walked, threadVars, UserUnchanged, TypeOK,
      ThreadTypes
  <2>3. ServerTypes'
    <3>1. /\ asyncSent' = FALSE /\ async' \in {async, "closing"}
          /\ listener' \in {listener, Walked(listener)} /\ backlog' \in {backlog, 0}
      BY <1>3 DEF AsyncCloseCB, CloseInl
    <3>2. asyncSent' \in BOOLEAN
      BY <3>1, Zenon
    <3> QED
      BY <3>1, <3>2 DEF ServerTypes, TypeOK, Walked
  <2>4. ContextTypes'
    BY <1>3 DEF AsyncCloseCB, CloseInl, Walked, contextVars, UserUnchanged, TypeOK,
      ContextTypes
  <2>5. HistoryTypes'
    BY <1>3 DEF AsyncCloseCB, CloseInl, Walked, clientVars, countVars, UserUnchanged,
      TypeOK, HistoryTypes
  <2>6. UserTypes' /\ ListTypes' /\ PeerTypes'
    BY <1>3 DEF AsyncCloseCB, UserUnchanged, userVars, fieldVars, clientVars, listVars,
      TypeOK, UserTypes, ListTypes, PeerTypes
  <2> QED
    BY <2>1, <2>2, <2>3, <2>4, <2>5, <2>6 DEF TypeOK
<1>4. CASE CloseListener
  <2>1. ServerTypes'
    BY <1>4 DEF CloseListener, serverVars, UserUnchanged, TypeOK, ServerTypes
  <2>2. UserTypes' /\ FieldTypes' /\ ListTypes' /\ ThreadTypes' /\ ContextTypes' /\
    PeerTypes' /\ HistoryTypes'
    BY <1>4 DEF CloseListener, UserUnchanged, userVars, fieldVars, clientVars, listVars,
      threadVars, contextVars, countVars, TypeOK, UserTypes, FieldTypes, ListTypes,
      ThreadTypes, ContextTypes, PeerTypes, HistoryTypes
  <2> QED
    BY <2>1, <2>2 DEF TypeOK
<1>5. CASE CloseAsync
  <2>1. ServerTypes'
    BY <1>5 DEF CloseAsync, serverVars, UserUnchanged, TypeOK, ServerTypes
  <2>2. UserTypes' /\ FieldTypes' /\ ListTypes' /\ ThreadTypes' /\ ContextTypes' /\
    PeerTypes' /\ HistoryTypes'
    BY <1>5 DEF CloseAsync, UserUnchanged, userVars, fieldVars, clientVars, listVars,
      threadVars, contextVars, countVars, TypeOK, UserTypes, FieldTypes, ListTypes,
      ThreadTypes, ContextTypes, PeerTypes, HistoryTypes
  <2> QED
    BY <2>1, <2>2 DEF TypeOK
<1>6. CASE LoopReturns
  <2>1. ThreadTypes'
    BY <1>6 DEF LoopReturns, threadVars, UserUnchanged, TypeOK, ThreadTypes
  <2>2. UserTypes' /\ FieldTypes' /\ ListTypes' /\ ServerTypes' /\ ContextTypes' /\
    PeerTypes' /\ HistoryTypes'
    BY <1>6 DEF LoopReturns, UserUnchanged, userVars, fieldVars, clientVars, listVars,
      serverVars, contextVars, countVars, TypeOK, UserTypes, FieldTypes, ListTypes,
      ServerTypes, ContextTypes, PeerTypes, HistoryTypes
  <2> QED
    BY <2>1, <2>2 DEF TypeOK
<1>7. CASE RunEnds
  <2>1. FieldTypes'
    BY <1>7 DEF RunEnds, fieldVars, UserUnchanged, TypeOK, FieldTypes
  <2>2. ThreadTypes'
    BY <1>7 DEF RunEnds, threadVars, UserUnchanged, TypeOK, ThreadTypes, HistoryTypes
  <2>3. UserTypes' /\ ListTypes' /\ ServerTypes' /\ ContextTypes' /\ PeerTypes' /\
    HistoryTypes'
    BY <1>7 DEF RunEnds, UserUnchanged, userVars, fieldVars, clientVars, listVars,
      serverVars, contextVars, countVars, TypeOK, UserTypes, ListTypes, ServerTypes,
      ContextTypes, PeerTypes, HistoryTypes
  <2> QED
    BY <2>1, <2>2, <2>3 DEF TypeOK
<1> QED
  BY <1>1, <1>2, <1>3, <1>4, <1>5, <1>6, <1>7 DEF LoopStep

LEMMA TypeContext ==
  ASSUME TypeOK, NEW c \in Contexts, ContextStep(c)
  PROVE  TypeOK'
<1>1. CASE AcceptOk(c)
  <2>1. ListTypes'
    BY <1>1, FrontType, EmptySeq DEF AcceptOk, Accepting, AcceptDue, ParentOf, clientVars, listVars,
      UserUnchanged, TypeOK, ListTypes
  <2>2. ThreadTypes'
    BY <1>1 DEF AcceptOk, Accepting, AcceptDue, ParentOf, threadVars, UserUnchanged, TypeOK,
      ThreadTypes
  <2>3. ServerTypes'
    BY <1>1 DEF AcceptOk, Accepting, AcceptDue, ParentOf, serverVars, UserUnchanged, TypeOK,
      ServerTypes
  <2>4. ContextTypes'
    BY <1>1 DEF AcceptOk, Accepting, AcceptDue, ParentOf, contextVars, UserUnchanged, TypeOK,
      ContextTypes, ListTypes
  <2>5. PeerTypes'
    BY <1>1 DEF AcceptOk, Accepting, AcceptDue, ParentOf, UserUnchanged, TypeOK, PeerTypes
  <2>6. HistoryTypes'
    <3>1. /\ accepted' \in {accepted, accepted \cup {nextId + 1}}
          /\ UNCHANGED <<reported, halted, starts, conns, answers, failures>>
      BY <1>1 DEF AcceptOk, UserUnchanged
    <3> QED
      BY <3>1 DEF HistoryTypes, ListTypes, TypeOK
  <2>7. UserTypes' /\ FieldTypes'
    BY <1>1 DEF AcceptOk, UserUnchanged, userVars, fieldVars, TypeOK, UserTypes, FieldTypes
  <2> QED
    BY <2>1, <2>2, <2>3, <2>4, <2>5, <2>6, <2>7 DEF TypeOK
<1>2. CASE AcceptFails(c)
  <2>1. ListTypes'
    BY <1>2, FrontType, AppendProperties DEF AcceptFails, Accepting, AcceptDue, clientVars, listVars,
      UserUnchanged, TypeOK, ListTypes
  <2>2. ServerTypes'
    BY <1>2 DEF AcceptFails, Accepting, AcceptDue, serverVars, UserUnchanged, TypeOK, ServerTypes
  <2>3. ContextTypes'
    BY <1>2 DEF AcceptFails, Accepting, AcceptDue, contextVars, UserUnchanged, TypeOK, ContextTypes
  <2>4. HistoryTypes'
    BY <1>2 DEF AcceptFails, Accepting, AcceptDue, clientVars, countVars, UserUnchanged, TypeOK,
      HistoryTypes
  <2>5. UserTypes' /\ FieldTypes' /\ ThreadTypes' /\ PeerTypes'
    BY <1>2 DEF AcceptFails, UserUnchanged, userVars, fieldVars, threadVars, TypeOK,
      UserTypes, FieldTypes, ThreadTypes, PeerTypes
  <2> QED
    BY <2>1, <2>2, <2>3, <2>4, <2>5 DEF TypeOK
<1>3. CASE ReadFails(c)
  <2>1. ListTypes'
    BY <1>3, FrontType DEF ReadFails, Accepting, AcceptDue, BackWhenClosed, clientVars, listVars,
      UserUnchanged, TypeOK, ListTypes
  <2>2. ServerTypes'
    BY <1>3 DEF ReadFails, Accepting, AcceptDue, BackWhenClosed, serverVars, UserUnchanged, TypeOK,
      ServerTypes
  <2>3. ContextTypes'
    BY <1>3 DEF ReadFails, Accepting, AcceptDue, BackWhenClosed, contextVars, UserUnchanged, TypeOK,
      ContextTypes
  <2>4. HistoryTypes'
    BY <1>3 DEF ReadFails, Accepting, AcceptDue, BackWhenClosed, clientVars, countVars,
      UserUnchanged, TypeOK, HistoryTypes
  <2>5. UserTypes' /\ FieldTypes' /\ ThreadTypes' /\ PeerTypes'
    BY <1>3 DEF ReadFails, UserUnchanged, userVars, fieldVars, threadVars, TypeOK,
      UserTypes, FieldTypes, ThreadTypes, PeerTypes
  <2> QED
    BY <2>1, <2>2, <2>3, <2>4, <2>5 DEF TypeOK
<1>4. CASE AcceptOver(c)
  <2>1. HistoryTypes'
    BY <1>4 DEF AcceptOver, clientVars, countVars, UserUnchanged, TypeOK, HistoryTypes
  <2>2. UserTypes' /\ FieldTypes' /\ ListTypes' /\ ThreadTypes' /\ ServerTypes' /\
    ContextTypes' /\ PeerTypes'
    BY <1>4 DEF AcceptOver, UserUnchanged, userVars, fieldVars, clientVars, listVars,
      threadVars, serverVars, contextVars, TypeOK, UserTypes, FieldTypes, ListTypes,
      ThreadTypes, ServerTypes, ContextTypes, PeerTypes
  <2> QED
    BY <2>1, <2>2 DEF TypeOK
<1>5. CASE AfterRecvData(c)
  <2>1. ListTypes'
    BY <1>5 DEF AfterRecvData, Taken, clientVars, listVars, UserUnchanged, TypeOK, ListTypes
  <2>2. ContextTypes'
    BY <1>5 DEF AfterRecvData, Taken, contextVars, UserUnchanged, TypeOK, ContextTypes
  <2>3. HistoryTypes'
    BY <1>5 DEF AfterRecvData, Taken, clientVars, countVars, UserUnchanged, TypeOK,
      HistoryTypes
  <2>4. UserTypes' /\ FieldTypes' /\ ThreadTypes' /\ ServerTypes' /\ PeerTypes'
    BY <1>5 DEF AfterRecvData, UserUnchanged, userVars, fieldVars, threadVars, serverVars,
      TypeOK, UserTypes, FieldTypes, ThreadTypes, ServerTypes, PeerTypes
  <2> QED
    BY <2>1, <2>2, <2>3, <2>4 DEF TypeOK
<1>6. CASE AfterRecvEnd(c)
  <2>1. ContextTypes'
    BY <1>6 DEF AfterRecvEnd, contextVars, UserUnchanged, TypeOK, ContextTypes
  <2>2. UserTypes' /\ FieldTypes' /\ ListTypes' /\ ThreadTypes' /\ ServerTypes' /\
    PeerTypes' /\ HistoryTypes'
    BY <1>6 DEF AfterRecvEnd, UserUnchanged, userVars, fieldVars, clientVars, listVars,
      threadVars, serverVars, countVars, TypeOK, UserTypes, FieldTypes, ListTypes,
      ThreadTypes, ServerTypes, PeerTypes, HistoryTypes
  <2> QED
    BY <2>1, <2>2 DEF TypeOK
<1>7. CASE AfterSend(c)
  <2>1. ListTypes'
    BY <1>7 DEF AfterSend, clientVars, listVars, UserUnchanged, TypeOK, ListTypes
  <2>2. ContextTypes'
    BY <1>7 DEF AfterSend, contextVars, UserUnchanged, TypeOK, ContextTypes
  <2>3. UserTypes' /\ FieldTypes' /\ ThreadTypes' /\ ServerTypes' /\ PeerTypes' /\
    HistoryTypes'
    BY <1>7 DEF AfterSend, UserUnchanged, userVars, fieldVars, threadVars, serverVars,
      clientVars, countVars, TypeOK, UserTypes, FieldTypes, ThreadTypes, ServerTypes,
      PeerTypes, HistoryTypes
  <2> QED
    BY <2>1, <2>2, <2>3 DEF TypeOK
<1>8. CASE SubClientClosed(c)
  <2>1. ListTypes'
    <3>1. /\ clients' \subseteq clients /\ avai' \in {avai, Append(avai, c)}
          /\ UNCHANGED <<pool, nextId>>
      BY <1>8 DEF SubClientClosed, ErasedFrom, Recycle
    <3> QED
      BY <3>1, AppendProperties DEF ListTypes, TypeOK
  <2>2. ThreadTypes'
    BY <1>8 DEF SubClientClosed, ErasedFrom, Recycle, threadVars, UserUnchanged, TypeOK,
      ThreadTypes
  <2>3. ContextTypes'
    BY <1>8 DEF SubClientClosed, ErasedFrom, Recycle, contextVars, UserUnchanged, TypeOK,
      ContextTypes
  <2>4. HistoryTypes'
    <3>1. parent[c] \in Nat
      BY DEF TypeOK, ContextTypes
    <3>2. /\ reported' \in {reported, Append(reported, parent[c])}
          /\ UNCHANGED <<accepted, halted, starts, conns, answers, failures>>
      BY <1>8 DEF SubClientClosed, UserUnchanged
    <3> QED
      BY <3>1, <3>2, AppendProperties DEF HistoryTypes, TypeOK
  <2>5. UserTypes' /\ FieldTypes' /\ ServerTypes' /\ PeerTypes'
    BY <1>8 DEF SubClientClosed, UserUnchanged, userVars, fieldVars, serverVars, TypeOK,
      UserTypes, FieldTypes, ServerTypes, PeerTypes
  <2> QED
    BY <2>1, <2>2, <2>3, <2>4, <2>5 DEF TypeOK
<1>9. CASE RecycleTcpHandle(c)
  <2>1. ListTypes'
    BY <1>9, AppendProperties DEF RecycleTcpHandle, Recycle, clientVars, listVars,
      UserUnchanged, TypeOK, ListTypes
  <2>2. ContextTypes'
    BY <1>9 DEF RecycleTcpHandle, Recycle, contextVars, UserUnchanged, TypeOK, ContextTypes
  <2>3. UserTypes' /\ FieldTypes' /\ ThreadTypes' /\ ServerTypes' /\ PeerTypes' /\
    HistoryTypes'
    BY <1>9 DEF RecycleTcpHandle, UserUnchanged, userVars, fieldVars, threadVars,
      serverVars, clientVars, countVars, TypeOK, UserTypes, FieldTypes, ThreadTypes,
      ServerTypes, PeerTypes, HistoryTypes
  <2> QED
    BY <2>1, <2>2, <2>3 DEF TypeOK
<1> QED
  BY <1>1, <1>2, <1>3, <1>4, <1>5, <1>6, <1>7, <1>8, <1>9 DEF ContextStep, AcceptConnection


LEMMA TypeOther ==
  ASSUME TypeOK,
         (\E c \in Contexts : PeerCloses(c)) \/ (\E run \in clearing : ThreadEnds(run))
           \/ PeerConnects
  PROVE  TypeOK'
<1>1. ASSUME NEW c \in Contexts, PeerCloses(c) PROVE TypeOK'
  BY <1>1 DEF PeerCloses, TypeOK, UserTypes, FieldTypes, ListTypes, ThreadTypes, ServerTypes,
       ContextTypes, PeerTypes, HistoryTypes, userVars, fieldVars, clientVars, listVars,
       threadVars, serverVars, contextVars, countVars
<1>2. ASSUME NEW run \in clearing, ThreadEnds(run) PROVE TypeOK'
  <2>1. FieldTypes' /\ ThreadTypes'
    BY <1>2 DEF ThreadEnds, TypeOK, FieldTypes, ThreadTypes
  <2>2. UserTypes' /\ ListTypes' /\ ServerTypes' /\ ContextTypes' /\ PeerTypes' /\ HistoryTypes'
    BY <1>2 DEF ThreadEnds, TypeOK, UserTypes, ListTypes, ServerTypes, ContextTypes,
         PeerTypes, HistoryTypes, userVars, clientVars, listVars, serverVars, contextVars,
         countVars
  <2> QED
    BY <2>1, <2>2 DEF TypeOK
<1>3. CASE PeerConnects
  BY <1>3 DEF PeerConnects, TypeOK, UserTypes, FieldTypes, ListTypes, ThreadTypes, ServerTypes,
       ContextTypes, PeerTypes, HistoryTypes, userVars, fieldVars, clientVars, listVars,
       threadVars, contextVars
<1> QED
  BY <1>1, <1>2, <1>3

LEMMA TypeStutter ==
  ASSUME TypeOK, UNCHANGED vars
  PROVE  TypeOK'
BY DEF TypeOK, UserTypes, FieldTypes, ListTypes, ThreadTypes, ServerTypes, ContextTypes,
       PeerTypes, HistoryTypes, vars, userVars, fieldVars, clientVars, listVars, threadVars,
       serverVars, contextVars, countVars

(* Whatever the threads, the loop and the peers do, every variable keeps its   *)
(* type.                                                                       *)
THEOREM TypeCorrect == Spec => []TypeOK
<1>1. TypeOK /\ [Next]_vars => TypeOK'
  BY TypeUser, TypeOwner, TypeLoop, TypeContext, TypeOther, TypeStutter DEF Next
<1> QED
  BY TypeInit, <1>1, PTL DEF Spec

--------------------------------------------------------------------------------
(* The inductive invariant.                                                    *)

(* The server's handles and those of its contexts are closed.                  *)
Dead ==
  /\ async \in {"none", "closed"} /\ listener \in {"none", "closed"}
  /\ \A c \in Contexts : handle[c] \in {"none", "closed"}

(* isclosed_ and the handles follow the phases of a run: a thread is there     *)
(* once a Start has created one; when uv_run has returned, and as long as the  *)
(* server counts as closed, every handle is closed; and once closeinl has run  *)
(* nothing is listened to and nothing is read.                                 *)
Phases ==
  /\ starts = 0 <=> loop = "none"
  /\ isclosed => loop \in {"none", "ended"}
  /\ isclosed \/ loop = "returned" => Dead
  /\ loop \in {"starting", "running"} => async # "none" /\ listener # "none"
  /\ loop \in {"starting", "running"} /\ async # "open" =>
       /\ listener \in {"closing", "closed"}
       /\ \A c \in Contexts : handle[c] \notin {"open", "reading"}

(* Only an allocated context has a handle, a context of the map has one that   *)
(* is in use, and writes are in flight only on such a handle; one that could   *)
(* not be accepted has no AcceptClient.                                        *)
HandlesOwned ==
  \A c \in Contexts :
    /\ c \notin allocated => handle[c] = "none"
    /\ writes[c] > 0 => handle[c] \in {"reading", "closing"}
    /\ c \in Held => handle[c] \in {"reading", "closing"}
    /\ handle[c] = "open" => parent[c] = 0

(* The contexts of the map lead back to their clients.                         *)
ParentsMatch == \A x \in clients : parent[x[2]] = x[1]

(* GetAvailaClientID gives an id once.                                         *)
IdsUsedOnce ==
  /\ \A x, y \in clients : x[1] = y[1] => x = y
  /\ accepted \subseteq 1 .. nextId
  /\ {x[1] : x \in clients} \subseteq accepted

(* closedcb_ is called once for every client that has left the map, and for no *)
(* other; in particular for every client before the server counts as closed.   *)
ReportedOnce ==
  /\ \A i, j \in DOMAIN reported : reported[i] = reported[j] => i = j
  /\ Members(reported) = accepted \ {x[1] : x \in clients}

(* What ties the map, the free lists and the contexts together.                *)
Bookkeeping ==
  /\ HandlesOwned /\ ParentsMatch /\ IdsUsedOnce /\ ContextsAccounted
  /\ FreeMeansQuiet /\ HandlesHaveClient /\ ReportedOnce /\ ListsBounded

IInv == Phases /\ Bookkeeping

LEMMA InvInit == Init => IInv
<1> SUFFICES ASSUME Init PROVE IInv
  OBVIOUS
<1>1. Phases
  BY DEF Init, Phases, Dead
<1>2. Held = {} /\ Members(avai) = {} /\ Members(reported) = {}
  BY MembersEmpty DEF Init, Held
<1>3. HandlesOwned /\ ParentsMatch /\ IdsUsedOnce /\ HandlesHaveClient
  BY <1>2 DEF Init, HandlesOwned, ParentsMatch, IdsUsedOnce, HandlesHaveClient
<1>4. ContextsAccounted /\ FreeMeansQuiet
  BY <1>2 DEF Init, ContextsAccounted, FreeMeansQuiet
<1>5. ReportedOnce /\ ListsBounded
  BY <1>2, ContextsAssumption, EmptySeq DEF Init, ReportedOnce, ListsBounded
<1> QED
  BY <1>1, <1>3, <1>4, <1>5 DEF IInv, Bookkeeping

(* The bookkeeping is not disturbed by what leaves the map, the lists and the  *)
(* contexts alone, unless it opens a server whose contexts are still closing.  *)
LEMMA BookkeepingKept ==
  ASSUME TypeOK, Bookkeeping, UNCHANGED <<clientVars, listVars, nextId, contextVars>>,
         loop = "blocked" => loop' = "blocked",
         async' = "open" => async = "open" \/ Dead
  PROVE  Bookkeeping'
<1> USE DEF Bookkeeping, clientVars, listVars, contextVars
<1>1. UNCHANGED <<Held, Members(avai), Members(reported)>>
  BY DEF Held, Members
<1>2. HandlesOwned' /\ ParentsMatch' /\ IdsUsedOnce' /\ HandlesHaveClient'
  BY <1>1 DEF HandlesOwned, ParentsMatch, IdsUsedOnce, HandlesHaveClient
<1>3. ContextsAccounted' /\ ReportedOnce' /\ ListsBounded'
  BY <1>1 DEF ContextsAccounted, ReportedOnce, ListsBounded
<1>4. FreeMeansQuiet'
  <2>1. Held \cup Members(avai) \subseteq Contexts
    BY DEF ContextsAccounted, TypeOK, ContextTypes
  <2> QED
    BY <1>1, <2>1 DEF FreeMeansQuiet, Dead
<1> QED
  BY <1>2, <1>3, <1>4

LEMMA InvUser ==
  ASSUME TypeOK, IInv, NEW t \in Callers, UserStep(t)
  PROVE  IInv'
<1>1. /\ UNCHANGED <<isclosed, starts, clientVars, listVars, nextId, loop, async, listener,
                     contextVars>>
  BY DEF UserStep, SetRecvCB, SetRecvCBReturn, Close, CloseAsk, CloseReturn, WakeForClose, AsyncSend,
       fieldVars, threadVars, serverVars, countVars
<1>2. Bookkeeping'
  BY <1>1, BookkeepingKept DEF IInv
<1>3. Phases'
  BY <1>1 DEF IInv, Phases, Dead, contextVars
<1> QED
  BY <1>2, <1>3 DEF IInv

LEMMA InvOwner ==
  ASSUME TypeOK, IInv, OwnerStep
  PROVE  IInv'
<1>1. CASE StartClosed
  <2>1. /\ isclosed /\ Dead /\ loop \in {"none", "ended"}
        /\ isclosed' = FALSE /\ async' = "open"
        /\ \/ loop' = "starting" /\ starts' = starts + 1 /\ listener' = "listening"
           \/ UNCHANGED <<loop, starts>>
        /\ UNCHANGED <<clientVars, listVars, nextId, contextVars>>
    BY <1>1 DEF StartClosed, IInv, Phases
  <2>2. Bookkeeping'
    BY <2>1, BookkeepingKept DEF IInv
  <2>3. Phases'
    BY <2>1 DEF IInv, Phases, Dead, TypeOK, HistoryTypes
  <2> QED
    BY <2>2, <2>3 DEF IInv
<1>2. CASE StartOpen \/ StartWaited \/ StartTimeout \/ StartReturn \/ DestroyJoin
  <2>1. UNCHANGED <<isclosed, starts, clientVars, listVars, nextId, loop, async, listener,
                    contextVars>>
    BY <1>2 DEF StartOpen, StartWaited, StartTimeout, StartReturn, DestroyJoin, fieldVars,
         threadVars, serverVars, countVars
  <2>2. Bookkeeping'
    BY <2>1, BookkeepingKept DEF IInv
  <2>3. Phases'
    BY <2>1 DEF IInv, Phases, Dead, contextVars
  <2> QED
    BY <2>2, <2>3 DEF IInv
<1> QED
  BY <1>1, <1>2 DEF OwnerStep

LEMMA InvLoop ==
  ASSUME TypeOK, IInv, LoopStep, ~AsyncCloseCB
  PROVE  IInv'
<1>1. /\ UNCHANGED <<starts, clientVars, listVars, nextId, contextVars>>
      /\ loop \in {"starting", "running", "returned"}
      /\ async' = "open" => async = "open"
  BY DEF LoopStep, StartThread, ListenBreaks, CloseListener, CloseAsync, LoopReturns, RunEnds,
       LoopAt, UserUnchanged, serverVars, countVars
<1>2. Bookkeeping'
  BY <1>1, BookkeepingKept DEF IInv
<1>3. Phases'
  <2> USE DEF Phases, IInv, TypeOK, ThreadTypes, ServerTypes, ContextTypes, LoopAt, UserUnchanged,
          fieldVars, contextVars, serverVars, countVars
  <2>1. CASE StartThread
    BY <2>1 DEF StartThread, Dead
  <2>2. CASE ListenBreaks
    BY <2>2 DEF ListenBreaks, Dead
  <2>3. CASE CloseListener
    BY <2>3 DEF CloseListener, Dead
  <2>4. CASE CloseAsync
    BY <2>4 DEF CloseAsync, Dead
  <2>5. CASE LoopReturns
    <3>1. Dead
      BY <2>5 DEF LoopReturns, LoopAlive, Dead
    <3> QED
      BY <2>5, <3>1 DEF LoopReturns, Dead
  <2>6. CASE RunEnds
    BY <2>6 DEF RunEnds, Dead
  <2> QED
    BY <2>1, <2>2, <2>3, <2>4, <2>5, <2>6 DEF LoopStep
<1> QED
  BY <1>2, <1>3 DEF IInv

(* Close is about to close every handle that is left: closeinl.                *)
LEMMA InvAsync ==
  ASSUME TypeOK, IInv, AsyncCloseCB
  PROVE  IInv'
<1> USE DEF IInv, Bookkeeping
<1>1. /\ loop = "running" /\ ~isclosed /\ isclosed' = isclosed
      /\ UNCHANGED <<starts, clientVars, listVars, nextId, allocated, parent, writes>>
  BY DEF AsyncCloseCB, LoopAt, UserUnchanged, fieldVars, Phases
<1>2. CASE async = "open" /\ isuseraskforclosed /\ MayLock
  <2>1. /\ async' = "closing" /\ listener' = Walked(listener)
        /\ handle' = [c \in Contexts |-> Walked(handle[c])] /\ loop' = loop
    BY <1>2 DEF AsyncCloseCB, CloseInl
  <2>2. /\ \A c \in Contexts :
             /\ handle'[c] \in {"none", "closed", "closing"}
             /\ handle[c] = "none" => handle'[c] = "none"
             /\ handle[c] \in {"reading", "closing"} => handle'[c] = "closing"
             /\ handle'[c] = "closing" => handle[c] \in {"open", "reading", "closing"}
    BY <2>1 DEF Walked, TypeOK, ContextTypes
  <2>3. UNCHANGED <<Held, Members(avai), Members(reported)>>
    BY <1>1 DEF Held, Members, clientVars, listVars
  <2>4. Phases'
    BY <1>1, <2>1, <2>2 DEF Phases, Dead, Walked, TypeOK, ServerTypes
  <2>5. HandlesOwned' /\ ParentsMatch' /\ IdsUsedOnce' /\ HandlesHaveClient'
    BY <1>1, <2>2, <2>3
       DEF HandlesOwned, ParentsMatch, IdsUsedOnce, HandlesHaveClient, clientVars
  <2>6. ContextsAccounted'
    BY <1>1, <2>1, <2>2, <2>3 DEF ContextsAccounted, clientVars, listVars, TypeOK, ContextTypes
  <2>7. FreeMeansQuiet'
    <3>1. Members(avai) \subseteq Contexts
      BY DEF ContextsAccounted, TypeOK, ContextTypes
    <3> QED
      BY <1>1, <2>1, <2>2, <2>3, <3>1 DEF FreeMeansQuiet
  <2>8. ReportedOnce' /\ ListsBounded'
    BY <1>1, <2>3 DEF ReportedOnce, ListsBounded, clientVars, listVars
  <2> QED
    BY <2>4, <2>5, <2>6, <2>7, <2>8
<1>3. CASE ~(async = "open" /\ isuseraskforclosed /\ MayLock)
  <2>1. /\ UNCHANGED <<async, listener, contextVars>>
        /\ loop' \in {loop, "blocked"}
    BY <1>1, <1>3 DEF AsyncCloseCB, CloseInl, contextVars
  <2>2. Bookkeeping'
    BY <1>1, <2>1, BookkeepingKept
  <2>3. Phases'
    BY <1>1, <2>1 DEF Phases, Dead, contextVars
  <2> QED
    BY <2>2, <2>3
<1> QED
  BY <1>2, <1>3

(* The context a new connection gets is in no use: it is taken from the free   *)
(* list, or malloc returns it.                                                 *)
LEMMA AcceptingTakesFree ==
  ASSUME TypeOK, IInv, NEW c \in Contexts, Accepting(c)
  PROVE  /\ FrontTaken \in Seq(Contexts) /\ Len(FrontTaken) \in Nat /\ Len(FrontTaken) <= MaxList
         /\ Members(FrontTaken) = Members(avai) \ {c} /\ Once(FrontTaken)
         /\ c \notin Held /\ writes[c] = 0 /\ handle[c] \in {"none", "open", "closed"}
         /\ async = "open" /\ loop = "running" /\ ~isclosed
         /\ c \notin allocated => c \notin Members(avai)
         /\ c \in Members(avai) \/ c \notin allocated
<1> USE DEF IInv, Bookkeeping
<1>1. avai \in Seq(Contexts) /\ Once(avai) /\ Len(avai) \in Nat
  BY DEF TypeOK, ListTypes, ContextsAccounted, Once
<1>2. async = "open" /\ loop = "running" /\ ~isclosed
  BY DEF Accepting, AcceptDue, LoopAt, Phases, TypeOK, ServerTypes
<1>3. CASE avai = <<>>
  <2>1. FrontTaken = <<>> /\ c \notin allocated
    BY <1>3 DEF Accepting, AcceptDue, FrontTaken
  <2>2. handle[c] = "none" /\ ~(writes[c] > 0) /\ writes[c] \in Nat
    BY <2>1 DEF HandlesOwned, TypeOK, ContextTypes
  <2>3. c \notin Held
    BY <2>1 DEF ContextsAccounted
  <2> QED
    BY <1>2, <1>3, <2>1, <2>2, <2>3, MembersEmpty, EmptySeq, ContextsAssumption
<1>4. CASE avai # <<>>
  <2>1. FrontTaken = Tail(avai) /\ c = Head(avai)
    BY <1>4 DEF Accepting, AcceptDue, FrontTaken
  <2>2. /\ Tail(avai) \in Seq(Contexts) /\ Len(Tail(avai)) = Len(avai) - 1
        /\ c \in Members(avai)
        /\ Members(Tail(avai)) = Members(avai) \ {c} /\ Once(Tail(avai))
    BY <1>1, <1>4, <2>1, MembersTail
  <2>3. Len(Tail(avai)) \in Nat /\ Len(Tail(avai)) <= MaxList
    BY <1>1, <2>2, ContextsAssumption, LenProperties DEF ListsBounded
  <2>4. c \notin Held /\ c \in allocated
    BY <2>2 DEF ContextsAccounted
  <2>5. writes[c] = 0 /\ handle[c] \in {"none", "open", "closed"}
    BY <1>2, <2>2 DEF FreeMeansQuiet, TypeOK, ContextTypes
  <2> QED
    BY <1>2, <2>1, <2>2, <2>3, <2>4, <2>5
<1> QED
  BY <1>3, <1>4

(* AcceptConnection, when the client is registered or the loop blocks.         *)
LEMMA InvAcceptOk ==
  ASSUME TypeOK, IInv, NEW c \in Contexts, AcceptOk(c)
  PROVE  IInv'
<1> DEFINE id == nextId + 1
<1> USE DEF IInv, Bookkeeping, ParentOf
<1>1. /\ FrontTaken \in Seq(Contexts) /\ Len(FrontTaken) \in Nat /\ Len(FrontTaken) <= MaxList
      /\ Members(FrontTaken) = Members(avai) \ {c} /\ Once(FrontTaken)
      /\ c \notin Held /\ writes[c] = 0 /\ handle[c] \in {"none", "closed"}
      /\ async = "open" /\ loop = "running" /\ ~isclosed
      /\ c \in Members(avai) \/ c \notin allocated
  BY AcceptingTakesFree DEF AcceptOk, Accepting
<1>2. /\ avai' = FrontTaken /\ allocated' = allocated \cup {c} /\ nextId' = id
      /\ handle' = [handle EXCEPT ![c] = "reading"] /\ parent' = [parent EXCEPT ![c] = id]
      /\ UNCHANGED <<starts, isclosed, async, listener, reported, pool, writes>>
  BY DEF AcceptOk, UserUnchanged, fieldVars
<1>3. \/ /\ clients' = clients \cup {<<id, c>>} /\ accepted' = accepted \cup {id}
         /\ loop' = "running" /\ Held' = Held \cup {c}
      \/ /\ UNCHANGED <<clients, accepted, Held>> /\ loop' = "blocked"
  <2>1. \/ clients' = clients \cup {<<id, c>>} /\ accepted' = accepted \cup {id} /\ loop' = "running"
        \/ UNCHANGED <<clients, accepted>> /\ loop' = "blocked"
    BY <1>1 DEF AcceptOk
  <2>2. CASE /\ clients' = clients \cup {<<id, c>>} /\ accepted' = accepted \cup {id}
             /\ loop' = "running"
    <3>1. /\ <<id, c>>[2] = c /\ <<id, c>> \in clients' /\ clients \subseteq clients'
          /\ \A x \in clients' : x \in clients \/ x = <<id, c>>
      BY <2>2
    <3>2. Held' = Held \cup {c}
      BY <3>1 DEF Held
    <3> QED
      BY <2>2, <3>2
  <2>3. CASE UNCHANGED <<clients, accepted>> /\ loop' = "blocked"
    BY <2>3 DEF Held
  <2> QED
    BY <2>1, <2>2, <2>3
<1>4. nextId \in Nat /\ id \in Nat /\ clients \subseteq Nat \X Contexts /\ accepted \subseteq Nat
  BY DEF TypeOK, ListTypes, HistoryTypes
<1>5. Members(avai') = Members(avai) \ {c} /\ Once(avai')
  BY <1>1, <1>2
<1>6. \A x \in clients : x[2] \in Held /\ x[2] # c
  BY <1>1 DEF Held
<1>7. id \notin accepted /\ \A x \in clients : x[1] # id
  BY <1>4 DEF IdsUsedOnce
<1> USE DEF TypeOK, ContextTypes
<1>8. Phases'
  BY <1>1, <1>2, <1>3 DEF Phases, Dead
<1>9. HandlesOwned'
  BY <1>1, <1>2, <1>3 DEF HandlesOwned
<1> HIDE DEF id
<1>10. ParentsMatch'
  BY <1>2, <1>3, <1>4, <1>6 DEF ParentsMatch
<1>11. IdsUsedOnce'
  <2>1. accepted' \subseteq 1 .. nextId'
    <3> SUFFICES ASSUME NEW a \in accepted' PROVE a \in 1 .. nextId'
      OBVIOUS
    <3>1. a \in 1 .. nextId \/ a = id
      BY <1>3 DEF IdsUsedOnce
    <3> QED
      BY <1>2, <1>4, <3>1 DEF id
  <2>2. \A x, y \in clients' : x[1] = y[1] => x = y
    BY <1>3, <1>7 DEF IdsUsedOnce
  <2>3. \A x \in clients' : x[1] \in accepted'
    BY <1>3 DEF IdsUsedOnce
  <2> QED
    BY <2>1, <2>2, <2>3 DEF IdsUsedOnce
<1>12. ContextsAccounted'
  <2>1. \A x, y \in clients' : x[2] = y[2] => x = y
    BY <1>3, <1>6 DEF ContextsAccounted
  <2>2. \A i, j \in DOMAIN avai' : avai'[i] = avai'[j] => i = j
    BY <1>5 DEF Once
  <2>3. /\ Held' \cap Members(avai') = {}
        /\ Held' \cup Members(avai') \subseteq allocated'
        /\ loop' # "blocked" =>
             \A d \in allocated' \ (Held' \cup Members(avai')) : handle'[d] = "closing"
    BY <1>1, <1>2, <1>3, <1>5 DEF ContextsAccounted
  <2> QED
    BY <1>5, <2>1, <2>2, <2>3 DEF ContextsAccounted
<1>13. FreeMeansQuiet'
  BY <1>2, <1>5 DEF FreeMeansQuiet, ContextsAccounted
<1>14. HandlesHaveClient'
  BY <1>1, <1>2, <1>3 DEF HandlesHaveClient
<1>15. ReportedOnce'
  <2>1. \/ {x[1] : x \in clients'} = {x[1] : x \in clients} \cup {id} /\ accepted' = accepted \cup {id}
        \/ {x[1] : x \in clients'} = {x[1] : x \in clients} /\ accepted' = accepted
    <3>1. CASE clients' = clients \cup {<<id, c>>} /\ accepted' = accepted \cup {id}
      <4>1. /\ <<id, c>>[1] = id /\ <<id, c>> \in clients' /\ clients \subseteq clients'
            /\ \A x \in clients' : x \in clients \/ x = <<id, c>>
        BY <3>1
      <4>2. {x[1] : x \in clients'} = {x[1] : x \in clients} \cup {id}
        BY <4>1
      <4> QED
        BY <3>1, <4>2
    <3>2. CASE UNCHANGED <<clients, accepted>>
      BY <3>2
    <3> QED
      BY <1>3, <3>1, <3>2
  <2>2. Members(reported') = Members(reported)
    BY <1>2
  <2> QED
    BY <1>2, <1>7, <2>1, <2>2 DEF ReportedOnce, IdsUsedOnce
<1>16. ListsBounded'
  BY <1>1, <1>2, ContextsAssumption DEF ListsBounded
<1> QED
  BY <1>8, <1>9, <1>10, <1>11, <1>12, <1>13, <1>14, <1>15, <1>16

(* AcceptConnection, when libuv cannot accept the connection or read from it.  *)
LEMMA InvAcceptFailed ==
  ASSUME TypeOK, IInv, NEW c \in Contexts, AcceptFails(c) \/ ReadFails(c)
  PROVE  IInv'
<1> USE DEF IInv, Bookkeeping
<1>1. /\ FrontTaken \in Seq(Contexts) /\ Len(FrontTaken) \in Nat /\ Len(FrontTaken) <= MaxList
      /\ Members(FrontTaken) = Members(avai) \ {c} /\ Once(FrontTaken)
      /\ c \notin Held /\ writes[c] = 0 /\ handle[c] \in {"none", "closed"}
      /\ async = "open" /\ loop = "running" /\ ~isclosed
      /\ c \in Members(avai) \/ c \notin allocated
  BY AcceptingTakesFree DEF AcceptFails, ReadFails, Accepting
<1>2. \E h \in {"open", "closing"} :
        /\ handle' = [handle EXCEPT ![c] = h] /\ parent' = [parent EXCEPT ![c] = 0]
        /\ allocated' = allocated \cup {c} /\ nextId' = nextId + 1
        /\ avai' = IF h = "open" THEN Append(FrontTaken, c) ELSE FrontTaken
        /\ UNCHANGED <<starts, isclosed, loop, async, listener, clientVars, pool, writes>>
  BY DEF AcceptFails, ReadFails, BackWhenClosed, UserUnchanged, fieldVars
<1>3. PICK h \in {"open", "closing"} :
        /\ handle' = [handle EXCEPT ![c] = h] /\ parent' = [parent EXCEPT ![c] = 0]
        /\ allocated' = allocated \cup {c} /\ nextId' = nextId + 1
        /\ avai' = IF h = "open" THEN Append(FrontTaken, c) ELSE FrontTaken
        /\ UNCHANGED <<starts, isclosed, loop, async, listener, clientVars, pool, writes>>
  BY <1>2
<1>4. UNCHANGED <<clients, accepted, reported, Held, Members(reported)>>
  BY <1>3 DEF clientVars, Held, Members
<1>5. /\ Once(avai') /\ Len(avai') <= MaxList + 1
      /\ Members(avai') = IF h = "open" THEN (Members(avai) \ {c}) \cup {c}
                          ELSE Members(avai) \ {c}
  <2>1. /\ Len(Append(FrontTaken, c)) = Len(FrontTaken) + 1
        /\ Members(Append(FrontTaken, c)) = Members(FrontTaken) \cup {c}
        /\ Once(Append(FrontTaken, c))
    BY <1>1, MembersAppend
  <2>2. CASE h = "open"
    BY <1>1, <1>3, <2>1, <2>2, ContextsAssumption
  <2>3. CASE h = "closing"
    BY <1>1, <1>3, <2>3, ContextsAssumption
  <2> QED
    BY <2>2, <2>3
<1>6. \A x \in clients : x[2] # c
  BY <1>1 DEF Held
<1> USE DEF TypeOK, ContextTypes
<1>7. Phases'
  BY <1>1, <1>3 DEF Phases, Dead
<1>8. HandlesOwned'
  BY <1>1, <1>3, <1>4 DEF HandlesOwned
<1>9. ParentsMatch'
  BY <1>3, <1>4, <1>6 DEF ParentsMatch, ListTypes
<1>10. IdsUsedOnce'
  BY <1>3, <1>4 DEF IdsUsedOnce, ListTypes
<1>11. ContextsAccounted'
  <2>1. \A i, j \in DOMAIN avai' : avai'[i] = avai'[j] => i = j
    BY <1>5 DEF Once
  <2>2. /\ Held' \cap Members(avai') = {}
        /\ Held' \cup Members(avai') \subseteq allocated'
        /\ \A d \in allocated' \ (Held' \cup Members(avai')) : handle'[d] = "closing"
    BY <1>1, <1>3, <1>4, <1>5 DEF ContextsAccounted
  <2> QED
    BY <1>4, <2>1, <2>2 DEF ContextsAccounted
<1>12. FreeMeansQuiet'
  BY <1>1, <1>3, <1>5 DEF FreeMeansQuiet, ContextsAccounted
<1>13. HandlesHaveClient'
  BY <1>1, <1>3, <1>4 DEF HandlesHaveClient
<1>14. ReportedOnce' /\ ListsBounded'
  BY <1>3, <1>4, <1>5 DEF ReportedOnce, ListsBounded
<1> QED
  BY <1>7, <1>8, <1>9, <1>10, <1>11, <1>12, <1>13, <1>14

(* AfterRecv and AfterSend, and an AcceptConnection libuv does not survive.    *)
LEMMA InvTraffic ==
  ASSUME TypeOK, IInv, NEW c \in Contexts,
         AcceptOver(c) \/ AfterRecvData(c) \/ AfterRecvEnd(c) \/ AfterSend(c)
  PROVE  IInv'
<1> USE DEF IInv, Bookkeeping
<1>1. CASE AcceptOver(c)
  <2>1. UNCHANGED <<isclosed, starts, clientVars, listVars, nextId, loop, async, listener,
                    contextVars>>
    BY <1>1 DEF AcceptOver, UserUnchanged, fieldVars, serverVars
  <2> QED
    BY <2>1, BookkeepingKept DEF Phases, Dead, contextVars
<1>2. CASE AfterRecvData(c) \/ AfterRecvEnd(c) \/ AfterSend(c)
  <2>1. /\ UNCHANGED <<isclosed, starts, clientVars, avai, nextId, loop, async, listener,
                       allocated, parent>>
        /\ loop = "running"
        /\ pool' \in Nat /\ pool' <= MaxList + 1
    BY <1>2, ContextsAssumption DEF AfterRecvData, AfterRecvEnd, AfterSend, Taken, LoopAt,
         UserUnchanged, fieldVars, serverVars, listVars, ListsBounded, TypeOK, ListTypes
  <2>2. /\ \A d \in Contexts \ {c} : UNCHANGED <<handle[d], writes[d]>>
        /\ handle[c] \in {"reading", "closing"}
        /\ handle'[c] = handle[c] \/ handle'[c] = "closing"
    BY <1>2 DEF AfterRecvData, AfterRecvEnd, AfterSend, HandlesOwned, TypeOK, ContextTypes, contextVars
  <2>3. UNCHANGED <<Held, Members(avai), Members(reported)>>
    BY <2>1 DEF Held, Members, clientVars
  <2>4. c \notin Members(avai)
    BY <1>2 DEF AfterRecvData, AfterRecvEnd, AfterSend, FreeMeansQuiet, TypeOK, ContextTypes
  <2>5. Phases'
    BY <2>1, <2>2 DEF Phases, Dead, TypeOK, ContextTypes
  <2>6. HandlesOwned' /\ ParentsMatch' /\ IdsUsedOnce' /\ HandlesHaveClient'
    BY <2>1, <2>2, <2>3
       DEF HandlesOwned, ParentsMatch, IdsUsedOnce, HandlesHaveClient, clientVars
  <2>7. ContextsAccounted' /\ FreeMeansQuiet'
    BY <2>1, <2>2, <2>3, <2>4
       DEF ContextsAccounted, FreeMeansQuiet, clientVars, TypeOK, ContextTypes
  <2>8. ReportedOnce' /\ ListsBounded'
    BY <2>1, <2>3 DEF ReportedOnce, ListsBounded, clientVars
  <2> QED
    BY <2>5, <2>6, <2>7, <2>8
<1> QED
  BY <1>1, <1>2

(* A context whose handle was closed is freed, or is once in the free list.    *)
LEMMA RecycleFrees ==
  ASSUME TypeOK, IInv, NEW c \in Contexts, c \in allocated, c \notin Members(avai), Recycle(c)
  PROVE  /\ Once(avai') /\ Len(avai') <= MaxList + 1
         /\ \A d \in Contexts \ {c} :
              /\ d \in Members(avai') <=> d \in Members(avai)
              /\ d \in allocated' <=> d \in allocated
              /\ handle'[d] = handle[d]
         /\ c \in allocated' <=> c \in Members(avai')
         /\ handle'[c] = IF c \in allocated' THEN "closed" ELSE "none"
<1> USE DEF TypeOK, ListTypes, ContextTypes
<1>1. avai \in Seq(Contexts) /\ Once(avai) /\ Len(avai) \in Nat /\ Len(avai) <= MaxList + 1
  BY LenProperties DEF IInv, Bookkeeping, ContextsAccounted, ListsBounded, Once
<1>2. CASE ListFull
  <2>1. /\ allocated' = allocated \ {c} /\ handle' = [handle EXCEPT ![c] = "none"]
        /\ avai' = avai
    BY <1>2 DEF Recycle
  <2> QED
    BY <1>1, <2>1
<1>3. CASE ~ListFull
  <2>1. /\ avai' = Append(avai, c) /\ handle' = [handle EXCEPT ![c] = "closed"]
        /\ allocated' = allocated
    BY <1>3 DEF Recycle
  <2>2. /\ Len(avai') = Len(avai) + 1 /\ Members(avai') = Members(avai) \cup {c} /\ Once(avai')
    BY <1>1, <2>1, MembersAppend
  <2>3. Len(avai') <= MaxList + 1
    BY <1>1, <1>3, <2>2, ContextsAssumption DEF ListFull
  <2> QED
    BY <2>1, <2>2, <2>3
<1> QED
  BY <1>2, <1>3

(* AfterClientClose, SubClientClosed and RecycleTcpHandle.                     *)
LEMMA InvClosed ==
  ASSUME TypeOK, IInv, NEW c \in Contexts, SubClientClosed(c) \/ RecycleTcpHandle(c)
  PROVE  IInv'
<1> USE DEF IInv, Bookkeeping
<1>1. /\ loop = "running" /\ ~isclosed /\ handle[c] = "closing" /\ writes[c] = 0 /\ c \in allocated
      /\ UNCHANGED <<isclosed, starts, async, listener, accepted, pool, nextId, parent, writes>>
  BY DEF SubClientClosed, RecycleTcpHandle, Endgame, LoopAt, UserUnchanged, fieldVars,
       serverVars, clientVars, Phases, HandlesOwned
<1>2. CASE loop' = "blocked"
  <2>1. UNCHANGED <<clientVars, listVars, contextVars>>
    BY <1>1, <1>2 DEF SubClientClosed, RecycleTcpHandle, clientVars, listVars, contextVars
  <2> QED
    BY <1>1, <1>2, <2>1, BookkeepingKept DEF Phases, Dead, contextVars
<1>3. ASSUME loop' # "blocked" PROVE IInv'
  <2> USE DEF TypeOK, ContextTypes
  <2>1. loop' = loop
    BY <1>3 DEF SubClientClosed, RecycleTcpHandle
  <2>2. /\ Once(avai') /\ Len(avai') <= MaxList + 1
        /\ \A d \in Contexts \ {c} :
             /\ d \in Members(avai') <=> d \in Members(avai)
             /\ d \in allocated' <=> d \in allocated
             /\ handle'[d] = handle[d]
        /\ c \in allocated' <=> c \in Members(avai')
        /\ handle'[c] = IF c \in allocated' THEN "closed" ELSE "none"
    <3>1. CASE SubClientClosed(c)
      <4>1. Recycle(c) /\ c \in Held
        BY <1>3, <3>1 DEF SubClientClosed, Held
      <4>2. c \notin Members(avai)
        BY <4>1 DEF ContextsAccounted
      <4> QED
        BY <1>1, <4>1, <4>2, RecycleFrees
    <3>2. CASE RecycleTcpHandle(c) /\ c \notin Members(avai)
      BY <1>1, <3>2, RecycleFrees DEF RecycleTcpHandle
    <3>3. CASE RecycleTcpHandle(c) /\ c \in Members(avai)
      <4>1. handle' = [handle EXCEPT ![c] = "closed"] /\ UNCHANGED <<avai, allocated>>
        BY <3>3 DEF RecycleTcpHandle
      <4>2. Once(avai) /\ Len(avai) <= MaxList + 1
        BY DEF ContextsAccounted, ListsBounded, Once
      <4> QED
        BY <1>1, <3>3, <4>1, <4>2
    <3> QED
      BY <3>1, <3>2, <3>3
  <2>3. \/ /\ <<parent[c], c>> \in clients /\ clients' = clients \ {<<parent[c], c>>}
           /\ reported' = Append(reported, parent[c])
        \/ c \notin Held /\ UNCHANGED <<clients, reported>>
    BY <1>3 DEF SubClientClosed, RecycleTcpHandle, ErasedFrom, clientVars
  <2>4. /\ clients \subseteq Nat \X Contexts /\ clients' \subseteq clients
        /\ \A x \in clients : x \in clients' <=> x[2] # c
    <3>1. clients \subseteq Nat \X Contexts /\ clients' \subseteq clients
      BY <2>3 DEF ListTypes
    <3>2. CASE /\ <<parent[c], c>> \in clients /\ clients' = clients \ {<<parent[c], c>>}
      <4>1. \A x \in clients : x[2] = c <=> x = <<parent[c], c>>
        BY <3>2 DEF ContextsAccounted
      <4> QED
        BY <3>1, <3>2, <4>1
    <3>3. CASE c \notin Held /\ UNCHANGED clients
      BY <3>1, <3>3 DEF Held
    <3> QED
      BY <2>3, <3>2, <3>3
  <2>5. Held' = Held \ {c}
    BY <2>4 DEF Held
  <2>6. Members(avai') \subseteq Contexts /\ allocated' \subseteq Contexts
    <3>1. avai' \in Seq(Contexts) /\ allocated' \subseteq Contexts
      BY TypeContext DEF ContextStep, ListTypes
    <3> QED
      BY <3>1 DEF Members
  <2>7. Phases'
    BY <1>1, <2>1, <2>2 DEF Phases, Dead
  <2>8. HandlesOwned'
    BY <1>1, <2>2, <2>5 DEF HandlesOwned
  <2>9. ParentsMatch' /\ IdsUsedOnce'
    BY <1>1, <2>4 DEF ParentsMatch, IdsUsedOnce
  <2>10. ContextsAccounted'
    <3>1. \A i, j \in DOMAIN avai' : avai'[i] = avai'[j] => i = j
      BY <2>2 DEF Once
    <3>2. \A x, y \in clients' : x[2] = y[2] => x = y
      BY <2>4 DEF ContextsAccounted
    <3>3. /\ Held' \cap Members(avai') = {}
          /\ Held' \cup Members(avai') \subseteq allocated'
      BY <2>2, <2>5, <2>6 DEF ContextsAccounted
    <3>4. \A d \in allocated' \ (Held' \cup Members(avai')) : handle'[d] = "closing"
      <4> SUFFICES ASSUME NEW d \in allocated', d \notin Held', d \notin Members(avai')
                   PROVE  handle'[d] = "closing"
        OBVIOUS
      <4>1. d \in Contexts /\ d # c
        BY <2>2, <2>6
      <4>2. d \in allocated /\ d \notin Held /\ d \notin Members(avai)
        BY <2>2, <2>5, <4>1
      <4> QED
        BY <1>1, <2>2, <4>1, <4>2 DEF ContextsAccounted
    <3> QED
      BY <3>1, <3>2, <3>3, <3>4 DEF ContextsAccounted
  <2>11. FreeMeansQuiet'
    BY <1>1, <2>2, <2>6 DEF FreeMeansQuiet
  <2>12. HandlesHaveClient'
    BY <1>1, <2>1, <2>2, <2>4 DEF HandlesHaveClient
  <2>13. ReportedOnce'
    <3>1. CASE c \notin Held /\ UNCHANGED <<clients, reported>>
      BY <1>1, <3>1 DEF ReportedOnce, Members
    <3>2. CASE /\ <<parent[c], c>> \in clients /\ clients' = clients \ {<<parent[c], c>>}
               /\ reported' = Append(reported, parent[c])
      <4> DEFINE id == parent[c]
                 ids == {x[1] : x \in clients}
      <4>1. reported \in Seq(Nat) /\ id \in Nat /\ Once(reported)
        BY DEF HistoryTypes, ReportedOnce, Once
      <4>2. <<id, c>> \in clients /\ <<id, c>>[1] = id
        BY <3>2
      <4>3. id \in ids /\ id \in accepted
        BY <4>2 DEF IdsUsedOnce
      <4>4. id \notin Members(reported)
        BY <4>3 DEF ReportedOnce
      <4>5. Members(reported') = Members(reported) \cup {id} /\ Once(reported')
        BY <3>2, <4>1, <4>4, MembersAppend
      <4>6. \A x \in clients : x[1] = id <=> x = <<id, c>>
        BY <4>2 DEF IdsUsedOnce
      <4>7. {x[1] : x \in clients'} = ids \ {id}
        BY <3>2, <4>2, <4>6
      <4> QED
        BY <1>1, <4>3, <4>5, <4>7 DEF ReportedOnce, Once
    <3> QED
      BY <2>3, <3>1, <3>2
  <2>14. ListsBounded'
    BY <1>1, <2>2 DEF ListsBounded
  <2> QED
    BY <2>7, <2>8, <2>9, <2>10, <2>11, <2>12, <2>13, <2>14
<1> QED
  BY <1>2, <1>3

LEMMA InvOther ==
  ASSUME TypeOK, IInv,
         (\E c \in Contexts : PeerCloses(c)) \/ (\E run \in clearing : ThreadEnds(run))
           \/ PeerConnects \/ UNCHANGED vars
  PROVE  IInv'
<1>1. UNCHANGED <<isclosed, starts, clientVars, listVars, nextId, loop, async, listener,
                  contextVars>>
  BY DEF PeerCloses, ThreadEnds, PeerConnects, vars, fieldVars, threadVars, serverVars, countVars
<1> QED
  BY <1>1, BookkeepingKept DEF IInv, Phases, Dead, contextVars

LEMMA Invariant == Spec => []IInv
<1>1. TypeOK /\ IInv /\ [Next]_vars => IInv'
  <2> SUFFICES ASSUME TypeOK, IInv, [Next]_vars PROVE IInv'
    OBVIOUS
  <2>1. ASSUME NEW c \in Contexts, ContextStep(c) PROVE IInv'
    BY <2>1, InvAcceptOk, InvAcceptFailed, InvTraffic, InvClosed
       DEF ContextStep, AcceptConnection
  <2> QED
    BY <2>1, InvUser, InvOwner, InvLoop, InvAsync, InvOther DEF Next
<1> QED
  BY InvInit, <1>1, TypeCorrect, PTL DEF Spec

(* Every allocated context has exactly one owner, and no freed one has any, so *)
(* no context is leaked, freed twice or used after it was freed.               *)
THEOREM ContextsHaveOneOwner == Spec => []ContextsAccounted
<1>1. IInv => ContextsAccounted
  BY DEF IInv, Bookkeeping
<1> QED
  BY <1>1, Invariant, PTL

(* What the free list offers AcceptConnection is in no use.                    *)
THEOREM FreeContextsAreQuiet == Spec => []FreeMeansQuiet
<1>1. IInv => FreeMeansQuiet
  BY DEF IInv, Bookkeeping
<1> QED
  BY <1>1, Invariant, PTL

(* AfterRecv and AfterClientClose find the AcceptClient of their handle.       *)
THEOREM CallbacksFindClient == Spec => []HandlesHaveClient
<1>1. IInv => HandlesHaveClient
  BY DEF IInv, Bookkeeping
<1> QED
  BY <1>1, Invariant, PTL

(* closedcb_ is called exactly once for every client that has left the map.    *)
THEOREM ClientsReportedOnce == Spec => []ReportedOnce
<1>1. IInv => ReportedOnce
  BY DEF IInv, Bookkeeping
<1> QED
  BY <1>1, Invariant, PTL

(* avai_tcphandle_ and writeparam_list_ never grow beyond MAXLISTSIZE + 1.     *)
THEOREM FreeListsStayBounded == Spec => []ListsBounded
<1>1. IInv => ListsBounded
  BY DEF IInv, Bookkeeping
<1> QED
  BY <1>1, Invariant, PTL

(* When the server says that it is closed, which lets Start initialise its     *)
(* handles again, they are closed, no client is left and no write is in        *)
(* flight.                                                                     *)
THEOREM ClosedServerIsDead == Spec => []ClosedMeansDead
<1>1. TypeOK /\ IInv => ClosedMeansDead
  <2> SUFFICES ASSUME TypeOK, IInv, isclosed PROVE ClosedMeansDead
    BY DEF ClosedMeansDead
  <2>1. Dead
    BY DEF IInv, Phases
  <2>2. clients = {}
    BY <2>1 DEF Dead, IInv, Bookkeeping, HandlesOwned, Held, TypeOK, ListTypes
  <2>3. \A c \in Contexts : writes[c] = 0
    BY <2>1 DEF Dead, IInv, Bookkeeping, HandlesOwned, TypeOK, ContextTypes
  <2> QED
    BY <2>1, <2>2, <2>3 DEF Dead, ClosedMeansDead
<1> QED
  BY <1>1, TypeCorrect, Invariant, PTL

--------------------------------------------------------------------------------
(* What Start waits for.                                                       *)

(* Before the first thread has begun to run, nothing has said that one has.    *)
StatusIsFresh ==
  starts <= 1 /\ (startstatus = "FINISH" \/ startResult = "ok") =>
    loop \notin {"none", "starting"}

LEMMA FreshStep ==
  ASSUME TypeOK, IInv, StatusIsFresh, [Next]_vars
  PROVE  StatusIsFresh'
<1> USE DEF StatusIsFresh, TypeOK, HistoryTypes
<1>1. CASE StartClosed
  BY <1>1 DEF StartClosed, IInv, Phases
<1>2. CASE StartThread
  BY <1>2 DEF StartThread
<1>3. CASE StartTimeout
  BY <1>3 DEF StartTimeout, threadVars, countVars
<1>4. CASE StartReturn
  BY <1>4 DEF StartReturn, Finished, fieldVars, threadVars, countVars
<1>5. ASSUME \/ \E t \in Callers : UserStep(t)
             \/ StartOpen \/ StartWaited \/ DestroyJoin
             \/ (\E c \in Contexts : PeerCloses(c)) \/ (\E run \in clearing : ThreadEnds(run))
             \/ PeerConnects \/ UNCHANGED vars
      PROVE  UNCHANGED <<starts, startstatus, startResult, loop>>
  BY <1>5 DEF UserStep, SetRecvCB, SetRecvCBReturn, Close, CloseAsk, CloseReturn, StartOpen, StartWaited,
       DestroyJoin, PeerCloses, ThreadEnds, PeerConnects, vars, userVars, fieldVars,
       threadVars, countVars
<1>6. ASSUME LoopStep \/ \E c \in Contexts : ContextStep(c), ~StartThread
      PROVE  /\ UNCHANGED <<starts, startstatus, startResult>>
             /\ loop' \notin {"none", "starting"}
  <2>1. CASE LoopStep
    BY <1>6, <2>1 DEF LoopStep, ListenBreaks, AsyncCloseCB, CloseInl, CloseListener, CloseAsync,
         LoopReturns, RunEnds, LoopAt, UserUnchanged, userVars, fieldVars, countVars
  <2>2. ASSUME NEW c \in Contexts, ContextStep(c)
        PROVE  /\ UNCHANGED <<starts, startstatus, startResult>>
               /\ loop' \notin {"none", "starting"}
    BY <2>2 DEF ContextStep, AcceptConnection, Accepting, AcceptDue, Endgame, AcceptOk, AcceptFails, ReadFails,
         AcceptOver, AfterRecvData, AfterRecvEnd, AfterSend, SubClientClosed, RecycleTcpHandle,
         LoopAt, UserUnchanged, userVars, fieldVars
  <2> QED
    BY <1>6, <2>1, <2>2
<1> QED
  BY <1>1, <1>2, <1>3, <1>4, <1>5, <1>6 DEF Next, OwnerStep

(* The first Start returns true only if its thread has begun to run the loop.  *)
THEOREM FirstStartIsHonest == Spec => []StartHonest
<1>1. Init => StatusIsFresh
  BY DEF Init, StatusIsFresh
<1>2. TypeOK /\ IInv /\ StatusIsFresh /\ [Next]_vars => StatusIsFresh'
  BY FreshStep
<1>3. TypeOK /\ StatusIsFresh => StartHonest
  BY DEF StatusIsFresh, StartHonest
<1> QED
  BY <1>1, <1>2, <1>3, TypeCorrect, Invariant, PTL DEF Spec

--------------------------------------------------------------------------------
(* The clients as sessions.                                                    *)

(* A number is given for a connection that was waiting.                        *)
IdsFit == nextId + backlog <= conns /\ conns <= MaxConns

LEMMA IdsFitStep ==
  ASSUME TypeOK, IdsFit, [Next]_vars
  PROVE  IdsFit'
<1> USE DEF IdsFit
<1>1. /\ nextId \in Nat /\ backlog \in Nat /\ conns \in Nat /\ MaxConns \in Nat
  BY BoundsAssumption DEF TypeOK, ListTypes, ServerTypes, HistoryTypes
<1>2. CASE UNCHANGED <<nextId, backlog, conns>>
  BY <1>2
<1>3. CASE UNCHANGED <<nextId, conns>> /\ backlog' \in 0 .. backlog
  <2>1. nextId' = nextId /\ conns' = conns
    BY <1>3
  <2>2. backlog' \in Nat /\ backlog' <= backlog
    BY <1>1, <1>3
  <2>3. \A a, b, c, n \in Nat : a + b <= n /\ c <= b => a + c <= n
    OBVIOUS
  <2>4. nextId + backlog' <= conns /\ conns <= MaxConns
    BY <1>1, <2>2, <2>3
  <2> QED
    BY <2>1, <2>4
<1>4. CASE PeerConnects
  BY <1>1, <1>4 DEF PeerConnects
<1>5. CASE StartClosed
  BY <1>1, <1>2, <1>3, <1>5 DEF StartClosed
<1>6. CASE OwnerStep /\ ~StartClosed
  BY <1>2, <1>6 DEF OwnerStep, StartOpen, StartWaited, StartTimeout, StartReturn, DestroyJoin,
       serverVars, countVars
<1>7. ASSUME NEW t \in Callers, UserStep(t) PROVE IdsFit'
  BY <1>2, <1>7 DEF UserStep, SetRecvCB, SetRecvCBReturn, Close, CloseAsk, CloseReturn, serverVars,
       countVars
<1>8. CASE LoopStep
  BY <1>1, <1>2, <1>3, <1>8 DEF LoopStep, StartThread, ListenBreaks, AsyncCloseCB, CloseInl,
       CloseListener, CloseAsync, LoopReturns, RunEnds, UserUnchanged, serverVars, countVars
<1>9. ASSUME NEW c \in Contexts, ContextStep(c) PROVE IdsFit'
  <2>1. CASE AcceptOk(c) \/ AcceptFails(c) \/ ReadFails(c)
    BY <1>1, <2>1 DEF AcceptOk, AcceptFails, ReadFails, UserUnchanged
  <2>2. CASE ~(AcceptOk(c) \/ AcceptFails(c) \/ ReadFails(c))
    BY <1>2, <1>9, <2>2 DEF ContextStep, AcceptConnection, AcceptOver, AfterRecvData,
         AfterRecvEnd, AfterSend, SubClientClosed, RecycleTcpHandle, UserUnchanged, serverVars
  <2> QED
    BY <2>1, <2>2
<1>10. ASSUME \/ \E c \in Contexts : PeerCloses(c)
              \/ \E run \in clearing : ThreadEnds(run)
              \/ UNCHANGED vars
       PROVE  IdsFit'
  BY <1>2, <1>10 DEF PeerCloses, ThreadEnds, serverVars, countVars, vars
<1> QED
  BY <1>4, <1>5, <1>6, <1>7, <1>8, <1>9, <1>10 DEF Next

LEMMA IdsAlwaysFit == Spec => []IdsFit
<1>1. Init => IdsFit
  BY BoundsAssumption DEF Init, IdsFit
<1>2. TypeOK /\ IdsFit /\ [Next]_vars => IdsFit'
  BY IdsFitStep
<1> QED
  BY <1>1, <1>2, TypeCorrect, PTL DEF Spec

(* The numbers of the clients in the map.                                      *)
OpenIds == {x[1] : x \in clients}

SessionStep == [Registered!Next]_<<~isclosed, OpenIds, reported>>

(* What leaves the map, the reports and isclosed_ alone.                       *)
LEMMA SessionsKept ==
  ASSUME UNCHANGED <<isclosed, clients, reported>>
  PROVE  SessionStep
BY DEF SessionStep, OpenIds

(* A connection is accepted: the client joins, unless the thread is blocked.   *)
LEMMA AcceptJoins ==
  ASSUME TypeOK, IInv, IdsFit, NEW c \in Contexts, AcceptOk(c)
  PROVE  SessionStep
<1>1. /\ ~isclosed /\ isclosed' = isclosed /\ reported' = reported
      /\ nextId + 1 \in 1 .. MaxConns /\ nextId \in Nat
  BY BoundsAssumption DEF AcceptOk, Accepting, AcceptDue, LoopAt, UserUnchanged, fieldVars, IInv, Phases,
       IdsFit, TypeOK, ListTypes, ServerTypes, HistoryTypes
<1>2. CASE MayLock
  <2>1. clients' = clients \cup {<<nextId + 1, c>>}
    BY <1>2 DEF AcceptOk
  <2>2. OpenIds' = OpenIds \cup {nextId + 1}
    <3>1. {x[1] : x \in {<<nextId + 1, c>>}} = {nextId + 1}
      OBVIOUS
    <3>2. {x[1] : x \in clients'} = {x[1] : x \in clients} \cup {x[1] : x \in {<<nextId + 1, c>>}}
      BY <2>1
    <3> QED
      BY <3>1, <3>2 DEF OpenIds
  <2>3. OpenIds \cup Members(reported) \subseteq 1 .. nextId
    BY DEF IInv, Bookkeeping, IdsUsedOnce, ReportedOnce, OpenIds
  <2>4. \A other \in OpenIds \cup {reported[i] : i \in DOMAIN reported} : other < nextId + 1
    BY <1>1, <2>3 DEF Members
  <2>5. Registered!Join
    BY <1>1, <2>2, <2>4 DEF Registered!Join, OpenIds
  <2> QED
    BY <2>5 DEF SessionStep, Registered!Next
<1>3. CASE ~MayLock
  BY <1>1, <1>3, SessionsKept DEF AcceptOk
<1> QED
  BY <1>2, <1>3

(* The close callback of a client: it leaves, unless the thread is blocked.    *)
LEMMA ClosedLeaves ==
  ASSUME TypeOK, IInv, NEW c \in Contexts, SubClientClosed(c)
  PROVE  SessionStep
<1> DEFINE id == parent[c]
<1>1. ~isclosed /\ isclosed' = isclosed /\ <<id, c>> \in clients
  BY DEF SubClientClosed, Endgame, LoopAt, UserUnchanged, fieldVars, IInv, Phases
<1>2. CASE MayLock
  <2>1. clients' = clients \ {<<id, c>>} /\ reported' = Append(reported, id)
    BY <1>2 DEF SubClientClosed, ErasedFrom
  <2>2. \A x \in clients : x[1] = id <=> x = <<id, c>>
    BY <1>1 DEF IInv, Bookkeeping, IdsUsedOnce
  <2>3. OpenIds' = OpenIds \ {id}
    BY <2>1, <2>2 DEF OpenIds
  <2>4. id \in OpenIds
    BY <1>1 DEF OpenIds
  <2>5. Registered!Leave
    BY <1>1, <2>1, <2>3, <2>4 DEF Registered!Leave, OpenIds
  <2> QED
    BY <2>5 DEF SessionStep, Registered!Next
<1>3. CASE ~MayLock
  BY <1>1, <1>3, SessionsKept DEF SubClientClosed
<1> QED
  BY <1>2, <1>3

LEMMA StepOfSessions ==
  ASSUME TypeOK, IInv, IdsFit, [Next]_vars
  PROVE  SessionStep
<1>1. CASE StartClosed
  <2>1. isclosed /\ ~isclosed' /\ OpenIds' = OpenIds /\ reported' = reported
    BY <1>1 DEF StartClosed, clientVars, OpenIds
  <2> QED
    BY <2>1 DEF SessionStep, Registered!Next, Registered!Raise, OpenIds
<1>2. CASE RunEnds
  <2>1. ~isclosed /\ isclosed' /\ Dead /\ UNCHANGED <<clients, reported>>
    BY <1>2 DEF RunEnds, LoopAt, clientVars, IInv, Phases
  <2>2. clients = {}
    BY <2>1 DEF Dead, IInv, Bookkeeping, HandlesOwned, Held, TypeOK, ListTypes
  <2> QED
    BY <2>1, <2>2 DEF SessionStep, Registered!Next, Registered!Lower
<1>3. ASSUME NEW c \in Contexts, ContextStep(c) PROVE SessionStep
  <2>1. CASE ~AcceptOk(c) /\ ~SubClientClosed(c)
    <3>1. UNCHANGED <<isclosed, clients, reported>>
      BY <1>3, <2>1 DEF ContextStep, AcceptConnection, AcceptFails, ReadFails, AcceptOver,
           AfterRecvData, AfterRecvEnd, AfterSend, RecycleTcpHandle, UserUnchanged, fieldVars,
           clientVars
    <3> QED
      BY <3>1, SessionsKept
  <2> QED
    BY <2>1, AcceptJoins, ClosedLeaves
<1>4. ASSUME \/ \E t \in Callers : UserStep(t)
             \/ StartOpen \/ StartWaited \/ StartTimeout \/ StartReturn \/ DestroyJoin
             \/ StartThread \/ ListenBreaks \/ AsyncCloseCB \/ CloseListener \/ CloseAsync
             \/ LoopReturns
             \/ (\E c \in Contexts : PeerCloses(c)) \/ (\E run \in clearing : ThreadEnds(run))
             \/ PeerConnects \/ UNCHANGED vars
      PROVE  UNCHANGED <<isclosed, clients, reported>>
  BY <1>4 DEF UserStep, SetRecvCB, SetRecvCBReturn, Close, CloseAsk, CloseReturn, StartOpen, StartWaited,
       StartTimeout, StartReturn, DestroyJoin, StartThread, ListenBreaks, AsyncCloseCB,
       CloseListener, CloseAsync, LoopReturns, PeerCloses, ThreadEnds, PeerConnects,
       UserUnchanged, vars, fieldVars, clientVars
<1> QED
  BY <1>1, <1>2, <1>3, <1>4, SessionsKept DEF Next, OwnerStep, LoopStep

(* Whatever the threads, the peers and the failures of libuv do, the clients   *)
(* of the server come, leave and are reported as Sessions promises.            *)
THEOREM ServerKeepsSessions == Spec => ImplementsSessions
<1>1. Init => Registered!Init
  BY DEF Init, Registered!Init
<1>2. TypeOK /\ IInv /\ IdsFit /\ [Next]_vars => [Registered!Next]_(Registered!sessionVars)
  BY StepOfSessions DEF SessionStep, OpenIds, Registered!sessionVars
<1> QED
  BY <1>1, <1>2, TypeCorrect, Invariant, IdsAlwaysFit, PTL
     DEF Spec, ImplementsSessions, Registered!Spec

--------------------------------------------------------------------------------
(* What closing takes.                                                         *)

(* closeinl() has closed the handles, and the thread has not ended.            *)
ClosingDown == async \in {"closing", "closed"} /\ ~isclosed

(* What the loop thread has still to do for itself and for the server's own    *)
(* handles; a thread that is blocked has everything to do.                     *)
ServerWork ==
  LET One(condition) == IF condition THEN 1 ELSE 0
  IN  One(asyncSent) + One(async = "closing") + One(listener = "closing")
        + (CASE loop = "blocked" -> 3 [] loop = "running" -> 2 [] loop = "returned" -> 1
             [] OTHER -> 0)

(* What it has to do for a context: its writes, and to close its handle.       *)
ContextWork(c) == writes[c] + (IF handle[c] = "closing" THEN 1 ELSE 0)

NothingAdded ==
  /\ ServerWork' <= ServerWork
  /\ \A c \in Contexts : ContextWork(c)' <= ContextWork(c)

SomethingDone ==
  \/ ServerWork' < ServerWork
  \/ \E c \in Contexts : ContextWork(c)' < ContextWork(c)

(* Once it is closing, every callback takes something off, and no step of the  *)
(* loop, of a thread or of a peer adds to any part: nothing is accepted, read  *)
(* or written any more, and the mutex that closeinl() keeps does not stop the  *)
(* close callbacks of the clients (AsyncCloseCB, CloseWalkCB, SubClientClosed, *)
(* uv_run).                                                                    *)
ClosingProgresses ==
  [][ClosingDown => /\ NothingAdded
                    /\ LoopStep \/ (\E c \in Contexts : ContextStep(c)) => SomethingDone]_vars

(* One of the loop's callbacks can run: those of the server's handles, those   *)
(* of a context, or the return of uv_run.                                      *)
CallbackDue ==
  \/ asyncSent \/ async = "closing" \/ listener = "closing" \/ ~LoopAlive
  \/ \E c \in Contexts :
       \/ writes[c] > 0
       \/ handle[c] = "closing" /\ (<<parent[c], c>> \in clients \/ c \notin Held)

(* A server that closes is never stuck: its thread is running its loop, with a *)
(* callback that can run, or has left it and is going to set isclosed_.        *)
ClosingNotStuck == ClosingDown => loop = "returned" \/ (loop = "running" /\ CallbackDue)

(* The thread that closes runs its loop until it is over, and holds            *)
(* mutex_clients_.                                                             *)
LockKept == ClosingDown => leaked = starts /\ loop \in {"running", "returned"}

LEMMA LockStep ==
  ASSUME IInv, LockKept, [Next]_vars
  PROVE  LockKept'
<1> USE DEF LockKept, ClosingDown, userVars, fieldVars, serverVars, countVars, threadVars,
        UserUnchanged, LoopAt
<1>1. ASSUME NEW t \in Callers, UserStep(t) PROVE LockKept'
  BY <1>1 DEF UserStep, SetRecvCB, SetRecvCBReturn, Close, CloseAsk, CloseReturn, WakeForClose, AsyncSend
<1>2. CASE OwnerStep
  BY <1>2 DEF OwnerStep, StartClosed, StartOpen, StartWaited, StartTimeout, StartReturn,
     DestroyJoin
<1>3. CASE LoopStep
  BY <1>3 DEF LoopStep, StartThread, ListenBreaks, AsyncCloseCB, CloseInl, CloseListener,
     CloseAsync, LoopReturns, RunEnds
<1>4. ASSUME NEW c \in Contexts, ContextStep(c) PROVE LockKept'
  <2>1. CASE AcceptConnection(c)
    BY <2>1 DEF AcceptConnection, AcceptOk, AcceptFails, ReadFails, AcceptOver, Accepting, AcceptDue,
       IInv, Phases
  <2>2. CASE SubClientClosed(c)
    BY <2>2 DEF SubClientClosed, MayLock
  <2>3. CASE AfterRecvData(c) \/ AfterRecvEnd(c) \/ AfterSend(c) \/ RecycleTcpHandle(c)
    BY <2>3 DEF AfterRecvData, AfterRecvEnd, AfterSend, RecycleTcpHandle
  <2> QED
    BY <1>4, <2>1, <2>2, <2>3 DEF ContextStep
<1>5. CASE (\E c \in Contexts : PeerCloses(c)) \/ (\E run \in clearing : ThreadEnds(run))
             \/ PeerConnects \/ UNCHANGED vars
  BY <1>5 DEF PeerCloses, ThreadEnds, PeerConnects, vars
<1> QED
  BY <1>1, <1>2, <1>3, <1>4, <1>5 DEF Next

LEMMA LockInvariant == Spec => []LockKept
<1>1. Init => LockKept
  BY DEF Init, LockKept, ClosingDown
<1>2. IInv /\ LockKept /\ [Next]_vars => LockKept'
  BY LockStep
<1> QED
  BY <1>1, <1>2, Invariant, PTL DEF Spec

LEMMA WorkTypes == TypeOK => ServerWork \in Nat /\ \A c \in Contexts : ContextWork(c) \in Nat
BY DEF TypeOK, ThreadTypes, ContextTypes, ServerWork, ContextWork

(* What leaves the contexts alone adds nothing to them.                        *)
LEMMA ContextsKept ==
  ASSUME TypeOK, UNCHANGED <<handle, writes>>
  PROVE  \A c \in Contexts : ContextWork(c)' <= ContextWork(c)
BY DEF TypeOK, ContextTypes, ContextWork

(* A callback of the server itself.                                            *)
LEMMA ServerTakes ==
  ASSUME TypeOK, IInv, LockKept, ClosingDown, LoopStep
  PROVE  NothingAdded /\ SomethingDone
<1> USE DEF TypeOK, ThreadTypes, ServerTypes, IInv, Phases, Dead, ClosingDown, ServerWork,
        UserUnchanged, LoopAt, contextVars, serverVars
<1>1. ~StartThread /\ ~ListenBreaks
  BY DEF StartThread, ListenBreaks, LockKept
<1>2. CASE AsyncCloseCB
  <2>1. ServerWork' < ServerWork /\ UNCHANGED <<handle, writes>>
    BY <1>2 DEF AsyncCloseCB
  <2> QED
    BY <2>1, ContextsKept, WorkTypes DEF NothingAdded, SomethingDone
<1>3. CASE CloseListener \/ CloseAsync
  <2>1. ServerWork' < ServerWork /\ UNCHANGED <<handle, writes>>
    BY <1>3 DEF CloseListener, CloseAsync
  <2> QED
    BY <2>1, ContextsKept DEF NothingAdded, SomethingDone
<1>4. CASE LoopReturns \/ RunEnds
  <2>1. ServerWork' < ServerWork /\ UNCHANGED <<handle, writes>>
    BY <1>4 DEF LoopReturns, RunEnds
  <2> QED
    BY <2>1, ContextsKept DEF NothingAdded, SomethingDone
<1> QED
  BY <1>1, <1>2, <1>3, <1>4 DEF LoopStep

(* A callback of a context.  Its handle is closing, or closed.                 *)
LEMMA ContextTakes ==
  ASSUME TypeOK, IInv, LockKept, ClosingDown, NEW c \in Contexts, ContextStep(c)
  PROVE  NothingAdded /\ SomethingDone
<1> USE DEF UserUnchanged, LoopAt, serverVars
<1>1. ~AcceptConnection(c) /\ ~AfterRecvData(c) /\ ~AfterRecvEnd(c)
  BY DEF IInv, Phases, ClosingDown, AcceptConnection, Accepting, AcceptDue, AcceptOk, AcceptFails, ReadFails,
     AcceptOver, AfterRecvData, AfterRecvEnd
<1>2. handle \in [Contexts -> {"none", "open", "reading", "closing", "closed"}]
      /\ writes \in [Contexts -> Nat]
  BY DEF TypeOK, ContextTypes
<1>3. ASSUME UNCHANGED <<loop, async, asyncSent, listener>>
      PROVE  ServerWork' = ServerWork
  BY <1>3 DEF ServerWork
<1>4. CASE AfterSend(c)
  <2>1. /\ UNCHANGED <<loop, async, asyncSent, listener, handle>>
        /\ writes[c] > 0 /\ writes' = [writes EXCEPT ![c] = @ - 1]
    BY <1>4 DEF AfterSend
  <2>2. ContextWork(c)' < ContextWork(c)
    BY <1>2, <2>1 DEF ContextWork
  <2>3. \A d \in Contexts : ContextWork(d)' <= ContextWork(d)
    BY <1>2, <2>1 DEF ContextWork
  <2> QED
    BY <1>3, <2>1, <2>2, <2>3, WorkTypes DEF NothingAdded, SomethingDone
<1>5. ASSUME UNCHANGED <<loop, async, asyncSent, listener, writes>>, handle[c] = "closing",
             \/ handle' = [handle EXCEPT ![c] = "closed"]
             \/ handle' = [handle EXCEPT ![c] = "none"]
      PROVE  NothingAdded /\ SomethingDone
  <2>1. ContextWork(c)' < ContextWork(c)
    BY <1>2, <1>5 DEF ContextWork
  <2>2. \A d \in Contexts : ContextWork(d)' <= ContextWork(d)
    BY <1>2, <1>5 DEF ContextWork
  <2> QED
    BY <1>3, <1>5, <2>1, <2>2, WorkTypes DEF NothingAdded, SomethingDone
<1>6. CASE SubClientClosed(c)
  <2>1. MayLock
    BY DEF LockKept, MayLock
  <2> QED
    BY <1>5, <1>6, <2>1 DEF SubClientClosed, Endgame, Recycle
<1>7. CASE RecycleTcpHandle(c)
  BY <1>5, <1>7 DEF RecycleTcpHandle, Endgame, Recycle
<1> QED
  BY <1>1, <1>4, <1>6, <1>7 DEF ContextStep

(* The threads and the peers add nothing.                                      *)
LEMMA OthersTakeNothing ==
  ASSUME TypeOK, IInv, ClosingDown, [Next]_vars, ~LoopStep,
         \A c \in Contexts : ~ContextStep(c)
  PROVE  NothingAdded
<1> USE DEF contextVars, serverVars, threadVars
<1>1. UNCHANGED <<loop, async, asyncSent, listener, handle, writes>>
  <2>1. ASSUME NEW t \in Callers, UserStep(t)
        PROVE  UNCHANGED <<loop, async, asyncSent, listener, handle, writes>>
    BY <2>1 DEF UserStep, SetRecvCB, SetRecvCBReturn, Close, CloseAsk, CloseReturn, WakeForClose, AsyncSend,
       ClosingDown
  <2>2. CASE OwnerStep
    BY <2>2 DEF OwnerStep, StartClosed, StartOpen, StartWaited, StartTimeout, StartReturn,
       DestroyJoin, ClosingDown
  <2>3. CASE (\E c \in Contexts : PeerCloses(c)) \/ (\E run \in clearing : ThreadEnds(run))
               \/ PeerConnects \/ UNCHANGED vars
    BY <2>3 DEF PeerCloses, ThreadEnds, PeerConnects, vars
  <2> QED
    BY <2>1, <2>2, <2>3 DEF Next
<1>2. ServerWork' = ServerWork
  BY <1>1 DEF ServerWork
<1> QED
  BY <1>1, <1>2, ContextsKept, WorkTypes DEF NothingAdded

(* A server that closes comes nearer to its end with every callback, and       *)
(* nothing that the loop, the threads or the peers do puts the end off: it     *)
(* runs as many callbacks as there is work left, and no more.                  *)
THEOREM ClosingNeverTurnsBack == Spec => ClosingProgresses
<1>1. TypeOK /\ IInv /\ LockKept /\ [Next]_vars =>
        [ClosingDown => /\ NothingAdded
                        /\ LoopStep \/ (\E c \in Contexts : ContextStep(c)) => SomethingDone]_vars
  <2> SUFFICES ASSUME TypeOK, IInv, LockKept, [Next]_vars, ClosingDown
               PROVE  /\ NothingAdded
                      /\ LoopStep \/ (\E c \in Contexts : ContextStep(c)) => SomethingDone
    OBVIOUS
  <2> QED
    BY ServerTakes, ContextTakes, OthersTakeNothing
<1> QED
  BY <1>1, TypeCorrect, Invariant, LockInvariant, PTL DEF Spec, ClosingProgresses

(* And as long as work is left, a callback can run: no handle waits for        *)
(* another, and no close callback for a client that is not there.              *)
THEOREM ClosingIsNeverStuck == Spec => []ClosingNotStuck
<1>1. ASSUME TypeOK, IInv, LockKept, ClosingDown, loop = "running"
      PROVE  CallbackDue
  <2> SUFFICES ASSUME LoopAlive, async # "closing", listener # "closing"
               PROVE  \E c \in Contexts :
                        handle[c] = "closing" /\ (<<parent[c], c>> \in clients \/ c \notin Held)
    BY Zenon DEF CallbackDue
  <2>1. PICK c \in Contexts : handle[c] = "closing"
    BY <1>1 DEF LoopAlive, ClosingDown, IInv, Phases
  <2>2. <<parent[c], c>> \in clients \/ c \notin Held
    BY <1>1 DEF Held, IInv, Bookkeeping, ParentsMatch, TypeOK, ListTypes
  <2> QED
    BY <2>1, <2>2
<1>2. TypeOK /\ IInv /\ LockKept => ClosingNotStuck
  BY <1>1 DEF LockKept, ClosingNotStuck
<1> QED
  BY <1>2, TypeCorrect, Invariant, LockInvariant, PTL
================================================================================
