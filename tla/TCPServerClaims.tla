---------------------------- MODULE TCPServerClaims ----------------------------
(* What the comments of the TCP server say of it, as a property of TCPServer   *)
(* that the code does not have.                                                *)
EXTENDS TCPServer

(* "因此TCPServer可以多线程中任意调用" (tcpserver.h:18): so the threads may call   *)
(* the server as they like; a call of SetRecvCB returns.                       *)
CallsReturn ==
  \A t \in Callers : pc[t] = "recvLock" ~> pc[t] # "recvLock" \/ halted # "no"
================================================================================
