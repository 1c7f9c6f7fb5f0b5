---------------------------- MODULE TCPClientClaims ----------------------------
(* What the comments of the TCP client say of it, as properties of TCPClient   *)
(* that the code does not have.                                                *)
EXTENDS TCPClient

(* "因此TCPClient可以多线程中任意调用" (tcpclient.h:18): so the threads may call   *)
(* the client as they like.  A Close that comes after another Close, and a     *)
(* Send that is not over when the loop closes, wake a handle that is closing,  *)
(* which libuv asserts nobody does.                                            *)
AnyThreadMayCall == halted # "assert"

(* "现在发送不延时" (tcpclient.h:24): data is sent without delay, also a message  *)
(* longer than the buffer.                                                     *)
LongSendTerminates ==
  \A t \in Callers : pc[t] \in SendStates ~> pc[t] \notin SendStates \/ halted # "no"
================================================================================
