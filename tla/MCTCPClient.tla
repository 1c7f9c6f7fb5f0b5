------------------------------ MODULE MCTCPClient ------------------------------
(* Model values for TCPClient: one thread owns the client, the other shares it. *)
EXTENDS TCPClientClaims

CONSTANTS main, worker

OneCaller  == {main}
TwoCallers == {main, worker}
================================================================================
