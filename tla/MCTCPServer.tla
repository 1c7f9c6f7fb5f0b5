------------------------------ MODULE MCTCPServer ------------------------------
(* Model values for TCPServer and its claims: one thread owns the server, the  *)
(* other shares it.                                                            *)
EXTENDS TCPServerClaims

CONSTANTS main, worker, c1, c2

OneCaller     == {main}
TwoCallers    == {main, worker}
OneContext    == {c1}
TwoContexts   == {c1, c2}
================================================================================
