-------------------------------- MODULE Sessions -------------------------------
(* What a TCPServer promises to its user about its clients.  Clients come only *)
(* while the server is up, each with a number above those of all the earlier   *)
(* ones; each of them leaves once, and is reported when it does; and the       *)
(* server goes down only when all of them have left.                           *)
EXTENDS Naturals, Sequences

CONSTANT Ids       \* the natural numbers that clients can have

VARIABLES up,      \* the server does not count as closed
          open,    \* the numbers of the clients that are there
          reported \* the numbers of those that have left, in order

sessionVars == <<up, open, reported>>

Init == ~up /\ open = {} /\ reported = <<>>

(* The server is opened.                                                       *)
Raise == ~up /\ up' /\ UNCHANGED <<open, reported>>

Join ==
  /\ up
  /\ \E id \in Ids :
       /\ \A other \in open \cup {reported[i] : i \in DOMAIN reported} : other < id
       /\ open' = open \cup {id}
  /\ UNCHANGED <<up, reported>>

Leave ==
  /\ up
  /\ \E id \in open : open' = open \ {id} /\ reported' = Append(reported, id)
  /\ UNCHANGED up

(* The server counts as closed.                                                *)
Lower == up /\ open = {} /\ ~up' /\ UNCHANGED <<open, reported>>

Next == Raise \/ Join \/ Leave \/ Lower

Spec == Init /\ [][Next]_sessionVars
================================================================================
