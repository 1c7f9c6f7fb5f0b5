------------------------------ MODULE UvppHandle -----------------------------
(***************************************************************************)
(* A handle of the C++ layer src/uvpp and what libuv keeps of it: the      *)
(* memory uv::Handle allocates for it and for its table of callbacks       *)
(* (always allocated and freed together), its state in the loop, and its   *)
(* place in the loop's handle queue, a list linked through the handles     *)
(* themselves.                                                             *)
(***************************************************************************)
EXTENDS Integers, SequencesExt

CONSTANT Handles

VARIABLES handle,    \* of each handle, what the operators below keep
          queue,     \* loop->handle_queue behind the loop's own async handle
          undefined  \* the program has used freed memory

(* the entries of EUVCallbackId that a server fills *)
CallbackIds == {"Close", "Listen", "ReadStart", "Write"}

States == {"none", "open", "reading", "closing", "closed"}

HandleType == [memory: {"none", "live", "freed", "freedTwice"},
               state: States, willClose: BOOLEAN, table: SUBSET CallbackIds]

NoHandle == [memory |-> "none", state |-> "none", willClose |-> FALSE, table |-> {}]

(* the constructors of Handle and of Tcp, which calls uv_tcp_init *)
Constructed == [NoHandle EXCEPT !.memory = "live", !.state = "open"]

Store(h, id) == [h EXCEPT !.table = @ \cup {id}]

FreeHandle(h) ==
    [h EXCEPT !.memory = IF @ = "live" THEN "freed" ELSE "freedTwice", !.table = {}]

(* Mutant: close does not remember that its callback will free the handle. *)
ClosedSilently(h) ==
    IF h.state \in {"closing", "closed"} THEN h
    ELSE [Store(h, "Close") EXCEPT !.state = "closing"]

(* Handle::close and uv_close *)
Closed(h) ==
    IF h.state \in {"closing", "closed"} THEN h
    ELSE [Store(h, "Close") EXCEPT !.willClose = TRUE, !.state = "closing"]

(* Mutant: the destructor frees the handle in any case. *)
DestroyedAlways(h) == FreeHandle(h)

(* the destructor of Handle *)
Destroyed(h) == IF h.willClose THEN h ELSE FreeHandle(h)

------------------------------------------------------------------------------

Live(h) == handle[h].memory = "live"
Freed(h) == handle[h].memory \in {"freed", "freedTwice"}

(* QUEUE_INSERT_TAIL writes to the last element, QUEUE_REMOVE to the two
   neighbours. *)
Insertable == queue = <<>> \/ Live(Last(queue))
Removable(h) ==
    \A i \in DOMAIN queue : queue[i] = h =>
        /\ i > 1 => Live(queue[i - 1])
        /\ i < Len(queue) => Live(queue[i + 1])

Inserted(h) == Append(queue, h)
Removed(h) == RemoveFirst(queue, h)
=============================================================================
