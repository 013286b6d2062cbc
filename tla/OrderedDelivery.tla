---------------------------- MODULE OrderedDelivery ----------------------------
(***************************************************************************)
(* What the named pipe promises the store: the messages of one connection  *)
(* reach it one at a time, each once and in the order they were written;   *)
(* when a connection ends, what was not delivered is lost, and only that.  *)
(***************************************************************************)
EXTENDS StoreRows

VARIABLES
    queue,    \* the messages of this connection that are not handled yet
    tables    \* the rows of the store, as AtomicIngest has them

Store == INSTANCE AtomicIngest

Init == queue = <<>> /\ tables = Store!EmptyTables

Send == /\ \E m \in Incoming : queue' = Append(queue, m)
        /\ UNCHANGED tables

(* The store takes the message whole, or rejects it; the connection may end *)
(* with it.                                                                  *)
Deliver == /\ queue # <<>>
           /\ queue' \in {Tail(queue), <<>>}
           /\ tables' \in {tables, Store!Ingested(tables, Head(queue))}

Lose == /\ queue' = <<>>
        /\ UNCHANGED tables

Next == Send \/ Deliver \/ Lose
Spec == Init /\ [][Next]_<<queue, tables>>
=============================================================================
