------------------------------- MODULE ChatLog -------------------------------
(***************************************************************************)
(* What a chat run promises its readers (internal/web/chat_stream.go): an  *)
(* append-only log of numbered events that each connection reads from its  *)
(* start, in order and without a gap, and that one which is not cut off    *)
(* leaves only after the run is over and it has read everything.           *)
(* ChatStream is the implementation.                                       *)
(***************************************************************************)
EXTENDS Naturals, Sequences

CONSTANTS Clients,    \* readers: browser tabs and reconnecting streams
          Events      \* what a run can emit: numbers, in order

VARIABLES log,        \* the set of the events of the run so far
          over,       \* the run has ended
          got,        \* what each client read on its current connection
          at          \* "away", "reading", or "whole": it read to the end

vars == <<log, over, got, at>>

Init == /\ log = {}
        /\ over = FALSE
        /\ got = [c \in Clients |-> <<>>]
        /\ at = [c \in Clients |-> "away"]

Emit(e) == /\ ~over
           /\ \A d \in log : d < e
           /\ log' = log \union {e}
           /\ UNCHANGED <<over, got, at>>

End == over' = TRUE /\ UNCHANGED <<log, got, at>>

Connect(c) == /\ at[c] = "away"
              /\ at' = [at EXCEPT ![c] = "reading"]
              /\ got' = [got EXCEPT ![c] = <<>>]
              /\ UNCHANGED <<log, over>>

Unread(c) == {e \in log : \A i \in 1..Len(got[c]) : got[c][i] # e}

\* The next event is the first of those it has not read.
Read(c) == /\ at[c] = "reading"
           /\ \E e \in Unread(c) : /\ \A d \in Unread(c) : e <= d
                                  /\ got' = [got EXCEPT ![c] = Append(@, e)]
           /\ UNCHANGED <<log, over, at>>

Complete(c) == /\ at[c] = "reading"
               /\ over
               /\ Unread(c) = {}
               /\ at' = [at EXCEPT ![c] = "whole"]
               /\ UNCHANGED <<log, over, got>>

Leave(c) == /\ at' = [at EXCEPT ![c] = "away"]
            /\ UNCHANGED <<log, over, got>>

Next == \/ \E e \in Events : Emit(e)
        \/ End
        \/ \E c \in Clients : Connect(c) \/ Read(c) \/ Complete(c) \/ Leave(c)

Spec == Init /\ [][Next]_vars
=============================================================================
