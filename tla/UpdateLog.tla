----------------------------- MODULE UpdateLog -----------------------------
(***************************************************************************)
(* What a sync room promises its clients: an append-only log of updates in *)
(* which no id occurs twice and every client's updates are numbered        *)
(* 1, 2, 3, ... in the order of the log.  A restart loses nothing.         *)
(***************************************************************************)
EXTENDS Naturals, Sequences

CONSTANTS Ids, Clients

VARIABLES entries,  \* the updates, in order
          latest    \* the number of each client's last update

Init == entries = <<>> /\ latest = [c \in Clients |-> 0]

AppendUpdate(id, c) ==
  /\ \A i \in 1..Len(entries) : entries[i].id # id
  /\ entries' = Append(entries, [id |-> id, client |-> c, counter |-> latest[c] + 1])
  /\ latest' = [latest EXCEPT ![c] = @ + 1]

Next == \E id \in Ids, c \in Clients : AppendUpdate(id, c)

Spec == Init /\ [][Next]_<<entries, latest>>
=============================================================================
