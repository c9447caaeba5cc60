---------------------------- MODULE SyncSession ----------------------------
(***************************************************************************)
(* Clients of a sync room: the WebSocket hub of packages/websocket-sync    *)
(* composed with SyncRoom, and, at the other end of each socket, a         *)
(* SecureCanvasSyncClient of packages/secure-canvas-client with the state  *)
(* vector it keeps across reconnects.                                      *)
(*                                                                         *)
(* A socket delivers in order until it drops.  A frame of the hub carries  *)
(* at most FrameLimit updates; an id in Large does not fit one by itself   *)
(* (the transport's limit is 65535 bytes).                                 *)
(***************************************************************************)
EXTENDS SyncRoom, FiniteSets

CONSTANTS Peers,       \* clients that keep a session with the room
          Large,       \* ids of updates that exceed a frame
          FrameLimit,  \* how many other updates fit a frame
          MaxDrops     \* bound: lost connections

ASSUME SessionConstants ==
  /\ Large \subseteq Ids
  /\ FrameLimit \in Nat /\ MaxDrops \in Nat

VARIABLES phase,     \* "down"; "open": hello not acknowledged; "ready": #connected
          hello,     \* the client's hello is under way to the hub
          wire,      \* frames under way from the hub to the client
          sv,        \* the client's #vector
          received,  \* ids of the updates the client was given
          drops      \* history: connections lost

sessionVars == <<phase, hello, wire, sv, received, drops>>
vars == <<roomVars, sessionVars>>

Vectors == [Clients -> Nat]
Frames == [type : {"update", "hello_ack"}, ids : SUBSET Ids, covers : Vectors]
          \cup [type : {"error"}]

SessionTypeOK ==
  /\ phase \in [Peers -> {"down", "open", "ready"}]
  /\ hello \in [Peers -> BOOLEAN]
  /\ wire \in [Peers -> Seq(Frames)]
  /\ sv \in [Peers -> Vectors]
  /\ received \in [Peers -> SUBSET Ids]
  /\ drops \in Nat

SessionInit ==
  /\ Init
  /\ phase = [p \in Peers |-> "down"]
  /\ hello = [p \in Peers |-> FALSE]
  /\ wire = [p \in Peers |-> <<>>]
  /\ sv = [p \in Peers |-> [c \in Clients |-> 0]]
  /\ received = [p \in Peers |-> {}]
  /\ drops = 0

----------------------------------------------------------------------------
(* The hub.                                                                *)

\* Events of other sockets wait until the microtasks of a chunk have run.
Idle == pending = <<>>

\* handleUpgrade: from here on the peer is sent every broadcast.  The client sends
\* its hello as soon as the socket is open.
Connect(p) ==
  /\ Idle /\ phase[p] = "down"
  /\ phase' = [phase EXCEPT ![p] = "open"]
  /\ hello' = [hello EXCEPT ![p] = TRUE]
  /\ UNCHANGED <<roomVars, wire, sv, received, drops>>

\* Mutant of Missing: >= is written for >, one place off.
MissingOff(remote) ==
  {updates[i].id : i \in {j \in 1..Len(updates) :
                            updates[j].counter > remote[updates[j].client] + 1}}

\* diff(): the updates a client with this state vector lacks.
Missing(remote) ==
  {updates[i].id : i \in {j \in 1..Len(updates) :
                            updates[j].counter > remote[updates[j].client]}}

FitsFrame(s) == s \cap Large = {} /\ Cardinality(s) <= FrameLimit

HelloAck(p) ==
  IF FitsFrame(Missing(sv[p]))
    THEN [type |-> "hello_ack", ids |-> Missing(sv[p]), covers |-> vector]
    ELSE [type |-> "error"]

Hello(p) ==
  /\ Idle /\ hello[p]
  /\ hello' = [hello EXCEPT ![p] = FALSE]
  /\ wire' = [wire EXCEPT ![p] = Append(@, HelloAck(p))]
  /\ UNCHANGED <<roomVars, phase, sv, received, drops>>

\* Mutant of Recipients: a peer is added to the hub once its hello is acknowledged.
RecipientsReady == {p \in Peers : phase[p] = "ready"}

Recipients == {p \in Peers : phase[p] # "down"}

\* #remember emits to the hub, whose broadcast throws at the first peer if the frame
\* is too large; then apply() rejects what the room has already remembered.
Broadcast ==
  \E u \in Updates :
    LET fits == FitsFrame({u.id}) \/ Recipients = {}
        frame == [type |-> "update", ids |-> {u.id}, covers |-> vector']
    IN  /\ Remember(u, fits)
        /\ wire' = [p \in Peers |-> IF p \in Recipients /\ fits THEN Append(wire[p], frame)
                                                                ELSE wire[p]]
        /\ UNCHANGED <<phase, hello, sv, received, drops>>

----------------------------------------------------------------------------
(* The client.                                                             *)

MergeVectors(v, w) == [c \in Clients |-> IF w[c] > v[c] THEN w[c] ELSE v[c]]

\* Mutant of Accepts: broadcasts are taken, and their vector merged, before hello_ack.
AcceptsEarly(p, frame) == frame.type \in {"update", "hello_ack"}

\* Until hello_ack only hello_ack is taken; afterwards, updates.
Accepts(p, frame) ==
  frame.type = CASE phase[p] = "open" -> "hello_ack" [] phase[p] = "ready" -> "update"

Deliver(p) ==
  /\ phase[p] # "down" /\ wire[p] # <<>>
  /\ LET frame == Head(wire[p])
     IN  IF Accepts(p, frame)
           THEN /\ phase' = [phase EXCEPT ![p] = IF frame.type = "hello_ack" THEN "ready" ELSE @]
                /\ sv' = [sv EXCEPT ![p] = MergeVectors(@, frame.covers)]
                /\ received' = [received EXCEPT ![p] = @ \cup frame.ids]
                /\ wire' = [wire EXCEPT ![p] = Tail(@)]
           ELSE IF frame.type = "error" /\ phase[p] = "open"
           THEN /\ phase' = [phase EXCEPT ![p] = "down"]     \* fail() closes the socket
                /\ wire' = [wire EXCEPT ![p] = <<>>]
                /\ UNCHANGED <<sv, received>>
           ELSE /\ wire' = [wire EXCEPT ![p] = Tail(@)]
                /\ UNCHANGED <<phase, sv, received>>
  /\ UNCHANGED <<roomVars, hello, drops>>

----------------------------------------------------------------------------
(* Losing connections.                                                     *)

Drop(p) ==
  /\ phase[p] # "down" /\ drops < MaxDrops
  /\ phase' = [phase EXCEPT ![p] = "down"]
  /\ hello' = [hello EXCEPT ![p] = FALSE]
  /\ wire' = [wire EXCEPT ![p] = <<>>]
  /\ drops' = drops + 1
  /\ UNCHANGED <<roomVars, sv, received>>

ServerRestart ==
  /\ Restart
  /\ phase' = [p \in Peers |-> "down"]
  /\ hello' = [p \in Peers |-> FALSE]
  /\ wire' = [p \in Peers |-> <<>>]
  /\ UNCHANGED <<sv, received, drops>>

----------------------------------------------------------------------------
RoomStep ==
  /\ Receive \/ EndOfChunk \/ \E u \in Updates : WriteFails(u)
  /\ UNCHANGED sessionVars

SessionNext ==
  \/ RoomStep \/ Broadcast \/ ServerRestart
  \/ \E p \in Peers : Connect(p) \/ Hello(p) \/ Deliver(p) \/ Drop(p)

SessionSpec == SessionInit /\ [][SessionNext]_vars

\* Microtasks run, sockets deliver, and the owner of a client connects it again (app.js
\* does so 800 ms after a close).
Fairness ==
  /\ WF_vars(Broadcast)
  /\ \A p \in Peers : WF_vars(Connect(p)) /\ WF_vars(Hello(p)) /\ WF_vars(Deliver(p))

FairSessionSpec == SessionSpec /\ Fairness

----------------------------------------------------------------------------
(* Properties.                                                             *)

\* ADR-002: SV_c(a) is the largest k such that client c has received (a, k).  So an
\* update the client's vector covers has been received: diff() will never send it again.
VectorMeansReceived ==
  \A p \in Peers, i \in 1..Len(updates) :
    updates[i].counter <= sv[p][updates[i].client] => updates[i].id \in received[p]

\* A connected client with nothing under way has every update of the room, restores
\* included (ADR-006), whatever it missed and however often it reconnected.
QuietPeersAgree ==
  \A p \in Peers :
    phase[p] = "ready" /\ wire[p] = <<>> =>
      \A i \in 1..Len(updates) : updates[i].id \in received[p]

\* A client that keeps reconnecting is given every update in the end (ADR-002: the
\* updates a client lacks are those above its vector).
CatchesUp ==
  \A p \in Peers, id \in Ids : Remembered(id) ~> id \in received[p]
=============================================================================
