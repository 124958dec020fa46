---------------------------- MODULE OrderEvents -----------------------------
(***************************************************************************)
(* The order.status events of src/src/orders: OrderEventsService with its  *)
(* sequence and its replay buffer, the SSE stream of OrdersController and  *)
(* the rooms of OrdersGateway.                                             *)
(*                                                                         *)
(* A change of status is committed by OrdersService.changeStatus, which    *)
(* Ledger models in detail, and published afterwards, outside the row      *)
(* lock.  A client is an SSE stream or a WebSocket on one order.  Frames   *)
(* arrive in the order they were written; those under way are lost when    *)
(* the connection is.  A restart of the process loses sequence, buffer and *)
(* connections; an EventSource keeps its Last-Event-ID and reconnects.     *)
(***************************************************************************)
EXTENDS Naturals, Sequences

CONSTANTS
    Orders,
    Statuses,
    Changes,        \* the calls of changeStatus
    Streams,        \* the SSE clients
    Sockets,        \* the WebSocket clients
    Watched,        \* client -> the order it watches
    BufferSize,     \* BUFFER_SIZE
    MaxBoots        \* bound: starts of the process

Clients == Streams \cup Sockets

ASSUME WatchedAssumption == Watched \in [Clients -> Orders] /\ Streams \cap Sockets = {}
ASSUME LimitsAssumption == BufferSize \in Nat \ {0} /\ MaxBoots \in Nat

VARIABLES
    status,         \* order -> its committed status
    pc,             \* change -> "new", "committed" or "ended"
    order, to,      \* change -> what it asks for
    boot,           \* how often the process was started
    seq, buffer,    \* the state of OrderEventsService
    conn,           \* client -> "out", "joining" (WebSockets only) or "in"
    wire,           \* client -> the frames written to it and not received
    lastEventId,    \* client -> id of the last frame it received, 0 before the first
    log,            \* every event published in this boot (history variable)
    got,            \* client -> the events it received in this boot (history variable)
    since,          \* client -> it was promised the events after this id (history variable)
    outdated,       \* streams that came with an id of an earlier boot (history variable)
    crossed         \* orders with two changes between COMMIT and publish (history variable)

vars == <<status, pc, order, to, boot, seq, buffer, conn, wire, lastEventId, log, got, since,
          outdated, crossed>>
bus == <<boot, seq, buffer, log>>
clients == <<conn, wire, lastEventId, got, since, outdated>>
changes == <<status, pc, order, to, crossed>>

Event(id, o, s) == [id |-> id, order |-> o, status |-> s]

Init ==
    /\ status \in [Orders -> Statuses]
    /\ pc = [q \in Changes |-> "new"]
    /\ order \in [Changes -> Orders]
    /\ to \in [Changes -> Statuses]
    /\ boot = 1
    /\ seq = 0
    /\ buffer = <<>>
    /\ conn = [c \in Clients |-> "out"]
    /\ wire = [c \in Clients |-> <<>>]
    /\ lastEventId = [c \in Clients |-> 0]
    /\ log = <<>>
    /\ got = [c \in Clients |-> <<>>]
    /\ since = [c \in Clients |-> 0]
    /\ outdated = {}
    /\ crossed = {}

-----------------------------------------------------------------------------
(* changeStatus.                                                           *)

UnderWay(o) == {q \in Changes : pc[q] = "committed" /\ order[q] = o}

\* The transaction: the row lock makes it one step.
Commit(q) ==
    LET o == order[q] IN
    /\ pc[q] = "new"
    /\ status[o] # to[q]
    /\ status' = [status EXCEPT ![o] = to[q]]
    /\ pc' = [pc EXCEPT ![q] = "committed"]
    /\ crossed' = IF UnderWay(o) = {} THEN crossed \ {o} ELSE crossed \cup {o}
    /\ UNCHANGED <<order, to, bus, clients>>

\* Nothing to change, an unknown order or somebody else's: nothing is announced.
Leave(q) ==
    /\ pc[q] = "new"
    /\ pc' = [pc EXCEPT ![q] = "ended"]
    /\ UNCHANGED <<status, order, to, crossed, bus, clients>>

\* subject.next: each stream writes the frames of its order, the gateway emits to
\* the order's room.
FanOut(e) ==
    wire' = [c \in Clients |-> IF conn[c] = "in" /\ Watched[c] = e.order
                               THEN Append(wire[c], e) ELSE wire[c]]

\* Number the event, keep it, and write it to the streams and to the room of
\* its order, all in one synchronous stretch.
Publish(q) ==
    LET e == Event(seq + 1, order[q], to[q])
        longer == Append(buffer, e) IN
    /\ pc[q] = "committed"
    /\ pc' = [pc EXCEPT ![q] = "ended"]
    /\ seq' = seq + 1
    /\ buffer' = IF Len(longer) > BufferSize THEN Tail(longer) ELSE longer
    /\ log' = Append(log, e)
    /\ FanOut(e)
    /\ UNCHANGED <<status, order, to, crossed, boot, conn, lastEventId, got, since, outdated>>

-----------------------------------------------------------------------------
(* The SSE stream.                                                         *)

\* Mutant of Since: the event the client names is sent once more.
SinceInclusive(o, lastId) ==
    SelectSeq(buffer, LAMBDA e : e.order = o /\ e.id >= lastId)

\* Mutant of Since: newest first.
SinceReversed(o, lastId) ==
    LET n == Len(buffer) IN
    SelectSeq([i \in 1..n |-> buffer[n + 1 - i]], LAMBDA e : e.order = o /\ e.id > lastId)

\* Buffered events of one order with id > lastId, oldest first.
Since(o, lastId) ==
    LET kept[n \in 0..Len(buffer)] ==
            IF n = 0 THEN <<>>
            ELSE IF buffer[n].order = o /\ buffer[n].id > lastId
                 THEN Append(kept[n - 1], buffer[n]) ELSE kept[n - 1]
    IN  kept[Len(buffer)]

\* Replay and subscribe run in one synchronous tick.
OpenStream(c) ==
    /\ c \in Streams
    /\ conn[c] = "out"
    /\ conn' = [conn EXCEPT ![c] = "in"]
    /\ wire' = [wire EXCEPT ![c] = Since(Watched[c], lastEventId[c])]
    /\ since' = [since EXCEPT ![c] = IF seq > BufferSize THEN seq - BufferSize ELSE 0]
    /\ outdated' = IF lastEventId[c] > 0 /\ got[c] = <<>> THEN outdated \cup {c} ELSE outdated
    /\ UNCHANGED <<changes, bus, lastEventId, got>>

-----------------------------------------------------------------------------
(* The WebSocket room.                                                     *)

\* join: the token is verified and the order is read, both awaited ...
BeginJoin(c) ==
    /\ c \in Sockets
    /\ conn[c] = "out"
    /\ conn' = [conn EXCEPT ![c] = "joining"]
    /\ UNCHANGED <<changes, bus, wire, lastEventId, got, since, outdated>>

\* ... and refused, or the socket enters the room: it hears what is published
\* from now on.
EndJoin(c) ==
    /\ conn[c] = "joining"
    /\ \/ /\ conn' = [conn EXCEPT ![c] = "in"]
          /\ since' = [since EXCEPT ![c] = seq]
       \/ /\ conn' = [conn EXCEPT ![c] = "out"]
          /\ UNCHANGED since
    /\ UNCHANGED <<changes, bus, wire, lastEventId, got, outdated>>

-----------------------------------------------------------------------------
(* The clients and the network.                                            *)

Receive(c) ==
    /\ wire[c] # <<>>
    /\ got' = [got EXCEPT ![c] = Append(@, Head(wire[c]))]
    /\ lastEventId' = [lastEventId EXCEPT ![c] = Head(wire[c]).id]
    /\ wire' = [wire EXCEPT ![c] = Tail(@)]
    /\ UNCHANGED <<changes, bus, conn, since, outdated>>

\* The subscription ends and the socket leaves its room.
Disconnect(c) ==
    /\ conn[c] # "out"
    /\ conn' = [conn EXCEPT ![c] = "out"]
    /\ wire' = [wire EXCEPT ![c] = <<>>]
    /\ UNCHANGED <<changes, bus, lastEventId, got, since, outdated>>

\* The process dies: what was committed and not published is never announced.
Restart ==
    /\ boot < MaxBoots
    /\ boot' = boot + 1
    /\ seq' = 0
    /\ buffer' = <<>>
    /\ log' = <<>>
    /\ pc' = [q \in Changes |-> IF pc[q] = "committed" THEN "ended" ELSE pc[q]]
    /\ conn' = [c \in Clients |-> "out"]
    /\ wire' = [c \in Clients |-> <<>>]
    /\ got' = [c \in Clients |-> <<>>]
    /\ outdated' = {}
    /\ UNCHANGED <<status, order, to, crossed, lastEventId, since>>

Next ==
    \/ \E q \in Changes : Commit(q) \/ Leave(q) \/ Publish(q)
    \/ \E c \in Clients : \/ OpenStream(c) \/ BeginJoin(c) \/ EndJoin(c)
                          \/ Receive(c) \/ Disconnect(c)
    \/ Restart

Spec == Init /\ [][Next]_vars

-----------------------------------------------------------------------------
Events == [id : Nat \ {0}, order : Orders, status : Statuses]

\* What a client has been sent in this boot.
Sent(c) == got[c] \o wire[c]

\* "No gap, no duplicate" (orders.controller.ts): however often it reconnects, a
\* connected client is sent the events of its order in the order of their ids,
\* none twice, and misses none but those the buffer had dropped before it came
\* (for a socket: those published before it was in the room).  A stream that
\* comes with an id of an earlier boot is not covered: `since` compares it with
\* the ids of this one.
NoGapNoDuplicate ==
    \A c \in Clients : conn[c] = "in" /\ c \notin outdated =>
        /\ \A i, k \in DOMAIN Sent(c) : i < k => Sent(c)[i].id < Sent(c)[k].id
        /\ \A e \in {log[i] : i \in DOMAIN log} :
              e.order = Watched[c] /\ e.id > since[c] => \E i \in DOMAIN Sent(c) : Sent(c)[i] = e

\* The client has received the last event of its order.
UpToDate(c) ==
    \E i \in DOMAIN log :
        /\ \E k \in DOMAIN got[c] : got[c][k] = log[i]
        /\ \A k \in DOMAIN log : k > i => log[k].order # Watched[c]

\* What a client is told last is what is stored: once no change of its order is
\* under way, a client that has received the order's last event shows the stored
\* status.  Two changes that are between COMMIT and publish together may be
\* announced in either order; until the next change they are not covered.
LastWordIsStored ==
    \A c \in Clients :
        LET o == Watched[c] IN
        UnderWay(o) = {} /\ o \notin crossed /\ UpToDate(c)
            => got[c][Len(got[c])].status = status[o]
=============================================================================
