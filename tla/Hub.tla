-------------------------------- MODULE Hub ---------------------------------
(* The WebSocket hub of cmd/api (handlers/ws): a broadcast goroutine per     *)
(* topic hands the payloads that arrive from Redis to the clients subscribed *)
(* to them, and two goroutines per client read its subscriptions and write   *)
(* its messages.  Any of these goroutines may find that the client is gone   *)
(* and call delete.                                                          *)
(*                                                                           *)
(* Every step is one call, or what is done under one lock.  A panic in the   *)
(* goroutine of an HTTP handler, the reader, is recovered by net/http; any   *)
(* other one ends the process.                                               *)
EXTENDS Integers, Sequences

CONSTANTS
    Client,         \* connections, each of them used once
    Topic,          \* topics that can be subscribed to
    Filter,         \* [address, topic0], "" for a part that is not given
    Payload,        \* [addresses, topics]: From, To and Emitter, and Topics
    Wants,          \* what each client may ask for: a set of <<topic, filter>>
    MaxAsks,        \* bound on the subscriptions of a client
    MaxInvalid,     \* bound on the invalid messages of all clients
    MaxPayloads     \* bound on the payloads that arrive

ASSUME HubAssumption ==
    /\ Filter \subseteq [address : STRING, topic0 : STRING]
    /\ Payload \subseteq [addresses : SUBSET STRING, topics : Seq(STRING)]
    /\ Wants \in [Client -> SUBSET (Topic \X Filter)]
    /\ MaxAsks \in Nat /\ MaxInvalid \in Nat /\ MaxPayloads \in Nat

VARIABLES
    clientsChan,    \* per topic and filter: the clients, in order
    lock,           \* per topic: the state of entity.mu
    incoming,       \* per topic: payloads in the channel of pubsub.Subscribe
    bcast,          \* per topic: what broadcast does next, see Bcast
    conn,           \* per client: the connection, see Conn
    outgoing,       \* per client: is the channel of its writer open?
    pc,             \* per client and goroutine: what it does next, see Label
    asking,         \* per client: the subscription its reader works on
    outbox,         \* per client: the message its writer works on
    pos,            \* per client: client.pos
    once,           \* per client: client.once
    left,           \* per client: the positions delete has not removed yet
    cancelled,      \* is the context of the API cancelled?
    down,           \* has a panic ended the process?
    budget          \* payloads and invalid messages so far

fanVars == <<clientsChan, lock, incoming, bcast>>
dataVars == <<conn, outgoing, asking, outbox, pos, once, left>>
clientVars == <<pc, dataVars>>
outsideVars == <<cancelled, down, budget>>
hubVars == <<fanVars, clientVars, outsideVars>>

Thread   == {"reader", "writer"}
Message  == [topic : Topic, payload : Payload]
Position == [topic : Topic, filter : Filter, index : Nat]
NoMessage  == [topic |-> ""]
NoPosition == [topic |-> ""]

\* new -> open -> broken, the peer is gone -> closed by the server
Conn == {"new", "open", "broken", "closed"}

\* reader: read -> insert -> append -> read, read -> reply -> read
\* writer: select -> write -> select
\* both:   ... -> delete -> remove -> done
Label == {"off", "read", "insert", "append", "reply", "select", "write",
          "delete", "remove", "done"}

\* select -> rlock -> send -> select: payload is what it works on, filters what
\* its loop over the filters has left, clients what its loop over their clients
Bcast == [pc : {"select", "rlock", "send", "done"},
          payload : Payload \cup {NoMessage},
          filters : SUBSET Filter,
          clients : Seq(Client)]

Idle == [pc |-> "select", payload |-> NoMessage, filters |-> {},
         clients |-> <<>>]

HubTypeOK ==
    /\ clientsChan \in [Topic -> [Filter -> Seq(Client)]]
    /\ lock \in [Topic -> {"free", "read", "leaked"}]
    /\ incoming \in [Topic -> Seq(Payload)]
    /\ bcast \in [Topic -> Bcast]
    /\ conn \in [Client -> Conn]
    /\ outgoing \in [Client -> {"open", "closed"}]
    /\ pc \in [Client -> [Thread -> Label]]
    /\ asking \in [Client -> Position \cup {NoPosition}]
    /\ outbox \in [Client -> Message \cup {NoMessage}]
    /\ pos \in [Client -> Seq(Position)]
    /\ once \in [Client -> {"new", "running", "done"}]
    /\ left \in [Client -> Seq(Position)]
    /\ cancelled \in BOOLEAN
    /\ down \in BOOLEAN
    /\ budget \in [payloads : 0..MaxPayloads, invalid : 0..MaxInvalid]

HubInit ==
    /\ clientsChan = [t \in Topic |-> [f \in Filter |-> <<>>]]
    /\ lock = [t \in Topic |-> "free"]
    /\ incoming = [t \in Topic |-> <<>>]
    /\ bcast = [t \in Topic |-> Idle]
    /\ conn = [c \in Client |-> "new"]
    /\ outgoing = [c \in Client |-> "open"]
    /\ pc = [c \in Client |-> [th \in Thread |-> "off"]]
    /\ asking = [c \in Client |-> NoPosition]
    /\ outbox = [c \in Client |-> NoMessage]
    /\ pos = [c \in Client |-> <<>>]
    /\ once = [c \in Client |-> "new"]
    /\ left = [c \in Client |-> <<>>]
    /\ cancelled = FALSE
    /\ down = FALSE
    /\ budget = [payloads |-> 0, invalid |-> 0]

\* Goroutine th of client c goes from a to b.
Goto(c, th, a, b) ==
    /\ ~down
    /\ pc[c][th] = a
    /\ pc' = [pc EXCEPT ![c][th] = b]

-----------------------------------------------------------------------------
(* The reader, entitySubscription and subscribe.                             *)

Connect(c) ==
    /\ ~down /\ conn[c] = "new"
    /\ conn' = [conn EXCEPT ![c] = "open"]
    /\ pc' = [pc EXCEPT ![c]["reader"] = "read",
                        ![c]["writer"] = "select"]
    /\ UNCHANGED <<fanVars, outgoing, asking, outbox, pos, once, left,
                   outsideVars>>

\* A message that arrived can be read whatever became of the connection since.
ReadSubscription(c, topic, filter) ==
    /\ Goto(c, "reader", "read", "insert")
    /\ <<topic, filter>> \in Wants[c] /\ Len(pos[c]) < MaxAsks
    /\ asking' = [asking EXCEPT ![c] =
                    [topic |-> topic, filter |-> filter, index |-> 0]]
    /\ UNCHANGED <<fanVars, conn, outgoing, outbox, pos, once, left,
                   outsideVars>>

\* The client's channel goes to the end of the list, and index is noted.
AppendChannel(c, index) ==
    LET a == asking[c] IN
    /\ Goto(c, "reader", "insert", "append")
    /\ asking' = [asking EXCEPT ![c].index = index]
    /\ clientsChan' = [clientsChan EXCEPT ![a.topic][a.filter] = Append(@, c)]
    /\ UNCHANGED <<lock, incoming, bcast, conn, outgoing, outbox, pos, once,
                   left, outsideVars>>

ListLen(c) == Len(clientsChan[asking[c].topic][asking[c].filter])

\* Mutants of Insert: without entity.mu; the index of the element before.
InsertUnlocked(c) == AppendChannel(c, ListLen(c))
InsertBefore(c) ==
    AppendChannel(c, ListLen(c) - 1) /\ lock[asking[c].topic] = "free"

\* Under entity.mu.
Insert(c) == AppendChannel(c, ListLen(c)) /\ lock[asking[c].topic] = "free"

\* Without the lock: the position is noted for delete.
AppendPosition(c) ==
    /\ Goto(c, "reader", "append", "read")
    /\ pos' = [pos EXCEPT ![c] = Append(@, asking[c])]
    /\ asking' = [asking EXCEPT ![c] = NoPosition]
    /\ UNCHANGED <<fanVars, conn, outgoing, outbox, once, left, outsideVars>>

ReadInvalid(c) ==
    /\ Goto(c, "reader", "read", "reply")
    /\ budget.invalid < MaxInvalid
    /\ budget' = [budget EXCEPT !.invalid = @ + 1]
    /\ UNCHANGED <<fanVars, dataVars, cancelled, down>>

\* The error is written to the connection, by the reader itself.
ReplyError(c) ==
    /\ \/ Goto(c, "reader", "reply", "read") /\ conn[c] # "closed"
       \/ Goto(c, "reader", "reply", "delete") /\ conn[c] # "open"
    /\ UNCHANGED <<fanVars, dataVars, outsideVars>>

ReadFails(c) ==
    /\ Goto(c, "reader", "read", "delete")
    /\ conn[c] # "open"
    /\ UNCHANGED <<fanVars, dataVars, outsideVars>>

-----------------------------------------------------------------------------
(* The writer, messageWriter.                                                *)

WriteMessage(c) ==
    /\ \/ Goto(c, "writer", "write", "select") /\ conn[c] # "closed"
       \/ Goto(c, "writer", "write", "delete") /\ conn[c] # "open"
    /\ outbox' = [outbox EXCEPT ![c] = NoMessage]
    /\ UNCHANGED <<fanVars, conn, outgoing, asking, pos, once, left,
                   outsideVars>>

WriterDone(c) ==
    /\ \/ Goto(c, "writer", "select", "delete") /\ cancelled
       \/ Goto(c, "writer", "select", "done") /\ outgoing[c] = "closed"
    /\ UNCHANGED <<fanVars, dataVars, outsideVars>>

\* The WebSocket library allows one writer at a time: the later of two panics,
\* if it notices.
ConcurrentWrite(c) ==
    /\ ~down /\ pc[c]["reader"] = "reply" /\ pc[c]["writer"] = "write"
    /\ \/ /\ pc' = [pc EXCEPT ![c]["reader"] = "done"]
          /\ conn' = [conn EXCEPT ![c] = "closed"]
          /\ UNCHANGED down
       \/ down' = TRUE /\ UNCHANGED <<pc, conn>>
    /\ UNCHANGED <<fanVars, outgoing, asking, outbox, pos, once, left,
                   cancelled, budget>>

-----------------------------------------------------------------------------
(* delete, by the reader or the writer.                                      *)

\* The range over client.pos is evaluated.
WalkPositions(c, th) ==
    /\ Goto(c, th, "delete", "remove")
    /\ once' = [once EXCEPT ![c] = "running"]
    /\ left' = [left EXCEPT ![c] = pos[c]]
    /\ UNCHANGED <<fanVars, conn, outgoing, asking, outbox, pos, outsideVars>>

\* The first caller does it.
DeleteBegins(c, th) == once[c] = "new" /\ WalkPositions(c, th)

\* It races with the append of a subscription: the new length may be seen
\* before the new element, whose entity is then nil, and the writer panics.
DeleteTorn(c) ==
    /\ ~down
    /\ pc[c]["writer"] = "delete" /\ pc[c]["reader"] = "append"
    /\ once[c] = "new"
    /\ down' = TRUE
    /\ UNCHANGED <<fanVars, clientVars, cancelled, budget>>

\* client.once makes the second caller wait for the first.
DeleteSkipped(c, th) ==
    /\ Goto(c, th, "delete", "done")
    /\ once[c] = "done"
    /\ UNCHANGED <<fanVars, dataVars, outsideVars>>

Without(list, index) ==
    SubSeq(list, 1, index) \o SubSeq(list, index + 2, Len(list))

\* Under entity.mu: what the list now holds at the index goes.
DeletePosition(c, th) ==
    LET p == Head(left[c]) IN
    /\ ~down /\ pc[c][th] = "remove" /\ left[c] # <<>>
    /\ lock[p.topic] = "free"
    /\ p.index < Len(clientsChan[p.topic][p.filter])
    /\ clientsChan' = [clientsChan EXCEPT ![p.topic][p.filter] =
                            Without(@, p.index)]
    /\ left' = [left EXCEPT ![c] = Tail(@)]
    /\ UNCHANGED <<lock, incoming, bcast, conn, outgoing, pc, asking, outbox,
                   pos, once, outsideVars>>

\* The index is out of range: a panic, with entity.mu held.
DeletePanics(c, th) ==
    LET p == Head(left[c]) IN
    /\ ~down /\ pc[c][th] = "remove" /\ left[c] # <<>>
    /\ lock[p.topic] = "free"
    /\ p.index >= Len(clientsChan[p.topic][p.filter])
    /\ lock' = [lock EXCEPT ![p.topic] = "leaked"]
    /\ once' = [once EXCEPT ![c] = "done"]
    /\ left' = [left EXCEPT ![c] = <<>>]
    /\ pc' = [pc EXCEPT ![c][th] = "done"]
    /\ conn' = [conn EXCEPT ![c] = "closed"]
    /\ down' = (th = "writer")
    /\ UNCHANGED <<clientsChan, incoming, bcast, outgoing, asking, outbox, pos,
                   cancelled, budget>>

\* The connection is closed, and the channel becomes ch.
CloseConn(c, th, ch) ==
    /\ Goto(c, th, "remove", "done")
    /\ left[c] = <<>>
    /\ conn' = [conn EXCEPT ![c] = "closed"]
    /\ outgoing' = [outgoing EXCEPT ![c] = ch]
    /\ once' = [once EXCEPT ![c] = "done"]
    /\ UNCHANGED <<fanVars, asking, outbox, pos, left, outsideVars>>

DeleteEndsOpen(c, th) == CloseConn(c, th, "open")   \* mutant of DeleteEnds

DeleteEnds(c, th) == CloseConn(c, th, "closed")

-----------------------------------------------------------------------------
(* broadcast.                                                                *)

matchesAddress(filter, payload) ==
    filter.address # "" => filter.address \in payload.addresses

matchesFilter(filter, payload) ==
    /\ matchesAddress(filter, payload)
    /\ filter.topic0 # "" => /\ payload.topics # <<>>
                             /\ payload.topics[1] = filter.topic0

\* What does not unmarshal, such as what a closed channel yields, is skipped.
TakePayload(t) ==
    /\ ~down /\ bcast[t].pc = "select" /\ incoming[t] # <<>>
    /\ bcast' = [bcast EXCEPT ![t].pc = "rlock",
                              ![t].payload = Head(incoming[t])]
    /\ incoming' = [incoming EXCEPT ![t] = Tail(@)]
    /\ UNCHANGED <<clientsChan, lock, clientVars, outsideVars>>

RLock(t) ==
    /\ ~down /\ bcast[t].pc = "rlock" /\ lock[t] = "free"
    /\ lock' = [lock EXCEPT ![t] = "read"]
    /\ bcast' = [bcast EXCEPT ![t].pc = "send",
                    ![t].filters = {f \in Filter :
                                        matchesFilter(f, bcast[t].payload)}]
    /\ UNCHANGED <<clientsChan, incoming, clientVars, outsideVars>>

RangeFilter(t, f) ==
    /\ ~down /\ bcast[t].pc = "send" /\ bcast[t].clients = <<>>
    /\ f \in bcast[t].filters
    /\ bcast' = [bcast EXCEPT ![t].filters = @ \ {f},
                              ![t].clients = clientsChan[t][f]]
    /\ UNCHANGED <<clientsChan, lock, incoming, clientVars, outsideVars>>

\* The writer of the next client takes the message.
Handed(t) ==
    LET c == Head(bcast[t].clients) IN
    /\ outgoing[c] = "open" /\ pc[c]["writer"] = "select"
    /\ pc' = [pc EXCEPT ![c]["writer"] = "write"]
    /\ outbox' = [outbox EXCEPT ![c] =
                    [topic |-> t, payload |-> bcast[t].payload]]
    /\ UNCHANGED down

\* It is busy: select's default drops the message.
Dropped(t) ==
    LET c == Head(bcast[t].clients) IN
    /\ outgoing[c] = "open" /\ pc[c]["writer"] # "select"
    /\ UNCHANGED <<pc, outbox, down>>

\* Its channel is closed: a panic.
SentOnClosed(t) ==
    /\ outgoing[Head(bcast[t].clients)] = "closed"
    /\ down' = TRUE
    /\ UNCHANGED <<pc, outbox>>

\* The loop goes on to the next client.
NextClient(t) ==
    /\ ~down /\ bcast[t].clients # <<>>
    /\ bcast' = [bcast EXCEPT ![t].clients = Tail(@)]
    /\ UNCHANGED <<clientsChan, lock, incoming, conn, outgoing, asking, pos,
                   once, left, cancelled, budget>>

\* Mutant of SendToClient: without the default.
SendToClientBlocking(t) == NextClient(t) /\ (Handed(t) \/ SentOnClosed(t))

SendToClient(t) ==
    NextClient(t) /\ (Handed(t) \/ Dropped(t) \/ SentOnClosed(t))

RUnlock(t) ==
    /\ ~down /\ bcast[t].pc = "send"
    /\ bcast[t].filters = {} /\ bcast[t].clients = <<>>
    /\ lock' = [lock EXCEPT ![t] = "free"]
    /\ bcast' = [bcast EXCEPT ![t] = Idle]
    /\ UNCHANGED <<clientsChan, incoming, clientVars, outsideVars>>

BroadcastDone(t) ==
    /\ ~down /\ bcast[t].pc = "select" /\ cancelled
    /\ bcast' = [bcast EXCEPT ![t].pc = "done"]
    /\ UNCHANGED <<clientsChan, lock, incoming, clientVars, outsideVars>>

Broadcast(t) ==
    \/ TakePayload(t) \/ RLock(t) \/ SendToClient(t) \/ RUnlock(t)
    \/ BroadcastDone(t)
    \/ \E f \in Filter : RangeFilter(t, f)

-----------------------------------------------------------------------------
(* The outside: Redis, the peers and the signal.                             *)

\* pubsub.Subscribe forwards a payload; its buffer of 10 is never full within
\* MaxPayloads.
Arrive(t, p) ==
    /\ ~down /\ budget.payloads < MaxPayloads
    /\ budget' = [budget EXCEPT !.payloads = @ + 1]
    /\ incoming' = [incoming EXCEPT ![t] = Append(@, p)]
    /\ UNCHANGED <<clientsChan, lock, bcast, clientVars, cancelled, down>>

PeerLeaves(c) ==
    /\ ~down /\ conn[c] = "open"
    /\ conn' = [conn EXCEPT ![c] = "broken"]
    /\ UNCHANGED <<fanVars, outgoing, pc, asking, outbox, pos, once, left,
                   outsideVars>>

Cancel ==
    /\ ~down /\ ~cancelled
    /\ cancelled' = TRUE
    /\ UNCHANGED <<fanVars, clientVars, down, budget>>

Outside ==
    \/ \E t \in Topic, p \in Payload : Arrive(t, p)
    \/ \E c \in Client : Connect(c) \/ PeerLeaves(c)
    \/ Cancel

ReadMessage(c) ==
    \/ \E t \in Topic, f \in Filter : ReadSubscription(c, t, f)
    \/ ReadInvalid(c)

Delete(c) ==
    \E th \in Thread :
        \/ DeleteBegins(c, th) \/ DeleteSkipped(c, th) \/ DeletePosition(c, th)
        \/ DeletePanics(c, th) \/ DeleteEnds(c, th)

\* What a client's goroutines do without its peer.
ClientStep(c) ==
    \/ Insert(c) \/ AppendPosition(c) \/ ReplyError(c) \/ ReadFails(c)
    \/ WriterDone(c) \/ Delete(c)

HubNext ==
    \/ Outside
    \/ \E t \in Topic : Broadcast(t)
    \/ \E c \in Client :
           \/ ReadMessage(c) \/ ClientStep(c) \/ WriteMessage(c)
           \/ ConcurrentWrite(c) \/ DeleteTorn(c)

\* What needs entity.mu.
LockStep(c) ==
    \/ Insert(c)
    \/ \E th \in Thread : DeletePosition(c, th) \/ DeletePanics(c, th)

\* Goroutines that can run do, and Lock does not starve.  A write ends when the
\* connection does: a peer that stays may be as slow as it likes.
HubFairness ==
    /\ \A t \in Topic : WF_hubVars(Broadcast(t))
    /\ \A c \in Client :
           /\ WF_hubVars(AppendPosition(c) \/ ReadFails(c))
           /\ WF_hubVars(conn[c] # "open" /\ ReplyError(c))
           /\ WF_hubVars(WriterDone(c))
           /\ WF_hubVars(conn[c] # "open" /\ WriteMessage(c))
           /\ SF_hubVars(LockStep(c))
           /\ \A th \in Thread :
                  WF_hubVars(\/ DeleteBegins(c, th) \/ DeleteSkipped(c, th)
                            \/ DeleteEnds(c, th))

HubSafety == HubInit /\ [][HubNext]_hubVars

HubSpec == HubSafety /\ HubFairness
=============================================================================
