------------------------------ MODULE HubProofs -----------------------------
(* Theorems about Hub, for every number of clients, topics and messages.     *)
EXTENDS HubProperties, SequenceTheorems, TLAPS

-----------------------------------------------------------------------------
(* delete runs once.                                                         *)

\* What the steps of delete rely on: a goroutine that removes holds client.once,
\* and the channel is closed only when it is done.
OnceInv ==
    /\ pc \in [Client -> [Thread -> Label]]
    /\ once \in [Client -> {"new", "running", "done"}]
    /\ outgoing \in [Client -> {"open", "closed"}]
    /\ \A c \in Client, th \in Thread :
           pc[c][th] = "remove" =>
               /\ once[c] = "running"
               /\ \A other \in Thread : pc[c][other] = "remove" => other = th
    /\ \A c \in Client : outgoing[c] = "closed" => once[c] = "done"

LEMMA OnceImplies == OnceInv => OneDelete
BY DEF OnceInv, OneDelete

\* A step that starts no goroutine on "remove" keeps OnceInv, as long as
\* client.once and the channel do not change.
LEMMA NoNewRemover ==
    ASSUME OnceInv, UNCHANGED once, UNCHANGED outgoing,
           pc' \in [Client -> [Thread -> Label]],
           \A d \in Client, other \in Thread :
               pc'[d][other] = "remove" => pc[d][other] = "remove"
    PROVE  OnceInv'
<1>1. /\ once' \in [Client -> {"new", "running", "done"}]
      /\ outgoing' \in [Client -> {"open", "closed"}]
  BY DEF OnceInv
<1>2. ASSUME NEW d \in Client, NEW th \in Thread, pc'[d][th] = "remove"
      PROVE  /\ once'[d] = "running"
             /\ \A other \in Thread : pc'[d][other] = "remove" => other = th
  <2>1. pc[d][th] = "remove"
    BY <1>2
  <2>2. once[d] = "running"
    BY <2>1 DEF OnceInv
  <2>3. \A other \in Thread : pc[d][other] = "remove" => other = th
    BY <2>1 DEF OnceInv
  <2> QED
    BY <2>2, <2>3
<1>3. \A d \in Client : outgoing'[d] = "closed" => once'[d] = "done"
  BY DEF OnceInv
<1> QED
  BY <1>1, <1>2, <1>3 DEF OnceInv

\* A goroutine that goes somewhere else than to "remove" keeps OnceInv, as long
\* as client.once and the channel do not change.
LEMMA GotoOnce ==
    ASSUME OnceInv, NEW c \in Client, NEW th \in Thread,
           NEW from, NEW to \in Label \ {"remove"},
           Goto(c, th, from, to), UNCHANGED <<once, outgoing>>
    PROVE  OnceInv'
<1>1. pc' \in [Client -> [Thread -> Label]]
  BY DEF OnceInv, Goto
<1>2. \A d \in Client, other \in Thread :
        pc'[d][other] = "remove" => pc[d][other] = "remove"
  BY DEF OnceInv, Goto
<1> QED
  BY <1>1, <1>2, NoNewRemover

\* So does any step that leaves the three variables alone.
LEMMA OnceFrame ==
    ASSUME OnceInv, UNCHANGED <<pc, once, outgoing>>
    PROVE  OnceInv'
BY DEF OnceInv

LEMMA DeleteOnce ==
    ASSUME OnceInv, NEW c \in Client, Delete(c)
    PROVE  OnceInv'
<1> PICK th \in Thread :
        \/ DeleteBegins(c, th) \/ DeleteSkipped(c, th) \/ DeletePosition(c, th)
        \/ DeletePanics(c, th) \/ DeleteEnds(c, th)
  BY DEF Delete
<1>1. CASE DeleteBegins(c, th)
  <2>1. /\ once[c] = "new" /\ once' = [once EXCEPT ![c] = "running"]
        /\ pc' = [pc EXCEPT ![c][th] = "remove"] /\ outgoing' = outgoing
    BY <1>1 DEF DeleteBegins, WalkPositions, Goto
  <2>2. /\ pc' \in [Client -> [Thread -> Label]]
        /\ once' \in [Client -> {"new", "running", "done"}]
    BY <2>1 DEF OnceInv, Label
  <2>3. \A other \in Thread : pc[c][other] # "remove"
    BY <2>1 DEF OnceInv
  <2>4. \A d \in Client, other \in Thread :
          pc'[d][other] = "remove" =>
              \/ d = c /\ other = th
              \/ d # c /\ pc[d][other] = "remove"
    BY <2>1, <2>3 DEF OnceInv
  <2>5. \A d \in Client : d # c => once'[d] = once[d]
    BY <2>1 DEF OnceInv
  <2>6. once'[c] = "running"
    BY <2>1 DEF OnceInv
  <2>7. ASSUME NEW d \in Client, NEW other \in Thread,
               pc'[d][other] = "remove"
        PROVE  /\ once'[d] = "running"
               /\ \A third \in Thread :
                      pc'[d][third] = "remove" => third = other
    <3>1. CASE d = c
      BY <2>4, <2>6, <2>7, <3>1
    <3>2. CASE d # c
      BY <2>4, <2>5, <2>7, <3>2 DEF OnceInv
    <3> QED
      BY <3>1, <3>2
  <2>8. \A d \in Client : outgoing'[d] = "closed" => once'[d] = "done"
    BY <2>1, <2>5 DEF OnceInv
  <2> QED
    BY <2>1, <2>2, <2>7, <2>8 DEF OnceInv
<1>2. CASE DeleteSkipped(c, th)
  BY <1>2, GotoOnce DEF DeleteSkipped, dataVars, Label
<1>3. CASE DeletePosition(c, th)
  BY <1>3, OnceFrame DEF DeletePosition
<1>4. CASE DeletePanics(c, th) \/ DeleteEnds(c, th)
  <2>1. /\ pc[c][th] = "remove"
        /\ pc' = [pc EXCEPT ![c][th] = "done"]
        /\ once' = [once EXCEPT ![c] = "done"]
        /\ \/ outgoing' = outgoing
           \/ outgoing' = [outgoing EXCEPT ![c] = "closed"]
    <3>1. CASE DeletePanics(c, th)
      BY <3>1 DEF DeletePanics
    <3>2. CASE DeleteEnds(c, th)
      BY <3>2 DEF DeleteEnds, CloseConn, Goto
    <3> QED
      BY <1>4, <3>1, <3>2
  <2>2. /\ pc' \in [Client -> [Thread -> Label]]
        /\ once' \in [Client -> {"new", "running", "done"}]
        /\ outgoing' \in [Client -> {"open", "closed"}]
    BY <2>1 DEF OnceInv, Label
  <2>3. \A d \in Client, other \in Thread :
          pc'[d][other] = "remove" => d # c /\ pc[d][other] = "remove"
    BY <2>1 DEF OnceInv
  <2>4. \A d \in Client :
          d # c => once'[d] = once[d] /\ outgoing'[d] = outgoing[d]
    BY <2>1 DEF OnceInv
  <2>5. once'[c] = "done"
    BY <2>1 DEF OnceInv
  <2>6. ASSUME NEW d \in Client, NEW other \in Thread,
               pc'[d][other] = "remove"
        PROVE  /\ once'[d] = "running"
               /\ \A third \in Thread :
                      pc'[d][third] = "remove" => third = other
    <3>1. d # c /\ pc[d][other] = "remove"
      BY <2>3, <2>6
    <3>2. \A third \in Thread : pc'[d][third] = "remove" => third = other
      BY <2>3, <3>1 DEF OnceInv
    <3> QED
      BY <2>4, <3>1, <3>2 DEF OnceInv
  <2>7. \A d \in Client : outgoing'[d] = "closed" => once'[d] = "done"
    BY <2>4, <2>5 DEF OnceInv
  <2> QED
    BY <2>2, <2>6, <2>7 DEF OnceInv
<1> QED
  BY <1>1, <1>2, <1>3, <1>4

LEMMA ClientOnce ==
    ASSUME OnceInv, NEW c \in Client,
           \/ ReadMessage(c) \/ ClientStep(c) \/ WriteMessage(c)
           \/ ConcurrentWrite(c) \/ DeleteTorn(c)
    PROVE  OnceInv'
<1>1. CASE ReadMessage(c)
  BY <1>1, GotoOnce
  DEF ReadMessage, ReadSubscription, ReadInvalid, dataVars, Thread, Label
<1>2. CASE Insert(c) \/ AppendPosition(c)
  BY <1>2, GotoOnce DEF Insert, AppendChannel, AppendPosition, Thread, Label
<1>3. CASE ReplyError(c) \/ ReadFails(c)
  BY <1>3, GotoOnce DEF ReplyError, ReadFails, dataVars, Thread, Label
<1>4. CASE WriterDone(c) \/ WriteMessage(c)
  BY <1>4, GotoOnce DEF WriterDone, WriteMessage, dataVars, Thread, Label
<1>5. CASE Delete(c)
  BY <1>5, DeleteOnce
<1>6. CASE ConcurrentWrite(c)
  <2>1. CASE pc' = pc
    BY <1>6, <2>1, OnceFrame DEF ConcurrentWrite
  <2>2. CASE pc' = [pc EXCEPT ![c]["reader"] = "done"]
    <3>1. Goto(c, "reader", "reply", "done")
      BY <1>6, <2>2 DEF ConcurrentWrite, Goto
    <3> QED
      BY <1>6, <3>1, GotoOnce DEF ConcurrentWrite, Thread, Label
  <2> QED
    BY <1>6, <2>1, <2>2 DEF ConcurrentWrite
<1>7. CASE DeleteTorn(c)
  BY <1>7, OnceFrame DEF DeleteTorn, clientVars, dataVars
<1> QED
  BY <1>1, <1>2, <1>3, <1>4, <1>5, <1>6, <1>7 DEF ClientStep

LEMMA BroadcastOnce ==
    ASSUME OnceInv, NEW t \in Topic, Broadcast(t)
    PROVE  OnceInv'
<1>1. CASE SendToClient(t)
  <2>1. UNCHANGED <<once, outgoing>>
    BY <1>1 DEF SendToClient, NextClient
  <2>2. CASE UNCHANGED pc
    BY <2>1, <2>2, OnceFrame
  <2>3. CASE Handed(t)
    <3> DEFINE c == Head(bcast[t].clients)
    <3>1. /\ pc' = [pc EXCEPT ![c]["writer"] = "write"]
      BY <2>3 DEF Handed
    <3>2. pc' \in [Client -> [Thread -> Label]]
      BY <3>1 DEF OnceInv, Thread, Label
    <3>3. \A d \in Client, other \in Thread :
            pc'[d][other] = "remove" => pc[d][other] = "remove"
      BY <3>1 DEF OnceInv, Thread
    <3> QED
      BY <2>1, <3>2, <3>3, NoNewRemover
  <2> QED
    BY <1>1, <2>2, <2>3 DEF SendToClient, Dropped, SentOnClosed
<1>2. CASE ~SendToClient(t)
  BY <1>2, OnceFrame DEF Broadcast, TakePayload, RLock, RUnlock, BroadcastDone,
     RangeFilter, clientVars, dataVars
<1> QED
  BY <1>1, <1>2

LEMMA OutsideOnce ==
    ASSUME OnceInv, Outside
    PROVE  OnceInv'
<1>1. CASE \E c \in Client : Connect(c)
  <2> PICK c \in Client : Connect(c)
    BY <1>1
  <2>1. /\ pc' = [pc EXCEPT ![c]["reader"] = "read", ![c]["writer"] = "select"]
        /\ UNCHANGED <<once, outgoing>>
    BY DEF Connect
  <2>2. pc' \in [Client -> [Thread -> Label]]
    BY <2>1 DEF OnceInv, Thread, Label
  <2>3. \A d \in Client, other \in Thread :
          pc'[d][other] = "remove" => pc[d][other] = "remove"
    BY <2>1 DEF OnceInv, Thread
  <2> QED
    BY <2>1, <2>2, <2>3, NoNewRemover
<1>2. CASE UNCHANGED <<pc, once, outgoing>>
  BY <1>2, OnceFrame
<1> QED
  BY <1>1, <1>2 DEF Outside, Arrive, PeerLeaves, Cancel, clientVars, dataVars

\* delete runs at most once at a time and never after the channel is closed.
THEOREM DeleteRunsOnce == HubSafety => []OneDelete
<1>1. HubInit => OnceInv
  BY DEF HubInit, OnceInv, Label, Thread
<1>2. OnceInv /\ [HubNext]_hubVars => OnceInv'
  <2> SUFFICES ASSUME OnceInv, [HubNext]_hubVars PROVE OnceInv'
    OBVIOUS
  <2>1. CASE UNCHANGED hubVars
    BY <2>1, OnceFrame DEF hubVars, clientVars, dataVars
  <2> QED
    BY <2>1, OutsideOnce, BroadcastOnce, ClientOnce DEF HubNext
<1> QED
  BY <1>1, <1>2, OnceImplies, PTL DEF HubSafety
-----------------------------------------------------------------------------
(* Types, who holds the lock, and what a reader works on.                    *)

\* broadcast holds entity.mu exactly while it sends, and has a payload then.
BcastInv ==
    \A t \in Topic :
        /\ bcast[t].pc \in {"rlock", "send"} => bcast[t].payload \in Payload
        /\ bcast[t].pc # "send" => bcast[t].clients = <<>>
        /\ lock[t] = "read" <=> bcast[t].pc = "send"

\* A reader has a subscription exactly while it enters it.
ReaderInv ==
    \A c \in Client :
        /\ conn[c] = "new" => pc[c]["reader"] = "off"
        /\ asking[c] # NoPosition <=> pc[c]["reader"] \in {"insert", "append"}

FanType ==
    /\ clientsChan \in [Topic -> [Filter -> Seq(Client)]]
    /\ lock \in [Topic -> {"free", "read", "leaked"}]
    /\ incoming \in [Topic -> Seq(Payload)]
    /\ bcast \in [Topic -> Bcast]

ClientType ==
    /\ conn \in [Client -> Conn]
    /\ outgoing \in [Client -> {"open", "closed"}]
    /\ pc \in [Client -> [Thread -> Label]]
    /\ asking \in [Client -> Position \cup {NoPosition}]
    /\ outbox \in [Client -> Message \cup {NoMessage}]
    /\ pos \in [Client -> Seq(Position)]
    /\ once \in [Client -> {"new", "running", "done"}]
    /\ left \in [Client -> Seq(Position)]

OutsideType ==
    /\ cancelled \in BOOLEAN
    /\ down \in BOOLEAN
    /\ budget \in [payloads : 0..MaxPayloads, invalid : 0..MaxInvalid]

HInv == FanType /\ ClientType /\ OutsideType /\ BcastInv /\ ReaderInv

LEMMA HInvTypes == HInv => HubTypeOK
BY DEF HInv, FanType, ClientType, OutsideType, HubTypeOK

LEMMA InitHInv == HubInit => HInv
<1> SUFFICES ASSUME HubInit PROVE HInv
  OBVIOUS
<1>1. FanType
  BY DEF HubInit, FanType, Bcast, Idle
<1>2. ClientType
  BY DEF HubInit, ClientType, Conn, Thread, Label
<1>3. OutsideType
  <2>1. cancelled \in BOOLEAN /\ down \in BOOLEAN
    BY DEF HubInit
  <2>2. budget \in [payloads : 0..MaxPayloads, invalid : 0..MaxInvalid]
    BY HubAssumption DEF HubInit
  <2> QED
    BY <2>1, <2>2 DEF OutsideType
<1>4. BcastInv /\ ReaderInv
  BY DEF HubInit, BcastInv, ReaderInv, Idle, Thread
<1> QED
  BY <1>1, <1>2, <1>3, <1>4 DEF HInv

LEMMA ReaderHInv ==
    ASSUME HInv, NEW c \in Client,
           \/ ReadMessage(c) \/ Insert(c) \/ AppendPosition(c)
           \/ ReplyError(c) \/ ReadFails(c)
    PROVE  HInv'
<1> USE DEF HInv
<1>1. CASE \E t \in Topic, f \in Filter : ReadSubscription(c, t, f)
  <2> PICK t \in Topic, f \in Filter : ReadSubscription(c, t, f)
    BY <1>1
  <2> USE DEF ReadSubscription, Goto, fanVars, outsideVars
  <2>1. FanType' /\ OutsideType' /\ BcastInv'
    BY DEF FanType, OutsideType, BcastInv
  <2>2. [topic |-> t, filter |-> f, index |-> 0] \in Position
    BY DEF Position
  <2>3. ClientType'
    BY <2>2 DEF ClientType, Label
  <2>4. [topic |-> t, filter |-> f, index |-> 0] # NoPosition
    BY DEF NoPosition
  <2>5. ReaderInv'
    BY <2>4 DEF ReaderInv, ClientType, Thread
  <2> QED
    BY <2>1, <2>3, <2>5
<1>2. CASE Insert(c)
  <2> USE <1>2 DEF Insert, AppendChannel, Goto, outsideVars
  <2>1. asking[c] \in Position
    BY DEF ReaderInv, ClientType
  <2>2. OutsideType' /\ BcastInv'
    BY DEF OutsideType, BcastInv
  <2>3. FanType'
    BY <2>1 DEF FanType, Position
  <2>4. ListLen(c) \in Nat
    BY <2>1 DEF ListLen, FanType, Position
  <2>5. [asking[c] EXCEPT !.index = ListLen(c)] \in Position
    BY <2>1, <2>4 DEF Position
  <2>6. asking'[c] = [asking[c] EXCEPT !.index = ListLen(c)]
    BY DEF ClientType
  <2>7. asking'[c] # NoPosition
    BY <2>5, <2>6 DEF Position, NoPosition
  <2>8. ClientType'
    BY <2>5 DEF ClientType, Label
  <2>9. ReaderInv'
    BY <2>7 DEF ReaderInv, ClientType, Thread
  <2> QED
    BY <2>2, <2>3, <2>8, <2>9
<1>3. CASE AppendPosition(c)
  <2> USE <1>3 DEF AppendPosition, Goto, outsideVars, fanVars
  <2>1. asking[c] \in Position
    BY DEF ReaderInv, ClientType
  <2>2. OutsideType' /\ BcastInv' /\ FanType'
    BY DEF OutsideType, BcastInv, FanType
  <2>3. Append(pos[c], asking[c]) \in Seq(Position)
    BY <2>1 DEF ClientType
  <2>4. ClientType'
    BY <2>3 DEF ClientType, Label
  <2>5. ReaderInv'
    BY DEF ReaderInv, ClientType, Thread
  <2> QED
    BY <2>2, <2>4, <2>5
<1>4. CASE ReadInvalid(c) \/ ReplyError(c) \/ ReadFails(c)
  <2>1. PICK a \in {"read", "reply"}, b \in {"read", "reply", "delete"} :
            Goto(c, "reader", a, b)
    BY <1>4 DEF ReadInvalid, ReplyError, ReadFails
  <2>2. UNCHANGED <<fanVars, dataVars, cancelled, down>>
    BY <1>4 DEF ReadInvalid, ReplyError, ReadFails, outsideVars
  <2>3. BcastInv' /\ FanType'
    BY <2>2 DEF BcastInv, FanType, fanVars
  <2>4. budget' \in [payloads : 0..MaxPayloads, invalid : 0..MaxInvalid]
    BY <1>4, HubAssumption DEF ReadInvalid, ReplyError, ReadFails, OutsideType,
       outsideVars
  <2>5. OutsideType'
    BY <2>2, <2>4 DEF OutsideType
  <2>6. ClientType'
    BY <2>1, <2>2 DEF ClientType, Label, dataVars, Goto
  <2>7. ReaderInv'
    BY <2>1, <2>2 DEF ReaderInv, ClientType, Thread, dataVars, Goto
  <2> QED
    BY <2>3, <2>5, <2>6, <2>7
<1> QED
  BY <1>1, <1>2, <1>3, <1>4 DEF ReadMessage
\* A goroutine that goes on, other than with a subscription, keeps ReaderInv.
LEMMA GotoReader ==
    ASSUME ClientType, ReaderInv, NEW c \in Client, NEW th \in Thread,
           NEW a \in Label \ {"off", "insert", "append"},
           NEW b \in Label \ {"insert", "append"},
           Goto(c, th, a, b), UNCHANGED asking,
           \A d \in Client : conn'[d] = "new" => conn[d] = "new"
    PROVE  ReaderInv' /\ pc' \in [Client -> [Thread -> Label]]
<1>1. pc' = [pc EXCEPT ![c][th] = b] /\ pc[c][th] = a
  BY DEF Goto
<1>2. pc' \in [Client -> [Thread -> Label]]
  BY <1>1 DEF ClientType
<1>3. ASSUME NEW d \in Client
      PROVE  /\ conn'[d] = "new" => pc'[d]["reader"] = "off"
             /\ asking'[d] # NoPosition
                <=> pc'[d]["reader"] \in {"insert", "append"}
  <2>1. CASE d = c /\ th = "reader"
    <3>1. conn[c] # "new" /\ asking[c] = NoPosition
      BY <1>1, <2>1 DEF ReaderInv
    <3>2. pc'[d]["reader"] = b
      BY <1>1, <2>1 DEF ClientType
    <3> QED
      BY <2>1, <3>1, <3>2
  <2>2. CASE ~(d = c /\ th = "reader")
    <3>1. pc'[d]["reader"] = pc[d]["reader"]
      BY <1>1, <2>2 DEF ClientType, Thread
    <3> QED
      BY <3>1 DEF ReaderInv
  <2> QED
    BY <2>1, <2>2
<1> QED
  BY <1>2, <1>3 DEF ReaderInv

\* What the steps of a client leave alone.
LEMMA FanHInv ==
    ASSUME FanType, BcastInv, UNCHANGED fanVars
    PROVE  FanType' /\ BcastInv'
BY DEF fanVars, FanType, BcastInv

LEMMA OutsideHInv ==
    ASSUME OutsideType, UNCHANGED outsideVars
    PROVE  OutsideType'
BY DEF outsideVars, OutsideType

LEMMA WriterHInv ==
    ASSUME HInv, NEW c \in Client,
           \/ WriteMessage(c) \/ WriterDone(c) \/ ConcurrentWrite(c)
           \/ DeleteTorn(c)
    PROVE  HInv'
<1> USE DEF HInv
<1>1. CASE WriteMessage(c) \/ WriterDone(c)
  <2>1. PICK a \in {"write", "select"}, b \in {"select", "delete", "done"} :
            Goto(c, "writer", a, b)
    BY <1>1 DEF WriteMessage, WriterDone
  <2>2. UNCHANGED <<fanVars, outsideVars, conn, outgoing, asking, pos, once,
                    left>>
    BY <1>1 DEF WriteMessage, WriterDone, dataVars
  <2>3. outbox' \in [Client -> Message \cup {NoMessage}]
    BY <1>1 DEF WriteMessage, WriterDone, dataVars, ClientType
  <2>4. ReaderInv' /\ pc' \in [Client -> [Thread -> Label]]
    BY <2>1, <2>2, GotoReader DEF Thread, Label
  <2>5. ClientType'
    BY <2>2, <2>3, <2>4 DEF ClientType
  <2> QED
    BY <2>2, <2>4, <2>5, FanHInv, OutsideHInv
<1>2. CASE ConcurrentWrite(c)
  <2>1. UNCHANGED <<fanVars, outgoing, asking, outbox, pos, once, left,
                    cancelled, budget>>
    BY <1>2 DEF ConcurrentWrite
  <2>2. CASE down' = TRUE /\ UNCHANGED <<pc, conn>>
    BY <2>1, <2>2, FanHInv DEF ClientType, OutsideType, ReaderInv
  <2>3. CASE /\ pc' = [pc EXCEPT ![c]["reader"] = "done"]
             /\ conn' = [conn EXCEPT ![c] = "closed"]
             /\ UNCHANGED down
    <3>1. Goto(c, "reader", "reply", "done")
      BY <1>2, <2>3 DEF ConcurrentWrite, Goto
    <3>2. /\ conn' \in [Client -> Conn]
          /\ \A d \in Client : conn'[d] = "new" => conn[d] = "new"
      BY <2>3 DEF ClientType, Conn
    <3>3. ReaderInv' /\ pc' \in [Client -> [Thread -> Label]]
      BY <2>1, <3>1, <3>2, GotoReader DEF Thread, Label
    <3>4. ClientType'
      BY <2>1, <3>2, <3>3 DEF ClientType
    <3> QED
      BY <2>1, <2>3, <3>3, <3>4, FanHInv DEF OutsideType
  <2> QED
    BY <1>2, <2>2, <2>3 DEF ConcurrentWrite
<1>3. CASE DeleteTorn(c)
  <2>1. UNCHANGED <<fanVars, pc, conn, outgoing, asking, outbox, pos, once,
                    left, cancelled, budget>>
    BY <1>3 DEF DeleteTorn, clientVars, dataVars
  <2>2. down' \in BOOLEAN
    BY <1>3 DEF DeleteTorn
  <2> QED
    BY <2>1, <2>2, FanHInv DEF ClientType, OutsideType, ReaderInv
<1> QED
  BY <1>1, <1>2, <1>3

\* Removing an element leaves a list of clients.
LEMMA WithoutType ==
    ASSUME NEW list \in Seq(Client), NEW n \in Nat, n < Len(list)
    PROVE  /\ Without(list, n) \in Seq(Client)
           /\ \A i \in DOMAIN Without(list, n) :
                  \E j \in DOMAIN list : Without(list, n)[i] = list[j]
<1> DEFINE head == SubSeq(list, 1, n)
           tail == SubSeq(list, n + 2, Len(list))
<1>1. /\ head \in Seq(Client) /\ tail \in Seq(Client)
      /\ Len(head) = n /\ Len(tail) = Len(list) - n - 1
      /\ \A i \in 1..n : head[i] = list[i]
      /\ \A i \in 1..(Len(list) - n - 1) : tail[i] = list[n + 1 + i]
  <2>1. Len(list) \in Nat
    OBVIOUS
  <2>2. \A i \in 1..n : i \in 1..Len(list)
    BY <2>1
  <2>3. \A i \in (n + 2)..Len(list) : i \in 1..Len(list)
    BY <2>1
  <2>4. /\ head \in Seq(Client) /\ Len(head) = n
        /\ \A i \in 1..n : head[i] = list[i]
    BY <2>1
  <2>5. tail \in Seq(Client) /\ Len(tail) = Len(list) - n - 1
    BY <2>1
  <2>6. \A i \in 1..(Len(list) - n - 1) : tail[i] = list[n + 1 + i]
    BY <2>1
  <2> QED
    BY <2>4, <2>5, <2>6
<1>2. Without(list, n) = head \o tail
  BY DEF Without
<1> HIDE DEF head, tail
<1>3. /\ head \o tail \in Seq(Client)
      /\ Len(head \o tail) = Len(head) + Len(tail)
      /\ \A i \in 1..(Len(head) + Len(tail)) :
            (head \o tail)[i] = IF i <= Len(head) THEN head[i]
                               ELSE tail[i - Len(head)]
  BY <1>1, ConcatProperties
<1>4. ASSUME NEW i \in DOMAIN (head \o tail)
      PROVE  \E j \in DOMAIN list : (head \o tail)[i] = list[j]
  <2>1. i \in 1..(Len(list) - 1) /\ Len(list) \in Nat
    BY <1>1, <1>3
  <2>2. CASE i <= n
    BY <1>1, <1>3, <2>1, <2>2
  <2>3. CASE i > n
    <3>1. i - n \in 1..(Len(list) - n - 1)
      BY <2>1, <2>3
    <3>2. (head \o tail)[i] = list[i + 1]
      BY <1>1, <1>3, <2>1, <2>3, <3>1
    <3> QED
      BY <2>1, <3>2
  <2> QED
    BY <2>1, <2>2, <2>3
<1> QED
  BY <1>2, <1>3, <1>4

LEMMA DeleteHInv ==
    ASSUME HInv, NEW c \in Client, Delete(c)
    PROVE  HInv'
<1> USE DEF HInv
<1> PICK th \in Thread :
        \/ DeleteBegins(c, th) \/ DeleteSkipped(c, th) \/ DeletePosition(c, th)
        \/ DeletePanics(c, th) \/ DeleteEnds(c, th)
  BY DEF Delete
<1>1. CASE DeleteBegins(c, th)
  <2>1. Goto(c, th, "delete", "remove")
    BY <1>1 DEF DeleteBegins, WalkPositions
  <2>2. /\ UNCHANGED <<fanVars, outsideVars, conn, outgoing, asking, outbox,
                       pos>>
        /\ once' = [once EXCEPT ![c] = "running"]
        /\ left' = [left EXCEPT ![c] = pos[c]]
    BY <1>1 DEF DeleteBegins, WalkPositions
  <2>3. ReaderInv' /\ pc' \in [Client -> [Thread -> Label]]
    BY <2>1, <2>2, GotoReader DEF Label
  <2>4. ClientType'
    BY <2>2, <2>3 DEF ClientType
  <2> QED
    BY <2>2, <2>3, <2>4, FanHInv, OutsideHInv
<1>2. CASE DeleteSkipped(c, th)
  <2>1. /\ Goto(c, th, "delete", "done")
        /\ UNCHANGED <<fanVars, dataVars, outsideVars>>
    BY <1>2 DEF DeleteSkipped
  <2>2. ReaderInv' /\ pc' \in [Client -> [Thread -> Label]]
    BY <2>1, GotoReader DEF Label, dataVars
  <2>3. ClientType'
    BY <2>1, <2>2 DEF ClientType, dataVars
  <2> QED
    BY <2>1, <2>2, <2>3, FanHInv, OutsideHInv
<1>3. CASE DeletePosition(c, th)
  <2> DEFINE p == Head(left[c])
  <2>1. p \in Position /\ Tail(left[c]) \in Seq(Position)
    BY <1>3 DEF DeletePosition, ClientType
  <2>2. /\ p.topic \in Topic /\ p.filter \in Filter /\ p.index \in Nat
    BY <2>1 DEF Position
  <2>3. Without(clientsChan[p.topic][p.filter], p.index) \in Seq(Client)
    BY <1>3, <2>2, WithoutType DEF DeletePosition, FanType
  <2>4. FanType'
    BY <1>3, <2>2, <2>3 DEF DeletePosition, FanType
  <2>5. ClientType' /\ ReaderInv' /\ BcastInv'
    BY <1>3, <2>1 DEF DeletePosition, ClientType, ReaderInv, BcastInv
  <2> QED
    BY <1>3, <2>4, <2>5, OutsideHInv DEF DeletePosition
<1>4. CASE DeletePanics(c, th)
  <2> DEFINE p == Head(left[c])
  <2>1. p \in Position
    BY <1>4 DEF DeletePanics, ClientType
  <2>2. p.topic \in Topic
    BY <2>1 DEF Position
  <2>3. /\ Goto(c, th, "remove", "done")
        /\ conn' = [conn EXCEPT ![c] = "closed"]
        /\ once' = [once EXCEPT ![c] = "done"]
        /\ left' = [left EXCEPT ![c] = <<>>]
        /\ UNCHANGED <<outgoing, asking, outbox, pos>>
    BY <1>4 DEF DeletePanics, Goto
  <2>4. /\ conn' \in [Client -> Conn]
        /\ \A d \in Client : conn'[d] = "new" => conn[d] = "new"
    BY <2>3 DEF ClientType, Conn
  <2>5. ReaderInv' /\ pc' \in [Client -> [Thread -> Label]]
    BY <2>3, <2>4, GotoReader DEF Label
  <2>6. ClientType'
    BY <2>3, <2>4, <2>5 DEF ClientType
  <2>7. FanType' /\ BcastInv'
    BY <1>4, <2>2 DEF DeletePanics, FanType, BcastInv
  <2>8. cancelled' \in BOOLEAN /\ down' \in BOOLEAN
    BY <1>4 DEF DeletePanics, OutsideType
  <2>9. OutsideType'
    BY <1>4, <2>8 DEF DeletePanics, OutsideType
  <2> QED
    BY <2>5, <2>6, <2>7, <2>9
<1>5. CASE DeleteEnds(c, th)
  <2>1. /\ Goto(c, th, "remove", "done")
        /\ conn' = [conn EXCEPT ![c] = "closed"]
        /\ outgoing' = [outgoing EXCEPT ![c] = "closed"]
        /\ once' = [once EXCEPT ![c] = "done"]
        /\ UNCHANGED <<fanVars, asking, outbox, pos, left, outsideVars>>
    BY <1>5 DEF DeleteEnds, CloseConn
  <2>2. /\ conn' \in [Client -> Conn]
        /\ \A d \in Client : conn'[d] = "new" => conn[d] = "new"
    BY <2>1 DEF ClientType, Conn
  <2>3. ReaderInv' /\ pc' \in [Client -> [Thread -> Label]]
    BY <2>1, <2>2, GotoReader DEF Label
  <2>4. ClientType'
    BY <2>1, <2>2, <2>3 DEF ClientType
  <2> QED
    BY <2>1, <2>3, <2>4, FanHInv, OutsideHInv
<1> QED
  BY <1>1, <1>2, <1>3, <1>4, <1>5

LEMMA BroadcastHInv ==
    ASSUME HInv, NEW t \in Topic, Broadcast(t)
    PROVE  HInv'
<1> USE DEF HInv
<1>1. bcast[t] \in Bcast /\ bcast \in [Topic -> Bcast]
  BY DEF FanType
<1>2. CASE TakePayload(t)
  <2> DEFINE b == [bcast[t] EXCEPT !.pc = "rlock", !.payload = Head(incoming[t])]
  <2>1. Head(incoming[t]) \in Payload /\ Tail(incoming[t]) \in Seq(Payload)
    BY <1>2 DEF TakePayload, FanType
  <2>2. b \in Bcast /\ b.pc = "rlock" /\ b.payload = Head(incoming[t])
        /\ b.clients = bcast[t].clients
    BY <1>1, <2>1 DEF Bcast
  <2>3. bcast' = [bcast EXCEPT ![t] = b] /\ UNCHANGED lock
    BY <1>1, <1>2 DEF TakePayload
  <2> HIDE DEF b
  <2>4. FanType'
    BY <1>2, <2>1, <2>2, <2>3 DEF TakePayload, FanType
  <2>5. BcastInv'
    BY <1>1, <1>2, <2>1, <2>2, <2>3 DEF TakePayload, BcastInv
  <2>6. ClientType' /\ OutsideType' /\ ReaderInv'
    BY <1>2 DEF TakePayload, clientVars, dataVars, outsideVars, ClientType,
       OutsideType, ReaderInv
  <2> QED
    BY <2>4, <2>5, <2>6
<1>3. CASE RLock(t)
  <2> DEFINE fs == {f \in Filter : matchesFilter(f, bcast[t].payload)}
             b == [bcast[t] EXCEPT !.pc = "send", !.filters = fs]
  <2>1. b \in Bcast /\ b.pc = "send" /\ b.payload = bcast[t].payload
        /\ b.clients = bcast[t].clients
    BY <1>1 DEF Bcast
  <2>2. bcast' = [bcast EXCEPT ![t] = b] /\ lock' = [lock EXCEPT ![t] = "read"]
    BY <1>1, <1>3 DEF RLock
  <2> HIDE DEF b
  <2>3. FanType'
    BY <1>3, <2>1, <2>2 DEF RLock, FanType
  <2>4. BcastInv'
    BY <1>1, <1>3, <2>1, <2>2 DEF RLock, BcastInv, FanType
  <2>5. ClientType' /\ OutsideType' /\ ReaderInv'
    BY <1>3 DEF RLock, clientVars, dataVars, outsideVars, ClientType,
       OutsideType, ReaderInv
  <2> QED
    BY <2>3, <2>4, <2>5
<1>4. CASE \E f \in Filter : RangeFilter(t, f)
  <2> PICK f \in Filter : RangeFilter(t, f)
    BY <1>4
  <2> DEFINE b == [bcast[t] EXCEPT !.filters = @ \ {f},
                                   !.clients = clientsChan[t][f]]
  <2>1. clientsChan[t][f] \in Seq(Client)
    BY DEF FanType
  <2>2. b \in Bcast /\ b.pc = bcast[t].pc /\ b.payload = bcast[t].payload
    BY <1>1, <2>1 DEF Bcast
  <2>3. bcast' = [bcast EXCEPT ![t] = b] /\ UNCHANGED lock
        /\ bcast[t].pc = "send"
    BY <1>1 DEF RangeFilter
  <2> HIDE DEF b
  <2>4. FanType'
    BY <2>2, <2>3 DEF RangeFilter, FanType
  <2>5. BcastInv'
    BY <1>1, <2>2, <2>3 DEF BcastInv
  <2>6. ClientType' /\ OutsideType' /\ ReaderInv'
    BY DEF RangeFilter, clientVars, dataVars, outsideVars, ClientType,
       OutsideType, ReaderInv
  <2> QED
    BY <2>4, <2>5, <2>6
<1>5. CASE SendToClient(t)
  <2> DEFINE b == [bcast[t] EXCEPT !.clients = Tail(@)]
             c == Head(bcast[t].clients)
  <2>1. /\ bcast[t].clients \in Seq(Client) /\ bcast[t].clients # <<>>
        /\ bcast[t].pc = "send"
    BY <1>1, <1>5 DEF Bcast, BcastInv, SendToClient, NextClient
  <2>2. c \in Client /\ Tail(bcast[t].clients) \in Seq(Client)
    BY <2>1
  <2>3. b \in Bcast /\ b.pc = "send" /\ b.payload = bcast[t].payload
    BY <1>1, <2>1, <2>2 DEF Bcast
  <2>4. /\ bcast' = [bcast EXCEPT ![t] = b]
        /\ UNCHANGED <<clientsChan, lock, incoming, conn, outgoing, asking,
                       pos, once, left, cancelled, budget>>
    BY <1>1, <1>5 DEF SendToClient, NextClient
  <2> HIDE DEF b, c
  <2>5. FanType'
    BY <2>3, <2>4 DEF FanType
  <2>6. BcastInv'
    BY <1>1, <2>1, <2>3, <2>4 DEF BcastInv
  <2>7. bcast[t].payload \in Payload
    BY <2>1 DEF BcastInv
  <2>8. /\ pc' \in [Client -> [Thread -> Label]]
        /\ outbox' \in [Client -> Message \cup {NoMessage}]
        /\ \A d \in Client : pc'[d]["reader"] = pc[d]["reader"]
    <3>1. CASE UNCHANGED <<pc, outbox>>
      BY <3>1 DEF ClientType
    <3>2. CASE Handed(t)
      <4>1. [topic |-> t, payload |-> bcast[t].payload] \in Message
        BY <2>7 DEF Message
      <4>2. /\ pc' = [pc EXCEPT ![c]["writer"] = "write"]
            /\ outbox' = [outbox EXCEPT ![c] =
                            [topic |-> t, payload |-> bcast[t].payload]]
        BY <3>2 DEF Handed, c
      <4> QED
        BY <2>2, <4>1, <4>2 DEF ClientType, Thread, Label
    <3> QED
      BY <1>5, <3>1, <3>2 DEF SendToClient, Dropped, SentOnClosed
  <2>9. ClientType' /\ ReaderInv'
    BY <2>4, <2>8 DEF ClientType, ReaderInv
  <2>10. down' \in BOOLEAN
    BY <1>5 DEF SendToClient, Handed, Dropped, SentOnClosed, OutsideType
  <2>11. OutsideType'
    BY <2>4, <2>10 DEF OutsideType
  <2> QED
    BY <2>5, <2>6, <2>9, <2>11
<1>6. CASE RUnlock(t)
  <2>1. Idle \in Bcast /\ Idle.pc = "select" /\ Idle.clients = <<>>
    BY DEF Idle, Bcast
  <2>2. bcast' = [bcast EXCEPT ![t] = Idle] /\ lock' = [lock EXCEPT ![t] = "free"]
    BY <1>6 DEF RUnlock
  <2>3. FanType'
    BY <1>6, <2>1, <2>2 DEF RUnlock, FanType
  <2>4. BcastInv'
    BY <1>1, <2>1, <2>2 DEF BcastInv, FanType
  <2>5. ClientType' /\ OutsideType' /\ ReaderInv'
    BY <1>6 DEF RUnlock, clientVars, dataVars, outsideVars, ClientType,
       OutsideType, ReaderInv
  <2> QED
    BY <2>3, <2>4, <2>5
<1>7. CASE BroadcastDone(t)
  <2> DEFINE b == [bcast[t] EXCEPT !.pc = "done"]
  <2>1. b \in Bcast /\ b.pc = "done" /\ b.clients = bcast[t].clients
    BY <1>1 DEF Bcast
  <2>2. bcast' = [bcast EXCEPT ![t] = b] /\ UNCHANGED lock
        /\ bcast[t].pc = "select"
    BY <1>1, <1>7 DEF BroadcastDone
  <2> HIDE DEF b
  <2>3. FanType'
    BY <1>7, <2>1, <2>2 DEF BroadcastDone, FanType
  <2>4. BcastInv'
    BY <1>1, <2>1, <2>2 DEF BcastInv
  <2>5. ClientType' /\ OutsideType' /\ ReaderInv'
    BY <1>7 DEF BroadcastDone, clientVars, dataVars, outsideVars, ClientType,
       OutsideType, ReaderInv
  <2> QED
    BY <2>3, <2>4, <2>5
<1> QED
  BY <1>2, <1>3, <1>4, <1>5, <1>6, <1>7 DEF Broadcast

LEMMA OutsideHInvStep ==
    ASSUME HInv, Outside
    PROVE  HInv'
<1> USE DEF HInv
<1>1. CASE \E t \in Topic, p \in Payload : Arrive(t, p)
  <2> PICK t \in Topic, p \in Payload : Arrive(t, p)
    BY <1>1
  <2>1. FanType'
    BY DEF Arrive, FanType
  <2>2. BcastInv' /\ ClientType' /\ ReaderInv'
    BY DEF Arrive, clientVars, dataVars, BcastInv, ClientType, ReaderInv
  <2>3. budget' \in [payloads : 0..MaxPayloads, invalid : 0..MaxInvalid]
    BY HubAssumption DEF Arrive, OutsideType
  <2>4. OutsideType'
    BY <2>3 DEF Arrive, OutsideType
  <2> QED
    BY <2>1, <2>2, <2>4
<1>2. CASE \E c \in Client : Connect(c)
  <2> PICK c \in Client : Connect(c)
    BY <1>2
  <2>1. FanType' /\ BcastInv' /\ OutsideType'
    BY FanHInv, OutsideHInv DEF Connect
  <2>2. /\ conn[c] = "new" /\ pc[c]["reader"] = "off"
        /\ conn' = [conn EXCEPT ![c] = "open"]
        /\ pc' = [pc EXCEPT ![c]["reader"] = "read", ![c]["writer"] = "select"]
        /\ UNCHANGED <<outgoing, asking, outbox, pos, once, left>>
    BY DEF Connect, ReaderInv
  <2>3. ClientType'
    BY <2>2 DEF ClientType, Conn, Thread, Label
  <2>4. /\ pc'[c]["reader"] = "read" /\ conn'[c] = "open"
        /\ \A d \in Client : d # c => pc'[d] = pc[d] /\ conn'[d] = conn[d]
    BY <2>2 DEF ClientType, Thread
  <2>5. asking[c] = NoPosition
    BY <2>2 DEF ReaderInv
  <2>6. ReaderInv'
    BY <2>2, <2>4, <2>5 DEF ReaderInv
  <2> QED
    BY <2>1, <2>3, <2>6
<1>3. CASE \E c \in Client : PeerLeaves(c)
  <2> PICK c \in Client : PeerLeaves(c)
    BY <1>3
  <2>1. FanType' /\ BcastInv' /\ OutsideType'
    BY FanHInv, OutsideHInv DEF PeerLeaves
  <2>2. ClientType' /\ ReaderInv'
    BY DEF PeerLeaves, ClientType, ReaderInv, Conn
  <2> QED
    BY <2>1, <2>2
<1>4. CASE Cancel
  <2>1. FanType' /\ BcastInv' /\ ClientType' /\ ReaderInv'
    BY <1>4, FanHInv DEF Cancel, clientVars, dataVars, ClientType, ReaderInv
  <2>2. cancelled' \in BOOLEAN
    BY <1>4 DEF Cancel
  <2>3. OutsideType'
    BY <1>4, <2>2 DEF Cancel, OutsideType
  <2> QED
    BY <2>1, <2>3
<1> QED
  BY <1>1, <1>2, <1>3, <1>4 DEF Outside

LEMMA NextHInv ==
    ASSUME HInv, [HubNext]_hubVars
    PROVE  HInv'
<1>1. CASE UNCHANGED hubVars
  BY <1>1, FanHInv, OutsideHInv
  DEF hubVars, clientVars, dataVars, HInv, ClientType, ReaderInv
<1>2. CASE \E c \in Client : \/ ReadMessage(c) \/ ClientStep(c)
                             \/ WriteMessage(c) \/ ConcurrentWrite(c)
                             \/ DeleteTorn(c)
  BY <1>2, ReaderHInv, WriterHInv, DeleteHInv DEF ClientStep
<1> QED
  BY <1>1, <1>2, OutsideHInvStep, BroadcastHInv DEF HubNext

LEMMA HInvHolds == HubSafety => []HInv
BY InitHInv, NextHInv, PTL DEF HubSafety

\* Every variable keeps its type.
THEOREM HubTypeCorrect == HubSafety => []HubTypeOK
BY HInvHolds, HInvTypes, PTL

-----------------------------------------------------------------------------
(* Lists stand still while they are walked.                                  *)

\* Who changes a list.
LEMMA ListsChange ==
    ASSUME [HubNext]_hubVars
    PROVE  \/ UNCHANGED clientsChan
           \/ \E c \in Client : Insert(c)
           \/ \E c \in Client, th \in Thread : DeletePosition(c, th)
<1>1. CASE Outside \/ UNCHANGED hubVars
  BY <1>1 DEF Outside, Arrive, Connect, PeerLeaves, Cancel, fanVars, hubVars
<1>2. CASE \E u \in Topic : Broadcast(u)
  BY <1>2 DEF Broadcast, TakePayload, RLock, RangeFilter, SendToClient,
     NextClient, RUnlock, BroadcastDone
<1>3. CASE \E c \in Client : \/ ReadMessage(c) \/ WriteMessage(c)
                             \/ ConcurrentWrite(c) \/ DeleteTorn(c)
  BY <1>3 DEF ReadMessage, ReadSubscription, ReadInvalid, WriteMessage,
     ConcurrentWrite, DeleteTorn, fanVars
<1>4. CASE \E c \in Client : ClientStep(c)
  <2>1. CASE \E c \in Client : \/ AppendPosition(c) \/ ReplyError(c)
                               \/ ReadFails(c) \/ WriterDone(c)
    BY <2>1 DEF AppendPosition, ReplyError, ReadFails, WriterDone, fanVars
  <2>2. CASE \E c \in Client, th \in Thread :
                 \/ DeleteBegins(c, th) \/ DeleteSkipped(c, th)
                 \/ DeletePanics(c, th) \/ DeleteEnds(c, th)
    BY <2>2 DEF DeleteBegins, WalkPositions, DeleteSkipped, DeletePanics,
       DeleteEnds, CloseConn, fanVars
  <2> QED
    BY <1>4, <2>1, <2>2 DEF ClientStep, Delete
<1> QED
  BY <1>1, <1>2, <1>3, <1>4 DEF HubNext

\* Lists change only under a lock that nobody reads under.
LEMMA StillStep ==
    ASSUME HInv, [HubNext]_hubVars, NEW t \in Topic, bcast[t].pc = "send"
    PROVE  clientsChan'[t] = clientsChan[t]
<1>1. lock[t] # "free"
  BY DEF HInv, BcastInv
<1>2. CASE \E c \in Client : Insert(c)
  <2> PICK c \in Client : Insert(c)
    BY <1>2
  <2>1. asking[c].topic # t
    BY <1>1 DEF Insert
  <2> QED
    BY <2>1 DEF Insert, AppendChannel, HInv, FanType
<1>3. CASE \E c \in Client, th \in Thread : DeletePosition(c, th)
  <2> PICK c \in Client, th \in Thread : DeletePosition(c, th)
    BY <1>3
  <2>1. Head(left[c]).topic # t
    BY <1>1 DEF DeletePosition
  <2> QED
    BY <2>1 DEF DeletePosition, HInv, FanType
<1>4. CASE UNCHANGED clientsChan
  BY <1>4
<1> QED
  BY <1>2, <1>3, <1>4, ListsChange

\* While broadcast walks the lists of a topic no client changes them.
THEOREM ListsKeptStill == HubSafety => ListsStill
<1>1. HInv /\ [HubNext]_hubVars
      => [\A t \in Topic : bcast[t].pc = "send"
                           => clientsChan'[t] = clientsChan[t]]_hubVars
  BY StillStep
<1> QED
  BY <1>1, HInvHolds, PTL DEF HubSafety, ListsStill

-----------------------------------------------------------------------------
(* A client gets what it asked for.                                          *)

\* What client c has ever asked for: the subscription its reader works on, and
\* those it noted, which outlive their removal from the lists.
Asked(c, t, f) ==
    \E p \in {asking[c]} \cup {pos[c][i] : i \in DOMAIN pos[c]} :
        p \in Position /\ p.topic = t /\ p.filter = f

AskedFor(c, t, payload) ==
    \E f \in Filter : Asked(c, t, f) /\ matchesFilter(f, payload)

\* From the lists to the walk over them, and from the walk to the writer.
ListedInv ==
    \A t \in Topic, f \in Filter, c \in Client :
        Subscribed(t, f, c) => Asked(c, t, f)

WalkInv ==
    \A t \in Topic :
        bcast[t].pc = "send" =>
            /\ \A f \in bcast[t].filters : matchesFilter(f, bcast[t].payload)
            /\ \A i \in DOMAIN bcast[t].clients :
                   AskedFor(bcast[t].clients[i], t, bcast[t].payload)

OutboxInv ==
    \A c \in Client :
        outbox[c] # NoMessage => AskedFor(c, outbox[c].topic, outbox[c].payload)

AskedInv == ListedInv /\ WalkInv /\ OutboxInv

LEMMA ShortRecord ==
    ASSUME NEW e
    PROVE  [topic |-> e] \notin Position
BY DEF Position

LEMMA NoPositionIsNone == NoPosition \notin Position
BY ShortRecord DEF NoPosition

LEMMA AskedImplies == HInv /\ AskedInv => OnlyAsked
<1> SUFFICES ASSUME HInv, AskedInv, NEW c \in Client, outbox[c] # NoMessage
             PROVE  \E p \in {asking[c]} \cup {pos[c][i] : i \in DOMAIN pos[c]} :
                        /\ p # NoPosition
                        /\ p.topic = outbox[c].topic
                        /\ \A a \in {p.filter.address} \ {""} :
                                a \in outbox[c].payload.addresses
                        /\ \A h \in {p.filter.topic0} \ {""} :
                                /\ outbox[c].payload.topics # <<>>
                                /\ h = Head(outbox[c].payload.topics)
  BY DEF OnlyAsked
<1> DEFINE m == outbox[c]
<1>1. PICK f \in Filter : Asked(c, m.topic, f) /\ matchesFilter(f, m.payload)
  BY DEF AskedInv, OutboxInv, AskedFor
<1>2. PICK p \in {asking[c]} \cup {pos[c][i] : i \in DOMAIN pos[c]} :
            p \in Position /\ p.topic = m.topic /\ p.filter = f
  BY <1>1 DEF Asked
<1>3. p # NoPosition
  BY <1>2, NoPositionIsNone
<1>4. m.payload.topics \in Seq(STRING)
  <2>1. m \in Message
    BY DEF HInv, ClientType
  <2>2. m.payload \in [addresses : SUBSET STRING, topics : Seq(STRING)]
    BY <2>1, HubAssumption DEF Message
  <2> QED
    BY <2>2
<1>5. m.payload.topics # <<>> => Head(m.payload.topics) = m.payload.topics[1]
  BY <1>4
<1>6. \A a \in {p.filter.address} \ {""} : a \in m.payload.addresses
  BY <1>1, <1>2, Zenon DEF matchesFilter, matchesAddress
<1>7. \A h \in {p.filter.topic0} \ {""} :
        m.payload.topics # <<>> /\ h = Head(m.payload.topics)
  BY <1>1, <1>2, <1>5 DEF matchesFilter
<1> QED
  BY <1>2, <1>3, <1>6, <1>7

\* What was asked for stays so.
LEMMA AskedStays ==
    ASSUME HInv, [HubNext]_hubVars, NEW c \in Client, NEW t, NEW f, Asked(c, t, f)
    PROVE  Asked(c, t, f)'
<1>1. PICK p \in {asking[c]} \cup {pos[c][i] : i \in DOMAIN pos[c]} :
            p \in Position /\ p.topic = t /\ p.filter = f
  BY DEF Asked
<1>2. CASE \E d \in Client, u \in Topic, g \in Filter : ReadSubscription(d, u, g)
  <2> PICK d \in Client, u \in Topic, g \in Filter : ReadSubscription(d, u, g)
    BY <1>2
  <2>1. asking[d] = NoPosition
    BY DEF ReadSubscription, Goto, HInv, ReaderInv
  <2>2. asking[d] \notin Position
    BY <2>1, NoPositionIsNone
  <2>3. /\ pos' = pos
        /\ \A e \in Client : e # d => asking'[e] = asking[e]
    BY DEF ReadSubscription, HInv, ClientType
  <2>4. p # asking[d]
    BY <1>1, <2>2
  <2>5. CASE p = asking[c]
    <3>1. asking'[c] = p
      BY <2>3, <2>4, <2>5
    <3> QED
      BY <1>1, <3>1 DEF Asked
  <2>6. CASE p \in {pos[c][i] : i \in DOMAIN pos[c]}
    <3>1. p \in {pos'[c][i] : i \in DOMAIN pos'[c]}
      BY <2>3, <2>6
    <3> QED
      BY <1>1, <3>1 DEF Asked
  <2> QED
    BY <1>1, <2>5, <2>6
<1>3. CASE \E d \in Client : Insert(d)
  <2> PICK d \in Client : Insert(d)
    BY <1>3
  <2>1. /\ asking' = [asking EXCEPT ![d].index = ListLen(d)] /\ pos' = pos
        /\ pc[d]["reader"] = "insert"
    BY DEF Insert, AppendChannel, Goto
  <2>2. asking[d] \in Position
    BY <2>1 DEF HInv, ReaderInv, ClientType
  <2>3. ListLen(d) \in Nat
    BY <2>2 DEF ListLen, Position, HInv, FanType
  <2>4. asking'[d] = [asking[d] EXCEPT !.index = ListLen(d)]
    BY <2>1 DEF HInv, ClientType
  <2>5. /\ asking'[d] \in Position /\ asking'[d].topic = asking[d].topic
        /\ asking'[d].filter = asking[d].filter
    BY <2>2, <2>3, <2>4 DEF Position
  <2>6. \A e \in Client : e # d => asking'[e] = asking[e]
    BY <2>1 DEF HInv, ClientType
  <2> QED
    BY <1>1, <2>1, <2>5, <2>6 DEF Asked
<1>4. CASE \E d \in Client : AppendPosition(d)
  <2> PICK d \in Client : AppendPosition(d)
    BY <1>4
  <2>1. /\ pos' = [pos EXCEPT ![d] = Append(@, asking[d])]
        /\ asking' = [asking EXCEPT ![d] = NoPosition]
        /\ pc[d]["reader"] = "append"
    BY DEF AppendPosition, Goto
  <2>2. asking[d] \in Position /\ pos[d] \in Seq(Position)
    BY <2>1 DEF HInv, ReaderInv, ClientType
  <2>3. CASE c = d
    <3>1. pos'[c] = Append(pos[c], asking[c])
      BY <2>1, <2>3 DEF HInv, ClientType
    <3>2. /\ Len(pos'[c]) = Len(pos[c]) + 1 /\ Len(pos[c]) \in Nat
          /\ DOMAIN pos'[c] = 1..(Len(pos[c]) + 1)
          /\ DOMAIN pos[c] = 1..Len(pos[c])
      BY <2>2, <2>3, <3>1, AppendProperties, LenProperties
    <3>3. /\ \A i \in 1..Len(pos[c]) : pos'[c][i] = pos[c][i]
          /\ pos'[c][Len(pos[c]) + 1] = asking[c]
      BY <2>2, <2>3, <3>1, AppendProperties
    <3>4. \E i \in DOMAIN pos'[c] : pos'[c][i] = p
      BY <1>1, <3>2, <3>3
    <3> QED
      BY <1>1, <3>4 DEF Asked
  <2>4. CASE c # d
    <3>1. pos'[c] = pos[c] /\ asking'[c] = asking[c]
      BY <2>1, <2>4 DEF HInv, ClientType
    <3> QED
      BY <1>1, <3>1 DEF Asked
  <2> QED
    BY <2>3, <2>4
<1>5. CASE UNCHANGED <<asking, pos>>
  BY <1>1, <1>5 DEF Asked
<1>6. CASE Outside \/ UNCHANGED hubVars
  BY <1>5, <1>6 DEF Outside, Arrive, Connect, PeerLeaves, Cancel, clientVars,
     dataVars, hubVars
<1>7. CASE \E u \in Topic : Broadcast(u)
  BY <1>5, <1>7 DEF Broadcast, TakePayload, RLock, RangeFilter, SendToClient,
     NextClient, RUnlock, BroadcastDone, clientVars, dataVars
<1>8. CASE \E d \in Client : \/ ReadInvalid(d) \/ WriteMessage(d)
                             \/ ConcurrentWrite(d) \/ DeleteTorn(d)
  BY <1>5, <1>8 DEF ReadInvalid, WriteMessage, ConcurrentWrite, DeleteTorn,
     clientVars, dataVars
<1>9. CASE \E d \in Client : ReplyError(d) \/ ReadFails(d) \/ WriterDone(d)
  BY <1>5, <1>9 DEF ReplyError, ReadFails, WriterDone, dataVars
<1>10. CASE \E d \in Client : Delete(d)
  BY <1>5, <1>10 DEF Delete, DeleteBegins, WalkPositions, DeleteSkipped,
     DeletePosition, DeletePanics, DeleteEnds, CloseConn, dataVars
<1> QED
  BY <1>2, <1>3, <1>4, <1>6, <1>7, <1>8, <1>9, <1>10 DEF HubNext, ClientStep,
     ReadMessage

LEMMA AskedForStays ==
    ASSUME HInv, [HubNext]_hubVars, NEW c \in Client, NEW t, NEW payload,
           AskedFor(c, t, payload)
    PROVE  AskedFor(c, t, payload)'
<1>1. PICK f \in Filter : Asked(c, t, f) /\ matchesFilter(f, payload)
  BY DEF AskedFor
<1>2. Asked(c, t, f)'
  BY <1>1, AskedStays
<1> QED
  BY <1>1, <1>2 DEF AskedFor

\* A list gains the client whose reader inserts, and nobody else.
LEMMA ListedStep ==
    ASSUME HInv, ListedInv, [HubNext]_hubVars
    PROVE  ListedInv'
<1> SUFFICES ASSUME NEW t \in Topic, NEW f \in Filter, NEW c \in Client,
                    Subscribed(t, f, c)'
             PROVE  Asked(c, t, f)'
  BY DEF ListedInv
<1>1. CASE Subscribed(t, f, c)
  BY <1>1, AskedStays DEF ListedInv
<1>2. CASE \E d \in Client : Insert(d)
  <2> PICK d \in Client : Insert(d)
    BY <1>2
  <2> DEFINE a == asking[d]
  <2>1. /\ pc[d]["reader"] = "insert"
        /\ clientsChan' = [clientsChan EXCEPT ![a.topic][a.filter] = Append(@, d)]
    BY DEF Insert, AppendChannel, Goto
  <2>2. a \in Position
    BY <2>1 DEF HInv, ReaderInv, ClientType
  <2>3. a.topic \in Topic /\ a.filter \in Filter
    BY <2>2 DEF Position
  <2>4. CASE a.topic = t /\ a.filter = f
    <3> DEFINE list == clientsChan[t][f]
    <3>1. clientsChan'[t][f] = Append(list, d)
      BY <2>1, <2>4 DEF HInv, FanType
    <3>2. list \in Seq(Client)
      BY DEF HInv, FanType
    <3> HIDE DEF list
    <3>3. PICK i \in DOMAIN Append(list, d) : Append(list, d)[i] = c
      BY <3>1 DEF Subscribed
    <3>4. /\ i \in 1..(Len(list) + 1) /\ Len(list) \in Nat
          /\ DOMAIN list = 1..Len(list)
      BY <3>2, <3>3, AppendProperties, LenProperties
    <3>5. CASE i = Len(list) + 1
      <4>1. c = d
        BY <3>2, <3>3, <3>5, AppendProperties
      <4>2. Asked(c, t, f)
        BY <2>2, <2>4, <4>1 DEF Asked
      <4> QED
        BY <4>2, AskedStays
    <3>6. CASE i # Len(list) + 1
      <4>1. i \in DOMAIN list /\ list[i] = c
        BY <3>2, <3>3, <3>4, <3>6, AppendProperties
      <4> QED
        BY <1>1, <4>1 DEF Subscribed, list
    <3> QED
      BY <3>5, <3>6
  <2>5. CASE ~(a.topic = t /\ a.filter = f)
    <3>1. clientsChan'[t][f] = clientsChan[t][f]
      BY <2>1, <2>3, <2>5 DEF HInv, FanType
    <3> QED
      BY <1>1, <3>1 DEF Subscribed
  <2> QED
    BY <2>4, <2>5
<1>3. CASE \E d \in Client, th \in Thread : DeletePosition(d, th)
  <2> PICK d \in Client, th \in Thread : DeletePosition(d, th)
    BY <1>3
  <2> DEFINE p == Head(left[d])
             list == clientsChan[p.topic][p.filter]
  <2>1. /\ left[d] # <<>> /\ p.index < Len(list)
        /\ clientsChan' = [clientsChan EXCEPT ![p.topic][p.filter] =
                                                  Without(@, p.index)]
    BY DEF DeletePosition
  <2>2. p \in Position
    BY <2>1 DEF HInv, ClientType
  <2>3. p.topic \in Topic /\ p.filter \in Filter /\ p.index \in Nat
    BY <2>2 DEF Position
  <2>4. list \in Seq(Client)
    BY <2>3 DEF HInv, FanType
  <2>5. CASE p.topic = t /\ p.filter = f
    <3>1. clientsChan'[t][f] = Without(list, p.index)
      BY <2>1, <2>5 DEF HInv, FanType
    <3>2. PICK i \in DOMAIN Without(list, p.index) : Without(list, p.index)[i] = c
      BY <3>1 DEF Subscribed
    <3>3. \E j \in DOMAIN list : Without(list, p.index)[i] = list[j]
      BY <2>1, <2>3, <2>4, <3>2, WithoutType
    <3> QED
      BY <1>1, <2>5, <3>2, <3>3 DEF Subscribed
  <2>6. CASE ~(p.topic = t /\ p.filter = f)
    <3>1. clientsChan'[t][f] = clientsChan[t][f]
      BY <2>1, <2>3, <2>6 DEF HInv, FanType
    <3> QED
      BY <1>1, <3>1 DEF Subscribed
  <2> QED
    BY <2>5, <2>6
<1>4. CASE UNCHANGED clientsChan
  BY <1>1, <1>4 DEF Subscribed
<1> QED
  BY <1>2, <1>3, <1>4, ListsChange

\* How broadcast comes to send.
LEMMA WalkChanges ==
    ASSUME HInv, [HubNext]_hubVars, NEW t \in Topic, (bcast[t].pc = "send")'
    PROVE  \/ bcast'[t] = bcast[t]
           \/ RLock(t) \/ SendToClient(t)
           \/ \E f \in Filter : RangeFilter(t, f)
<1>0. bcast \in [Topic -> Bcast]
  BY DEF HInv, FanType
<1>1. CASE UNCHANGED bcast
  BY <1>1
<1>2. CASE Outside \/ UNCHANGED hubVars
  BY <1>1, <1>2 DEF Outside, Arrive, Connect, PeerLeaves, Cancel, fanVars,
     hubVars
<1>3. CASE \E u \in Topic : u # t /\ Broadcast(u)
  BY <1>0, <1>3 DEF Broadcast, TakePayload, RLock, RangeFilter, SendToClient,
     NextClient, RUnlock, BroadcastDone
<1>4. CASE Broadcast(t)
  <2>1. ~TakePayload(t) /\ ~BroadcastDone(t)
    BY <1>0 DEF TakePayload, BroadcastDone, Bcast
  <2>2. ~RUnlock(t)
    BY <1>0 DEF RUnlock, Idle
  <2> QED
    BY <1>4, <2>1, <2>2 DEF Broadcast
<1>5. CASE \E c \in Client : \/ ReadMessage(c) \/ WriteMessage(c)
                             \/ ConcurrentWrite(c) \/ DeleteTorn(c)
  BY <1>1, <1>5 DEF ReadMessage, ReadSubscription, ReadInvalid, WriteMessage,
     ConcurrentWrite, DeleteTorn, fanVars
<1>6. CASE \E c \in Client : ClientStep(c)
  <2>1. CASE \E c \in Client :
               \/ Insert(c) \/ AppendPosition(c) \/ ReplyError(c)
               \/ ReadFails(c) \/ WriterDone(c)
    BY <1>1, <2>1 DEF Insert, AppendChannel, AppendPosition, ReplyError,
       ReadFails, WriterDone, fanVars
  <2>2. CASE \E c \in Client : Delete(c)
    BY <1>1, <2>2 DEF Delete, DeleteBegins, WalkPositions, DeleteSkipped,
       DeletePosition, DeletePanics, DeleteEnds, CloseConn, fanVars
  <2> QED
    BY <1>6, <2>1, <2>2 DEF ClientStep
<1> QED
  BY <1>2, <1>3, <1>4, <1>5, <1>6 DEF HubNext

\* broadcast takes the matching filters' lists, and loses clients only.
LEMMA WalkStep ==
    ASSUME HInv, ListedInv, WalkInv, [HubNext]_hubVars
    PROVE  WalkInv'
<1> SUFFICES ASSUME NEW t \in Topic, NEW next, next = bcast'[t],
                    next.pc = "send"
             PROVE  /\ \A f \in next.filters : matchesFilter(f, next.payload)
                    /\ \A i \in DOMAIN next.clients :
                           AskedFor(next.clients[i], t, next.payload)'
  BY DEF WalkInv, AskedFor, Asked
<1> USE DEF HInv
<1> PICK now : now = bcast[t]
  OBVIOUS
<1>0. now \in Bcast /\ bcast \in [Topic -> Bcast]
  BY DEF FanType
<1>1. now.clients \in Seq(Client)
  BY <1>0 DEF Bcast
<1>2. now.pc = "send" =>
        /\ \A f \in now.filters : matchesFilter(f, now.payload)
        /\ \A i \in DOMAIN now.clients :
               AskedFor(now.clients[i], t, now.payload)
  BY DEF WalkInv
<1>3. CASE next = now
  <2>1. \A i \in DOMAIN now.clients : now.clients[i] \in Client
    BY <1>1
  <2> QED
    BY <1>2, <1>3, <2>1, AskedForStays
<1>4. CASE RLock(t)
  <2>1. now.clients = <<>>
    BY <1>4 DEF RLock, BcastInv
  <2>2. /\ next.payload = now.payload
        /\ next.filters = {f \in Filter : matchesFilter(f, now.payload)}
        /\ next.clients = now.clients
    BY <1>0, <1>4 DEF RLock, Bcast
  <2>3. DOMAIN next.clients = {}
    BY <2>1, <2>2
  <2> QED
    BY <2>2, <2>3
<1>5. CASE \E f \in Filter : RangeFilter(t, f)
  <2> PICK f \in Filter : RangeFilter(t, f)
    BY <1>5
  <2> PICK list : list = clientsChan[t][f]
    OBVIOUS
  <2>1. /\ now.pc = "send" /\ f \in now.filters
        /\ next.payload = now.payload
        /\ next.filters = now.filters \ {f}
        /\ next.clients = list
    BY <1>0 DEF RangeFilter, Bcast
  <2>2. matchesFilter(f, now.payload)
    BY <1>2, <2>1
  <2>3. ASSUME NEW i \in DOMAIN list
        PROVE  AskedFor(list[i], t, now.payload)'
    <3>1. list[i] \in Client
      BY DEF FanType
    <3>2. Asked(list[i], t, f)
      BY <3>1 DEF ListedInv, Subscribed
    <3>3. AskedFor(list[i], t, now.payload)
      BY <2>2, <3>2 DEF AskedFor
    <3> QED
      BY <3>1, <3>3, AskedForStays
  <2> QED
    BY <1>2, <2>1, <2>3
<1>6. CASE SendToClient(t)
  <2> PICK list : list = now.clients
    OBVIOUS
  <2>1. /\ list # <<>> /\ next.pc = now.pc
        /\ next.payload = now.payload
        /\ next.filters = now.filters
        /\ next.clients = Tail(list)
    BY <1>0, <1>6 DEF SendToClient, NextClient, Bcast
  <2>2. ASSUME NEW i \in DOMAIN Tail(list)
        PROVE  AskedFor(Tail(list)[i], t, now.payload)'
    <3>1. i + 1 \in DOMAIN list /\ Tail(list)[i] = list[i + 1]
      BY <1>1, <2>1, HeadTailProperties
    <3>2. list[i + 1] \in Client
      BY <1>1, <3>1
    <3>3. AskedFor(list[i + 1], t, now.payload)
      BY <1>2, <2>1, <3>1
    <3> QED
      BY <3>1, <3>2, <3>3, AskedForStays
  <2> QED
    BY <1>2, <2>1, <2>2
<1> QED
  BY <1>3, <1>4, <1>5, <1>6, WalkChanges

\* How a writer comes to its message.
LEMMA OutboxChanges ==
    ASSUME [HubNext]_hubVars
    PROVE  \/ UNCHANGED outbox
           \/ \E t \in Topic : SendToClient(t) /\ Handed(t)
           \/ \E c \in Client : WriteMessage(c)
<1>1. CASE Outside \/ UNCHANGED hubVars
  BY <1>1 DEF Outside, Arrive, Connect, PeerLeaves, Cancel, clientVars,
     dataVars, hubVars
<1>2. CASE \E t \in Topic : Broadcast(t)
  <2>1. CASE \E t \in Topic : SendToClient(t)
    BY <2>1 DEF SendToClient, Dropped, SentOnClosed
  <2>2. CASE ~\E t \in Topic : SendToClient(t)
    BY <1>2, <2>2 DEF Broadcast, TakePayload, RLock, RangeFilter, RUnlock,
       BroadcastDone, clientVars, dataVars
  <2> QED
    BY <2>1, <2>2
<1>3. CASE \E c \in Client : \/ ReadMessage(c) \/ ConcurrentWrite(c)
                             \/ DeleteTorn(c)
  BY <1>3 DEF ReadMessage, ReadSubscription, ReadInvalid, ConcurrentWrite,
     DeleteTorn, clientVars, dataVars
<1>4. CASE \E c \in Client : ClientStep(c)
  <2>1. CASE \E c \in Client :
               \/ Insert(c) \/ AppendPosition(c) \/ ReplyError(c)
               \/ ReadFails(c) \/ WriterDone(c)
    BY <2>1 DEF Insert, AppendChannel, AppendPosition, ReplyError, ReadFails,
       WriterDone, dataVars
  <2>2. CASE \E c \in Client : Delete(c)
    BY <2>2 DEF Delete, DeleteBegins, WalkPositions, DeleteSkipped,
       DeletePosition, DeletePanics, DeleteEnds, CloseConn, dataVars
  <2> QED
    BY <1>4, <2>1, <2>2 DEF ClientStep
<1> QED
  BY <1>1, <1>2, <1>3, <1>4 DEF HubNext

\* A writer is handed what the walk has for its client.
LEMMA OutboxStep ==
    ASSUME HInv, WalkInv, OutboxInv, [HubNext]_hubVars
    PROVE  OutboxInv'
<1> SUFFICES ASSUME NEW c \in Client, NEW next, next = outbox'[c],
                    next # NoMessage
             PROVE  AskedFor(c, next.topic, next.payload)'
  BY DEF OutboxInv, AskedFor, Asked
<1>1. CASE outbox[c] = next
  <2>1. AskedFor(c, next.topic, next.payload)
    BY <1>1 DEF OutboxInv
  <2> QED
    BY <2>1, AskedForStays
<1>2. CASE \E t \in Topic : SendToClient(t) /\ Handed(t)
  <2> PICK t \in Topic : SendToClient(t) /\ Handed(t)
    BY <1>2
  <2> DEFINE list == bcast[t].clients
  <2>1. /\ list # <<>>
        /\ outbox' = [outbox EXCEPT ![Head(list)] =
                        [topic |-> t, payload |-> bcast[t].payload]]
    BY DEF SendToClient, NextClient, Handed
  <2>2. list \in Seq(Client) /\ bcast[t].pc = "send"
    BY <2>1 DEF HInv, BcastInv, FanType, Bcast
  <2>3. CASE c = Head(list)
    <3>1. 1 \in DOMAIN list /\ list[1] = c
      BY <2>1, <2>2, <2>3
    <3>2. AskedFor(c, t, bcast[t].payload)
      BY <2>2, <3>1 DEF WalkInv
    <3>3. next = [topic |-> t, payload |-> bcast[t].payload]
      BY <2>1, <2>3 DEF HInv, ClientType
    <3>4. AskedFor(c, next.topic, next.payload)
      BY <3>2, <3>3
    <3> QED
      BY <3>4, AskedForStays
  <2>4. CASE c # Head(list)
    BY <1>1, <2>1, <2>4 DEF HInv, ClientType
  <2> QED
    BY <2>3, <2>4
<1>3. CASE \E d \in Client : WriteMessage(d)
  <2>1. outbox'[c] \in {outbox[c], NoMessage}
    BY <1>3 DEF WriteMessage, HInv, ClientType
  <2> QED
    BY <1>1, <2>1
<1> QED
  BY <1>1, <1>2, <1>3, OutboxChanges

LEMMA AskedHolds == HubSafety => []AskedInv
<1>1. HubInit => AskedInv
  <2> SUFFICES ASSUME HubInit PROVE AskedInv
    OBVIOUS
  <2>1. ListedInv
    BY DEF HubInit, ListedInv, Subscribed
  <2>2. WalkInv /\ OutboxInv
    BY DEF HubInit, WalkInv, OutboxInv, Idle
  <2> QED
    BY <2>1, <2>2 DEF AskedInv
<1>2. HInv /\ AskedInv /\ [HubNext]_hubVars => AskedInv'
  BY ListedStep, WalkStep, OutboxStep DEF AskedInv
<1> QED
  BY <1>1, <1>2, HInvHolds, PTL DEF HubSafety

\* A message that a writer works on matches what its client asked for, whatever
\* the other goroutines do to the lists.
THEOREM OnlyWhatWasAsked == HubSafety => []OnlyAsked
BY HInvHolds, AskedHolds, AskedImplies, PTL

=============================================================================
