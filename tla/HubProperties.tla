--------------------------- MODULE HubProperties ----------------------------
(* What the WebSocket hub should do, as properties of Hub.                   *)
EXTENDS Hub

Subscribed(t, f, c) == \E i \in DOMAIN clientsChan[t][f] : clientsChan[t][f][i] = c

\* The reader and the writer of a client may both call delete, each for a
\* failure of its own, at any time.  It runs once: no channel is closed twice,
\* no list is walked with positions that are already gone.
OneDelete ==
    \A c \in Client, th \in Thread :
        pc[c][th] = "remove" =>
            /\ outgoing[c] = "open"
            /\ \A other \in Thread : pc[c][other] = "remove" => other = th

\* broadcast walks the lists of a topic without any of them being changed under
\* its feet by a client that subscribes or leaves.
ListsStill ==
    [][\A t \in Topic :
            bcast[t].pc = "send" => clientsChan'[t] = clientsChan[t]]_hubVars

\* The message a writer works on matches a filter its client asked for, although
\* lists are changed and walked by other goroutines.
OnlyAsked ==
    \A c \in Client :
        outbox[c] # NoMessage =>
            \E p \in {asking[c]} \cup {pos[c][i] : i \in DOMAIN pos[c]} :
                /\ p # NoPosition
                /\ p.topic = outbox[c].topic
                /\ \A a \in {p.filter.address} \ {""} :
                        a \in outbox[c].payload.addresses
                /\ \A h \in {p.filter.topic0} \ {""} :
                        /\ outbox[c].payload.topics # <<>>
                        /\ h = Head(outbox[c].payload.topics)

\* A client that is slow, or stuck in a write, does not block broadcast: once
\* it holds the lock it lets go of it, whatever the clients do.
FanOutEnds ==
    \A t \in Topic : bcast[t].pc = "send" ~> (bcast[t].pc # "send" \/ down)

\* When a connection is gone both goroutines of the client end, whichever
\* notices first and whatever it was doing; unless a delete that did not find
\* its place (PlacesHold) has left a lock behind.
ClientsEnd ==
    \A c \in Client :
        conn[c] \in {"broken", "closed"} ~>
            \/ pc[c]["reader"] = "done" /\ pc[c]["writer"] = "done"
            \/ down
            \/ \E t \in Topic : lock[t] = "leaked"

\* A client whose delete has returned is in no list.
RemovedFromAll ==
    \A c \in Client :
        once[c] = "done" =>
            \A t \in Topic, f \in Filter : ~Subscribed(t, f, c)

\* delete finds the client's channel at every place that the client noted.
PlacesHold ==
    \A c \in Client :
        \A i \in DOMAIN left[c] :
            LET list  == clientsChan[left[c][i].topic][left[c][i].filter]
                place == left[c][i].index + 1
            IN place \in DOMAIN list /\ list[place] = c
=============================================================================
