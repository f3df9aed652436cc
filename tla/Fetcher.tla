------------------------------ MODULE Fetcher -------------------------------
(* The chain as its RPC node presents it, and fetcher.go, which reads it.    *)
(*                                                                           *)
(* The node is outside the repository.  It has a canonical chain 0..head;    *)
(* canon[n] is the fork of its block of height n.  A reorganisation replaces *)
(* the blocks from some height on by those of a fork never seen before, of   *)
(* at least the same length, and the subscription then announces the header  *)
(* of every block that became canonical.                                     *)
(*                                                                           *)
(* fetcher.go retries the calls it makes; what its callers see is a call     *)
(* that returns or fails.  Subscribe is a goroutine of its own.              *)
EXTENDS Repository, Group, Sequences

CONSTANTS
    InitHead,   \* height of the chain when the indexer is first deployed
    Depth,      \* the deepest reorganisation replaces Depth blocks
    Lagging     \* may the node that answers not know a block yet?

ASSUME FetcherAssumption ==
    /\ InitHead \in Height
    /\ Depth \in Nat
    /\ Lagging \in BOOLEAN

VARIABLES
    canon,      \* fork of the canonical block of each height
    head,       \* height of the canonical chain
    sub,        \* where Subscribe is, see SubState
    headers,    \* announced heights forwardfill has not received yet
    missed      \* has the connection been lost since the process was started?
                \* For properties: the code does not remember

chainVars   == <<canon, head>>
fetcherVars == <<canon, head, sub, headers, missed>>

\* off     the goroutine does not run
\* dial    calling SubscribeNewHead
\* on      subscribed, forwarding headers
\* lost    the connection broke; a header already taken is still handed over
\* closed  returned, channel c closed, the error not yet on errChan
\* err     the error is on errChan
SubState == {"off", "dial", "on", "lost", "closed", "err"}

FetcherTypeOK ==
    /\ canon \in [Height -> Fork]
    /\ head \in Height
    /\ sub \in SubState
    /\ headers \in Seq(Height)
    /\ missed \in BOOLEAN

FetcherInit ==
    /\ canon = [n \in Height |-> 0]
    /\ head = InitHead
    /\ sub = "off"
    /\ headers = <<>> /\ missed = FALSE

-----------------------------------------------------------------------------
(* The node.                                                                 *)

\* The canonical block of height n.
NodeBlock(n) == [id |-> n, fork |-> canon[n]]

\* The fork of the newest block; forks are numbered as they appear.
Tip == canon[head]

\* The subscription's channel gets one header per block that became canonical.
Announce(first, last) ==
    headers' = IF sub = "on"
               THEN headers \o [i \in 1..(last - first + 1) |-> first + i - 1]
               ELSE headers

Mine ==
    /\ head < MaxId
    /\ head' = head + 1
    /\ canon' = [canon EXCEPT ![head + 1] = Tip]
    /\ Announce(head + 1, head + 1)
    /\ UNCHANGED <<sub, missed>>

\* The blocks n..head are replaced by blocks n..m of a new fork.
Reorg(n, m) ==
    /\ Tip < MaxReorgs
    /\ n > 0 /\ n <= head /\ head - n < Depth
    /\ m >= head
    /\ head' = m
    /\ canon' = [i \in Height |-> IF i \in n..m THEN Tip + 1 ELSE canon[i]]
    /\ Announce(n, m)
    /\ UNCHANGED <<sub, missed>>

-----------------------------------------------------------------------------
(* FetchBlock: the block of height n, with its transactions and logs.  A     *)
(* node that lags behind answers null, which is not an error to the code.    *)

FetchBlock(n) == {NodeBlock(n)} \cup (IF Lagging THEN {ZeroBlock} ELSE {})

-----------------------------------------------------------------------------
(* Subscribe.                                                                *)

SubscribeNewHead ==
    /\ up /\ sub = "dial" /\ ~cancelled
    /\ sub' = "on"
    /\ UNCHANGED <<up, cancelled, faults, canon, head, headers, missed>>

\* An error of SubscribeNewHead is permanent: Subscribe returns it.  The
\* deferred close(c) runs first.  It does not cancel the group by itself.
SubscribeNewHeadFails ==
    /\ up /\ sub = "dial"
    /\ \/ cancelled /\ UNCHANGED faults
       \/ ~cancelled /\ Fault
    /\ sub' = "closed"
    /\ UNCHANGED <<up, cancelled, canon, head, headers, missed>>

\* The connection breaks: the headers queued in the client are gone, except
\* the one that Subscribe may already hold.
ConnectionLost ==
    /\ up /\ sub = "on" /\ Fault
    /\ sub' = "lost"
    /\ missed' = TRUE
    /\ \/ headers' = <<>>
       \/ headers # <<>> /\ headers' = <<Head(headers)>>
    /\ UNCHANGED <<up, cancelled, canon, head>>

\* sub.Err() is received: Retry calls the operation again while less than 15
\* seconds have passed since Subscribe was called, and gives up otherwise.
\* Headers announced in between are not asked for again.
Resubscribe ==
    /\ up /\ sub = "lost" /\ headers = <<>>
    /\ sub' \in {"dial", "closed"}
    /\ UNCHANGED <<up, cancelled, faults, canon, head, headers, missed>>

\* ctx.Done() is received, unless Subscribe is blocked sending a header.
SubscribeCancelled ==
    /\ up /\ cancelled /\ sub = "on"
    /\ sub' = "closed"
    /\ headers' = <<>>
    /\ UNCHANGED <<up, cancelled, faults, canon, head, missed>>

SubscribeReturns ==
    /\ up /\ sub = "closed"
    /\ sub' = "err"
    /\ UNCHANGED <<up, cancelled, faults, canon, head, headers, missed>>

Subscribe ==
    \/ SubscribeNewHead \/ SubscribeNewHeadFails \/ ConnectionLost
    \/ Resubscribe \/ SubscribeCancelled \/ SubscribeReturns
=============================================================================
