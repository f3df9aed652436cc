---------------------------- MODULE Forwardfill -----------------------------
(* The goroutine forwardfill (core/services/forwardfill.go): for every       *)
(* header it receives from Subscribe it fetches the block, replaces a stored *)
(* block of the same height and another hash, stores the block and publishes *)
(* it.  Every arrow below is a call that may fail.                           *)
(*                                                                           *)
(*   select -> fetch -> check -> create -> publish -> pubrows -> select      *)
(*   check -> delete -> deletetxs -> deleteblock -> pubreorg -> create       *)
EXTENDS Fetcher, Transactions

CONSTANT CommitMayFail  \* may the COMMIT of Create fail on a live context?

ASSUME ForwardfillAssumption == CommitMayFail \in BOOLEAN

VARIABLES
    ffpc,       \* what forwardfill does next
    ffId,       \* the height it received
    ffBlock,    \* the block it fetched
    committed,  \* did Create's COMMIT succeed?  For properties: the code
                \* does not look
    stream      \* the blocks announced on Redis and not retracted since

forwardfillLocals == <<ffId, ffBlock, committed>>
forwardfillVars   == <<ffpc, forwardfillLocals, stream>>

ForwardfillPc == {"off", "select", "fetch", "check", "delete", "deletetxs",
                  "deleteblock", "pubreorg", "create", "publish", "pubrows", "done"}

ForwardfillTypeOK ==
    /\ ffpc \in ForwardfillPc
    /\ ffId \in Height
    /\ ffBlock \in Block
    /\ committed \in BOOLEAN
    /\ stream \subseteq Block

ForwardfillInit ==
    /\ ffpc = "off"
    /\ ffId = 0 /\ ffBlock = ZeroBlock /\ committed = FALSE
    /\ stream = {}

\* The process is gone; what the listeners of the stream know is not.
ForwardfillStops ==
    /\ ffpc' = "off"
    /\ ffId' = 0 /\ ffBlock' = ZeroBlock /\ committed' = FALSE
    /\ UNCHANGED stream

-----------------------------------------------------------------------------
(* select                                                                    *)

ReceiveHeader ==
    /\ up /\ ffpc = "select" /\ sub \in {"on", "lost"} /\ headers # <<>>
    /\ ffId' = Head(headers)
    /\ headers' = Tail(headers)
    /\ ffpc' = "fetch"
    /\ UNCHANGED <<groupVars, sub, db, deleted, ffBlock, committed, stream>>

\* Subscribe has closed the channel: a receive yields the zero value at once,
\* and select may pick it as long as it is there.
ReceiveFromClosed ==
    /\ up /\ ffpc = "select" /\ sub \in {"closed", "err"}
    /\ ffId' = 0
    /\ ffpc' = "fetch"
    /\ UNCHANGED <<groupVars, sub, headers, db, deleted, ffBlock, committed,
                   stream>>

ForwardfillReturns ==
    /\ ReturnError
    /\ ffpc' = "done"
    /\ UNCHANGED <<sub, headers, db, deleted, forwardfillLocals, stream>>

ReceiveError == ffpc = "select" /\ sub = "err" /\ ForwardfillReturns

ReceiveDone == ffpc = "select" /\ cancelled /\ ForwardfillReturns

-----------------------------------------------------------------------------
(* the body                                                                  *)

FetchBlockPriority ==
    /\ ffpc = "fetch" /\ CallReturns
    /\ ffBlock' \in FetchBlock(ffId)
    /\ ffpc' = "check"
    /\ UNCHANGED <<sub, headers, db, deleted, ffId, committed, stream>>

\* Mutant of ReorgDetected: the hashes are not compared.
AnyStored(stored) == stored # {}

\* Mutant of ReorgDetected: no reorganisation is ever seen.
NeverDetected(stored) == FALSE

\* Is a block of this height stored that is not the one fetched?
ReorgDetected(stored) == \E c \in stored : c # ffBlock

CheckReorg ==
    /\ ffpc = "check" /\ CallReturns
    /\ ffpc' = IF ReorgDetected(GetBlockById(db, ffBlock.id))
               THEN "delete" ELSE "create"
    /\ UNCHANGED <<sub, headers, db, deleted, forwardfillLocals, stream>>

\* Mutant of DeleteEvents: they are left to a cascade that no longer exists.
DeleteNoEvents ==
    /\ ffpc = "delete" /\ CallReturns
    /\ ffpc' = "deletetxs"
    /\ UNCHANGED <<sub, headers, db, deleted, forwardfillLocals, stream>>

\* Mutant of DeleteEvents: the events of the heights above go as well.
DeleteEventsFrom ==
    /\ ffpc = "delete" /\ CallReturns
    /\ deleted' = [deleted EXCEPT
                     !.events = {r \in db.events : r.block_id >= ffBlock.id}]
    /\ ffpc' = "deletetxs"
    /\ UNCHANGED <<sub, headers, db, forwardfillLocals, stream>>

\* Delete, statement by statement.
DeleteEvents ==
    /\ ffpc = "delete" /\ CallReturns
    /\ deleted' = [deleted EXCEPT !.events = EventsAt(db, ffBlock.id)]
    /\ ffpc' = "deletetxs"
    /\ UNCHANGED <<sub, headers, db, forwardfillLocals, stream>>

DeleteTransactions ==
    /\ ffpc = "deletetxs" /\ CallReturns
    /\ deleted' = [deleted EXCEPT !.txs = TxsAt(db, ffBlock.id)]
    /\ ffpc' = "deleteblock"
    /\ UNCHANGED <<sub, headers, db, forwardfillLocals, stream>>

\* Mutant of DeleteBlock: the reorganisation is not published.
DeleteBlockSilently ==
    /\ ffpc = "deleteblock" /\ CallReturns
    /\ db' = WithoutDeleted(ffBlock.id)
    /\ deleted' = NothingDeleted
    /\ ffpc' = "create"
    /\ UNCHANGED <<sub, headers, forwardfillLocals, stream>>

\* The block itself, and COMMIT.
DeleteBlock ==
    /\ ffpc = "deleteblock" /\ CallReturns
    /\ db' = WithoutDeleted(ffBlock.id)
    /\ deleted' = NothingDeleted
    /\ ffpc' = "pubreorg"
    /\ UNCHANGED <<sub, headers, forwardfillLocals, stream>>

\* Channel "reorg": what was announced for this height is void.
PublishReorg ==
    /\ ffpc = "pubreorg" /\ CallReturns
    /\ stream' = {b \in stream : b.id # ffBlock.id}
    /\ ffpc' = "create"
    /\ UNCHANGED <<sub, headers, db, deleted, forwardfillLocals>>

\* Mutant of Create: ON CONFLICT DO NOTHING for every constraint.
CreateIfAbsent ==
    /\ ffpc = "create" /\ CallReturns
    /\ ~MeetsInserted({ffBlock})
    /\ db' = IF Conflict(db, {ffBlock}) THEN db ELSE Insert(db, {ffBlock})
    /\ committed' = TRUE
    /\ ffpc' = "publish"
    /\ UNCHANGED <<sub, headers, deleted, ffId, ffBlock, stream>>

\* Create, with its COMMIT.
Create ==
    /\ ffpc = "create" /\ CallReturns
    /\ ~MeetsInserted({ffBlock})
    /\ ~Conflict(db, {ffBlock})
    /\ db' = Insert(db, {ffBlock})
    /\ committed' = TRUE
    /\ ffpc' = "publish"
    /\ UNCHANGED <<sub, headers, deleted, ffId, ffBlock, stream>>

\* Another block of this height was stored after the check: the INSERT fails.
CreateConflict ==
    /\ ffpc = "create" /\ ~cancelled
    /\ Conflict(db, {ffBlock})
    /\ ForwardfillReturns

\* Create ignores what tx.Commit() returns.
CreateNotCommitted ==
    /\ CommitMayFail
    /\ ffpc = "create" /\ up /\ ~cancelled /\ Fault
    /\ ~MeetsInserted({ffBlock})
    /\ ~Conflict(db, {ffBlock})
    /\ committed' = FALSE
    /\ ffpc' = "publish"
    /\ UNCHANGED <<up, cancelled, sub, headers, db, deleted, ffId, ffBlock,
                   stream>>

\* Channel "block".
PublishBlock ==
    /\ ffpc = "publish" /\ CallReturns
    /\ stream' = stream \cup {ffBlock}
    /\ ffpc' = "pubrows"
    /\ UNCHANGED <<sub, headers, db, deleted, forwardfillLocals>>

\* Channels "transaction" and "event", one message per row.
PublishRows ==
    /\ ffpc = "pubrows" /\ CallReturns
    /\ ffpc' = "select"
    /\ ffId' = 0 /\ ffBlock' = ZeroBlock /\ committed' = FALSE
    /\ UNCHANGED <<sub, headers, db, deleted, stream>>

\* The calls of the body.
Calling ==
    ffpc \in {"fetch", "check", "delete", "deletetxs", "deleteblock", "pubreorg",
              "create", "publish", "pubrows"}

\* Mutant of ForwardfillFails: the error is logged, and the next header awaited.
ForwardfillFailsOn ==
    /\ Calling /\ CallFails
    /\ ffpc' = "select"
    /\ deleted' = NothingDeleted
    /\ UNCHANGED <<sub, headers, db, forwardfillLocals, stream>>

\* A call fails; Delete's transaction, if it is open, is rolled back.
ForwardfillFails ==
    /\ Calling /\ CallFails
    /\ ffpc' = "done"
    /\ deleted' = NothingDeleted
    /\ UNCHANGED <<sub, headers, db, forwardfillLocals, stream>>

ForwardfillStep ==
    \/ ReceiveHeader \/ ReceiveFromClosed \/ ReceiveError \/ ReceiveDone
    \/ FetchBlockPriority \/ CheckReorg
    \/ DeleteEvents \/ DeleteTransactions \/ DeleteBlock \/ PublishReorg
    \/ Create \/ CreateConflict \/ CreateNotCommitted
    \/ PublishBlock \/ PublishRows \/ ForwardfillFails
=============================================================================
