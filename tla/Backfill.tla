------------------------------ MODULE Backfill ------------------------------
(* The goroutine backfill (core/services/backfill.go): it stores the blocks  *)
(* up to the height the chain had when Run started, in batches whose blocks  *)
(* are fetched concurrently, and records the last height of every batch in   *)
(* table backfill_cursor, in a statement of its own after the batch.         *)
EXTENDS Fetcher, Transactions

CONSTANTS
    From,       \* first height to index (configuration)
    BatchSize   \* blocks per batch

ASSUME BackfillAssumption ==
    /\ From \in Height
    /\ BatchSize \in Nat \ {0}

VARIABLES
    bfpc,           \* what backfill does next, see BackfillPc
    targetId,       \* last height to index
    curr,           \* first height of the current batch
    pending,        \* heights of the batch whose FetchBlock has not returned
    results,        \* blocks of the batch fetched so far
    backfillCursor, \* table backfill_cursor
    backfillChan    \* does backfillChan hold the signal for balancefill?

backfillLocals == <<targetId, curr, pending, results>>
backfillVars   == <<bfpc, backfillLocals, backfillCursor, backfillChan>>

\* off      the process is down
\* target   Run waits for GetLastBlockId, backfill is not launched yet
\* cursor   reading the cursor
\* fetch    fetching a batch, then inserting its blocks
\* txs      inserting its transactions
\* events   inserting its events
\* commit   committing
\* advance  the batch is stored, updating the cursor
\* done     returned
BackfillPc == {"off", "target", "cursor", "fetch", "txs", "events", "commit",
               "advance", "done"}

BackfillTypeOK ==
    /\ bfpc \in BackfillPc
    /\ targetId \in Height
    /\ curr \in Height
    /\ pending \subseteq Height
    /\ results \subseteq Block
    /\ backfillCursor \in Height
    /\ backfillChan \in BOOLEAN

BackfillInit ==
    /\ bfpc = "off"
    /\ targetId = 0 /\ curr = 0 /\ pending = {} /\ results = {}
    /\ backfillChan = FALSE
    /\ backfillCursor = 0

\* The process is gone, and the locals and the channel with it.
BackfillStops ==
    /\ bfpc' = "off"
    /\ targetId' = 0 /\ curr' = 0 /\ pending' = {} /\ results' = {}
    /\ backfillChan' = FALSE
    /\ UNCHANGED backfillCursor

-----------------------------------------------------------------------------
\* Where the batch that starts at height first ends.
BatchEnd(first) ==
    IF first + BatchSize - 1 > targetId THEN targetId ELSE first + BatchSize - 1

\* Mutant of ResumeAt: the height after the next one.
ResumePast == IF backfillCursor > 0 THEN backfillCursor + 2 ELSE From

\* The first height to index.  A cursor of 0 cannot be told from no cursor.
ResumeAt == IF backfillCursor > 0 THEN backfillCursor + 1 ELSE From

StartBatch(first) ==
    /\ bfpc' = "fetch"
    /\ curr' = first
    /\ pending' = first..BatchEnd(first)
    /\ results' = {}

GetBackfillCursor ==
    /\ bfpc = "cursor" /\ CallReturns
    /\ ResumeAt <= targetId
    /\ StartBatch(ResumeAt)
    /\ UNCHANGED <<db, inserted, targetId, backfillCursor, backfillChan>>

\* "already up to date": backfill returns without sending on its channel.
UpToDate ==
    /\ bfpc = "cursor" /\ CallReturns
    /\ ResumeAt > targetId
    /\ bfpc' = "done"
    /\ UNCHANGED <<db, inserted, backfillLocals, backfillCursor, backfillChan>>

\* One of the goroutines of the batch gets its block.
FetchResult(n) ==
    /\ bfpc = "fetch" /\ n \in pending /\ CallReturns
    /\ \E b \in FetchBlock(n) : results' = results \cup {b}
    /\ pending' = pending \ {n}
    /\ UNCHANGED <<bfpc, db, inserted, targetId, curr, backfillCursor,
                   backfillChan>>

\* BulkCreate, statement by statement.  A block that is stored is not inserted
\* again.
InsertBlocks ==
    /\ bfpc = "fetch" /\ pending = {} /\ CallReturns
    /\ ~Conflict(db, results)
    /\ inserted' = [inserted EXCEPT !.blocks = results \ db.blocks]
    /\ bfpc' = "txs"
    /\ UNCHANGED <<db, backfillLocals, backfillCursor, backfillChan>>

\* The transactions of all blocks of the batch, those found stored included.
InsertTransactions ==
    /\ bfpc = "txs" /\ CallReturns
    /\ ~MeetsDeletedTxs(results)
    /\ inserted' = [inserted EXCEPT !.txs = NewTxRows(db, results)]
    /\ bfpc' = "events"
    /\ UNCHANGED <<db, backfillLocals, backfillCursor, backfillChan>>

InsertEvents ==
    /\ bfpc = "events" /\ CallReturns
    /\ ~MeetsDeletedEvents(results)
    /\ inserted' = [inserted EXCEPT !.events = NewLogRows(db, results)]
    /\ bfpc' = "commit"
    /\ UNCHANGED <<db, backfillLocals, backfillCursor, backfillChan>>

CommitBatch ==
    /\ bfpc = "commit" /\ CallReturns
    /\ db' = WithInserted
    /\ inserted' = EmptyStore
    /\ bfpc' = "advance"
    /\ results' = {}
    /\ UNCHANGED <<targetId, curr, pending, backfillCursor, backfillChan>>

\* A block of the batch is stored with another hash: the INSERT fails.
BulkCreateConflict ==
    /\ bfpc = "fetch" /\ pending = {} /\ ~cancelled
    /\ Conflict(db, results)
    /\ ReturnError
    /\ bfpc' = "done"
    /\ results' = {}
    /\ UNCHANGED <<db, inserted, targetId, curr, pending, backfillCursor,
                   backfillChan>>

\* Mutant of UpdateBackfillCursor: the completion is never signalled.
UpdateBackfillCursorOnly ==
    /\ bfpc = "advance" /\ CallReturns
    /\ backfillCursor' = BatchEnd(curr)
    /\ IF BatchEnd(curr) < targetId
       THEN StartBatch(BatchEnd(curr) + 1)
       ELSE bfpc' = "done" /\ UNCHANGED <<curr, pending, results>>
    /\ UNCHANGED <<db, inserted, targetId, backfillChan>>

UpdateBackfillCursor ==
    /\ bfpc = "advance" /\ CallReturns
    /\ backfillCursor' = BatchEnd(curr)
    /\ IF BatchEnd(curr) < targetId
       THEN StartBatch(BatchEnd(curr) + 1) /\ UNCHANGED backfillChan
       ELSE /\ bfpc' = "done"
            /\ backfillChan' = TRUE
            /\ UNCHANGED <<curr, pending, results>>
    /\ UNCHANGED <<db, inserted, targetId>>

\* A call fails; a failed FetchBlock makes g.Wait return its error, and what
\* the other goroutines of the batch fetched is dropped.  A transaction that is
\* open is rolled back.
BackfillFails ==
    /\ bfpc \in {"cursor", "fetch", "txs", "events", "commit", "advance"}
    /\ CallFails
    /\ bfpc' = "done"
    /\ pending' = {} /\ results' = {}
    /\ inserted' = EmptyStore
    /\ UNCHANGED <<db, targetId, curr, backfillCursor, backfillChan>>

BackfillStep ==
    \/ GetBackfillCursor \/ UpToDate
    \/ \E n \in Height : FetchResult(n)
    \/ InsertBlocks \/ InsertTransactions \/ InsertEvents \/ CommitBatch
    \/ BulkCreateConflict \/ UpdateBackfillCursor \/ BackfillFails
=============================================================================
