----------------------------- MODULE Repository -----------------------------
(* The statements of repository/db/indexer.go, as operators on the contents  *)
(* d of the tables blocks, transactions and events.  Which of them make a    *)
(* database transaction, and what gets between them, is the matter of module *)
(* Transactions and of the goroutines.                                       *)
EXTENDS Domain

VARIABLE db     \* the three tables

Store == [blocks: SUBSET Block, txs: SUBSET TxRow, events: SUBSET LogRow]

EmptyStore == [blocks |-> {}, txs |-> {}, events |-> {}]

RepositoryTypeOK == db \in Store

RepositoryInit == db = EmptyStore

\* The block_ids stored.
Ids(d) == {b.id : b \in d.blocks}

TxHashes(d) == {r.hash : r \in d.txs}
LogKeys(d)  == {r.log : r \in d.events}

\* Mutant of Conflict: the INSERT has no ON CONFLICT clause.
ConflictOnAnyStored(d, S) == \E b \in S : b.id \in Ids(d)

\* The primary key of blocks is block_id and the INSERT only tolerates a
\* conflict on block_hash: a block of a stored height with another hash makes
\* the statement fail, and with it the whole transaction.
Conflict(d, S) ==
    \E b \in S, c \in d.blocks \cup S : b.id = c.id /\ b # c

\* The rows that INSERT ... ON CONFLICT (key) DO NOTHING adds: of the rows of
\* one batch with the same key the first one, the lowest block, is kept.
NewTxRows(d, S) ==
    {r \in TxRow :
        /\ r.hash \notin TxHashes(d)
        /\ \E b \in S : r.block_id = b.id /\ r.hash \in TxsOf[b]
        /\ \A c \in S : r.hash \in TxsOf[c] => r.block_id <= c.id}

NewLogRows(d, S) ==
    {r \in LogRow :
        /\ r.log \notin LogKeys(d)
        /\ \E b \in S : r.block_id = b.id /\ r.log \in LogsOf[b]
        /\ \A c \in S : r.log \in LogsOf[c] => r.block_id <= c.id}

\* Create, when S is its block, and BulkCreate, unless a height of the batch is
\* deleted between its statements.  In both cases ~Conflict(d, S).
Insert(d, S) ==
    [blocks |-> d.blocks \cup S,
     txs    |-> d.txs \cup NewTxRows(d, S),
     events |-> d.events \cup NewLogRows(d, S)]

\* GetBlockById: the row of height n, if there is one.
GetBlockById(d, n) == {b \in d.blocks : b.id = n}

\* What the DELETEs of height n find.  The foreign keys are gone (migration
\* 00002), so no row of another height follows.
TxsAt(d, n)    == {r \in d.txs : r.block_id = n}
EventsAt(d, n) == {r \in d.events : r.block_id = n}

\* Delete, unless rows of height n appear between its statements.
Delete(d, n) ==
    [blocks |-> d.blocks \ GetBlockById(d, n),
     txs    |-> d.txs \ TxsAt(d, n),
     events |-> d.events \ EventsAt(d, n)]

\* What the transactions come to for a reader of the tables, unless they cross:
\* new blocks appear with their rows, or those of a height go.
StoresNew(S) ==
    /\ S # {} /\ S \cap db.blocks = {}
    /\ ~Conflict(db, S)
    /\ db' = Insert(db, S)

DropsHeight(n) ==
    /\ n \in Ids(db)
    /\ db' = Delete(db, n)

\* GetMaxIndexedBlock, as its caller uses it: does MAX(block_id), 0 of an empty
\* table, exceed n?  No count of the stored blocks is taken: a gap below the
\* maximum goes unseen.
MaxIndexedBlockAbove(d, n) == \E m \in Ids(d) : m > n

\* GetLogsByTopic with FromBlock = ToBlock = n and the transfer signatures.
GetLogsByTopic(d, n) ==
    {l \in Transfer : [log |-> l, block_id |-> n] \in d.events}
=============================================================================
