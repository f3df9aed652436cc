---------------------------- MODULE Transactions ----------------------------
(* The two database transactions of cmd/indexer whose statements may run     *)
(* between each other's: BulkCreate's, which backfill calls, and Delete's,   *)
(* which forwardfill calls.  Both are READ COMMITTED, the default that       *)
(* BeginTx(ctx, nil) asks for: a statement sees what is committed when it    *)
(* runs, and its own transaction's rows; others see its rows at COMMIT.      *)
(*                                                                           *)
(* Rows meet by their keys.  An INSERT ... ON CONFLICT DO NOTHING of a row   *)
(* that is committed does nothing, and locks nothing: the row may be deleted *)
(* right after.  One that meets a row which another open transaction has     *)
(* inserted or deleted waits for that transaction to end.  Postgres breaks a *)
(* circle of such waits by failing a statement: a call that fails.           *)
(*                                                                           *)
(* Create's transaction has no variable.  It is a step, taken at its COMMIT: *)
(* forwardfill deletes nothing meanwhile, and every key it shares with the   *)
(* batch makes the one of the two that is later wait for the other.          *)
EXTENDS Repository

VARIABLES
    inserted,   \* rows of BulkCreate's open transaction
    deleted     \* rows that Delete's open transaction has deleted

databaseVars == <<db, inserted, deleted>>

NothingDeleted == [txs |-> {}, events |-> {}]

TransactionsTypeOK ==
    /\ inserted \in Store
    /\ deleted \in [txs: SUBSET TxRow, events: SUBSET LogRow]

TransactionsInit == inserted = EmptyStore /\ deleted = NothingDeleted

\* A connection that is closed, or a context that is cancelled: the open
\* transactions are rolled back.
RollBack == inserted' = EmptyStore /\ deleted' = NothingDeleted

\* Would inserting the blocks S, with their rows, meet rows that BulkCreate has
\* inserted and not committed?
MeetsInserted(S) ==
    \E b \in S :
        \/ b.id \in Ids(inserted)
        \/ TxsOf[b] \cap TxHashes(inserted) # {}
        \/ LogsOf[b] \cap LogKeys(inserted) # {}

\* Would inserting the transactions of the blocks S meet rows that Delete has
\* deleted and not committed?
MeetsDeletedTxs(S) == \E b \in S : TxsOf[b] \cap TxHashes(deleted) # {}

\* And their events?
MeetsDeletedEvents(S) == \E b \in S : LogsOf[b] \cap LogKeys(deleted) # {}

\* The tables once BulkCreate's transaction has committed.
WithInserted ==
    [blocks |-> db.blocks \cup inserted.blocks,
     txs    |-> db.txs \cup inserted.txs,
     events |-> db.events \cup inserted.events]

\* The tables once Delete's has, with n the height: its last statement, the one
\* on blocks, is taken together with the COMMIT that follows it.
WithoutDeleted(n) ==
    [blocks |-> db.blocks \ GetBlockById(db, n),
     txs    |-> db.txs \ deleted.txs,
     events |-> db.events \ deleted.events]
=============================================================================
