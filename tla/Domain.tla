------------------------------- MODULE Domain -------------------------------
(* What the indexer moves around: blocks, the transactions they contain and  *)
(* the logs those emit (core/domain/types.go).  A block is identified by its *)
(* height (block_id) and by the fork it was mined on; the pair stands for    *)
(* its block_hash: two different blocks have two different hashes.  What a   *)
(* block contains is a constant of the model.                                *)
EXTENDS Integers, FiniteSets

CONSTANTS
    MaxId,      \* highest block height of the instance
    MaxReorgs,  \* number of chain reorganisations of the instance
    Tx,         \* transaction hashes
    Log,        \* event keys, the pairs (tx_hash, log_index)
    TxsOf,      \* [Block -> SUBSET Tx], the transactions of a block
    LogsOf,     \* [Block -> SUBSET Log], the logs in a block's receipts
    TxOf,       \* [Log -> Tx], the transaction that emitted a log
    Transfer    \* the logs whose first topic is a transfer signature

Height == 0..MaxId
Fork   == 0..MaxReorgs

\* What extractBlock makes of a JSON-RPC answer "null": block number 0, and a
\* hash of zeros that no mined block has.  The receipts are null as well.
ZeroBlock == [id |-> 0, fork |-> -1]

Block == [id: Height, fork: Fork] \cup {ZeroBlock}

Genesis == [id |-> 0, fork |-> 0]

\* A row of table transactions and a row of table events (the columns that
\* constraints and statements look at).
TxRow  == [hash: Tx, block_id: Height]
LogRow == [log: Log, block_id: Height]

ASSUME DomainAssumption ==
    /\ MaxId \in Nat
    /\ MaxReorgs \in Nat
    /\ TxsOf \in [Block -> SUBSET Tx]
    /\ LogsOf \in [Block -> SUBSET Log]
    /\ TxOf \in [Log -> Tx]
    /\ Transfer \subseteq Log
    /\ TxsOf[ZeroBlock] = {}
    /\ LogsOf[ZeroBlock] = {}
    \* The receipts of a block are those of its transactions.
    /\ \A b \in Block : \A l \in LogsOf[b] : TxOf[l] \in TxsOf[b]

\* Assumed where it is named: no transaction is in two blocks of different
\* heights.  The run moved_tx shows what happens otherwise.
TxsStay ==
    \A b, c \in Block : TxsOf[b] \cap TxsOf[c] # {} => b.id = c.id
=============================================================================
