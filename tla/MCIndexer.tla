----------------------------- MODULE MCIndexer ------------------------------
(* Instances of Indexer for TLC.  The sets of transactions and logs follow   *)
(* from the heights; contents come in two variants.                          *)
EXTENDS IndexerProperties

\* Transactions 1..W are numbered by the height of their block on even forks.
W == MaxId + 1

MCTx       == 1..(2 * W)
MCLog      == MCTx
MCTransfer == 1..W

\* Transaction n is in the block of height n on every fork, and transaction
\* W + n in the block of height n on odd forks; each emits one log.
MCTxsOf ==
    [b \in Block |->
        IF b.id = 0 THEN {}
        ELSE {b.id} \cup (IF b.fork % 2 = 1 THEN {W + b.id} ELSE {})]

MCTxOf == [l \in MCLog |-> l]

\* A reorganisation moves transactions: on odd forks the block of height n has
\* the transaction that height n + 1 has on even forks, and there, executed on
\* another state, that transaction n emits log W + n instead of log n.
MCTxsOfMoved ==
    [b \in Block |->
        IF b.id = 0 THEN {} ELSE {IF b.fork % 2 = 0 THEN b.id ELSE b.id + 1}]

MCLogsOfMoved ==
    [b \in Block |->
        IF b.id = 0 THEN {}
        ELSE {IF b.fork % 2 = 0 THEN b.id ELSE W + b.id + 1}]

MCTxOfMoved == [l \in MCLog |-> IF l > W THEN l - W ELSE l]
=============================================================================
